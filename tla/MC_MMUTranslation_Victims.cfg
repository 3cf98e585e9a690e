CONSTANTS
  a1 = a1
  a2 = a2
  a3 = a3
  a4 = a4
  iTLB = iTLB
  dTLB = dTLB
  sTLB = sTLB
  l3TLB = l3TLB
  Addrs <- MC_Addrs
  PT <- MC_PT
  Tlbs <- MC_Tlbs
  UnitType <- MC_UnitType
  AllocOnMiss <- MC_AllocOnMiss
  Capacity <- MC_Capacity
  Supports <- MC_SupportsL2Small
SPECIFICATION Spec
INVARIANTS
  EntriesAreValidTranslations
