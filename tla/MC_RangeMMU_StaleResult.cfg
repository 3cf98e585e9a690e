CONSTANTS
  Addrs <- MC_Addrs
  RangeTable <- MC_RangeTable
  MissEntry <- MC_MissEntry
  RLBCapacity = 2
  MaxDepth = 3
  Latencies = {1, 3}
SPECIFICATION Spec
INVARIANTS
  ResultTranslates
