------------------------- MODULE MC_MMUTranslation -------------------------
(* A split L1 (instruction / data) over a unified L2, as in the default    *)
(* Sniper configuration: a two-entry L1 instruction TLB, a one-entry L1   *)
(* data TLB and a two-entry L2, so that the L1s hold different entries    *)
(* and evictions cascade.  Four addresses: three 4KB pages, one 2MB page. *)
(* MC_Tlbs3 adds a one-entry unified L3 below the L2, so that the L2's     *)
(* victims are re-offered one level further and evict again there.        *)
EXTENDS MMUTranslation, TLC

CONSTANTS a1, a2, a3, a4, iTLB, dTLB, sTLB, l3TLB

MC_Addrs == {a1, a2, a3, a4}
MC_PT == (a1 :> [size |-> 12, vpn |-> 1, ppn |-> 10]) @@
         (a2 :> [size |-> 12, vpn |-> 2, ppn |-> 20]) @@
         (a3 :> [size |-> 12, vpn |-> 3, ppn |-> 30]) @@
         (a4 :> [size |-> 21, vpn |-> 1, ppn |-> 40])
MC_Tlbs  == << <<iTLB, dTLB>>, <<sTLB>> >>
MC_Tlbs3 == << <<iTLB, dTLB>>, <<sTLB>>, <<l3TLB>> >>
MC_UnitType == (iTLB :> "Instruction") @@ (dTLB :> "Data") @@ (sTLB :> "Unified") @@ (l3TLB :> "Unified")
MC_AllocOnMiss == [u \in {iTLB, dTLB, sTLB, l3TLB} |-> TRUE]
MC_Capacity == (iTLB :> 2) @@ (dTLB :> 1) @@ (sTLB :> 2) @@ (l3TLB :> 1)
\* every unit holds both page sizes
MC_SupportsAll == [u \in {iTLB, dTLB, sTLB, l3TLB} |-> {12, 21}]
\* the L2 holds 4KB pages only
MC_SupportsL2Small == (iTLB :> {12, 21}) @@ (dTLB :> {12, 21}) @@ (sTLB :> {12}) @@ (l3TLB :> {12})
=============================================================================
