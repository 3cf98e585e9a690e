----------------------------- MODULE MC_RangeMMU -----------------------------
(* Eight 4KB virtual pages, one address 100 bytes into each; three ranges  *)
(* of two pages, pages 2 and 7 mapped by none; a two-entry RLB, so that    *)
(* the third range evicts one of the others.  The RLB's miss answer is a   *)
(* value-initialised Range.                                                *)
EXTENDS RangeMMU, TLC

MC_Addrs == {p * 4096 + 100 : p \in 0 .. 7}
MC_RangeTable == {[vpn |-> 0,        bounds |-> 2 * 4096, offset |-> 10],
                  [vpn |-> 3 * 4096, bounds |-> 5 * 4096, offset |-> 20],
                  [vpn |-> 5 * 4096, bounds |-> 7 * 4096, offset |-> 40]}
MC_MissEntry == [vpn |-> 0, bounds |-> 0, offset |-> 0]
=============================================================================
