------------------------------ MODULE RangeMMU ------------------------------
(***************************************************************************)
(* RangeMMU::performRangeWalk: the range lookaside buffer (RLB) in front   *)
(* of the application's range table.                                       *)
(*                                                                         *)
(* A range is [vpn, bounds, offset]: its key is the virtual address range  *)
(* vpn .. bounds - 1 (range_table->lookup(address) compares addresses),    *)
(* and offset is the physical page of its first page.  The range table    *)
(* is a constant (it belongs to the OS model).  Its lookup visits a path   *)
(* of tree nodes, one cache access each; the path length and each access's *)
(* latency are chosen from small sets.  Which entry a full RLB evicts is   *)
(* its own policy.  On a miss the RLB answers with MissEntry, the Range    *)
(* the RLB returns alongside false.  The MMU's range branch that calls     *)
(* performRangeWalk (range_hit, ppn_result) is given as operators of the  *)
(* returned tuple.                                                          *)
(***************************************************************************)
EXTENDS Integers, Sequences, FiniteSets

CONSTANTS
  Addrs,        \* virtual addresses the core translates
  RangeTable,   \* the ranges of the range table (pairwise disjoint)
  MissEntry,    \* the Range returned by range_lb->access on a miss
  RLBCapacity,  \* entries of the RLB
  MaxDepth,     \* longest path of nodes a range-table lookup visits
  Latencies     \* latencies accessCache may answer

Covers(r, a) == r.vpn <= a /\ a < r.bounds

ASSUME \A a \in Addrs : Cardinality({r \in RangeTable : Covers(r, a)}) <= 1
ASSUME RLBCapacity \in Nat \ {0} /\ MaxDepth \in Nat \ {0}

VARIABLES
  rlb,     \* the ranges the RLB holds
  last     \* the last result: [addr, latency, vpn, offset, hit]

vars == <<rlb, last>>

NoResult == [addr |-> -1, latency |-> 0, vpn |-> -1, offset |-> -1, hit |-> FALSE]

Init ==
  /\ rlb = {}
  /\ last = NoResult

\* Bug variant: the RLB inserts without evicting.
InsertOutcomes_NoEvict(r) == {rlb \cup {r}}

\* range_lb->insert_entry(range): a full RLB evicts an entry of its choice.
InsertOutcomes(r) ==
  IF r \in rlb THEN {rlb}
  ELSE IF Cardinality(rlb) < RLBCapacity THEN {rlb \cup {r}}
  ELSE {(rlb \ {e}) \cup {r} : e \in rlb}

\* charged_range_walk_latency += accessCache(...) over the visited nodes.
RECURSIVE Total(_)
Total(ls) == IF ls = << >> THEN 0 ELSE Head(ls) + Total(Tail(ls))

\* RLB miss, range-table hit: one cache access per visited node, each
\* charged in turn; the range is inserted into the RLB; the
\* result carries hit_rlb.second, the RLB's miss answer.
TableHit(a) ==
  LET r == CHOOSE x \in RangeTable : Covers(x, a)
  IN  \E d \in 1 .. MaxDepth, ls \in [1 .. MaxDepth -> Latencies] :
        LET path == [k \in 1 .. d |-> ls[k]]
        IN  /\ rlb' \in InsertOutcomes(r)
            /\ last' = [addr |-> a, latency |-> Total(path),
                        vpn |-> MissEntry.vpn, offset |-> MissEntry.offset, hit |-> FALSE]

\* RLB miss and no covering range: (latency, -1, -1), nothing inserted.
TrueMiss(a) ==
  /\ last' = [addr |-> a, latency |-> 0, vpn |-> -1, offset |-> -1, hit |-> FALSE]
  /\ UNCHANGED rlb

\* performRangeWalk(address).
performRangeWalk(a) ==
  \/ \E r \in rlb :
       /\ Covers(r, a)
       /\ last' = [addr |-> a, latency |-> 0, vpn |-> r.vpn, offset |-> r.offset, hit |-> TRUE]
       /\ UNCHANGED rlb
  \/ /\ ~\E r \in rlb : Covers(r, a)
     /\ \E r \in RangeTable : Covers(r, a)
     /\ TableHit(a)
  \/ /\ ~\E r \in rlb : Covers(r, a)
     /\ ~\E r \in RangeTable : Covers(r, a)
     /\ TrueMiss(a)

\* The MMU's range branch after a TLB miss: range_hit when the returned
\* vpn is not -1, and then ppn_result = (current_vpn - vpn_start) +
\* ppn_offset with current_vpn = address >> 12, vpn_start = vpn / 4096.
range_hit  == last.vpn # -1
ppn_result == (last.addr \div 4096 - last.vpn \div 4096) + last.offset

Next == \E a \in Addrs : performRangeWalk(a)

Spec == Init /\ [][Next]_vars

-----------------------------------------------------------------------------
(* Properties                                                              *)

TypeOK ==
  /\ rlb \subseteq RangeTable
  /\ Cardinality(rlb) <= RLBCapacity
  /\ last.hit \in BOOLEAN

\* The range table's translation of address a: the page's distance from
\* the first page of its range, added to the range's physical page.
TablePpn(a) == LET r == CHOOSE x \in RangeTable : Covers(x, a)
               IN  (a \div 4096 - r.vpn \div 4096) + r.offset

\* Whenever the MMU takes a range hit, its ppn_result is the range table's
\* translation of the address, including right after a range-table walk.
ResultTranslates ==
  range_hit => ppn_result = TablePpn(last.addr)

=============================================================================
