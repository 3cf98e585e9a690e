---------------------------- MODULE WalkerPool ----------------------------
(***************************************************************************)
(* The page-table walkers of one MMU (pt_walkers, an MSHR of max_walkers  *)
(* entries) and the miss path of performAddressTranslation that uses them: *)
(* the walk of a request that missed every TLB waits for a walker          *)
(* (getSlotAllocationDelay), starts at time_for_pt + delay, and its entry *)
(* occupies the walker until completion_time.                              *)
(*                                                                         *)
(* The core model issues translations with the time of the instruction    *)
(* that makes the access, so requests reach the MMU with any time, in any  *)
(* order; the time is chosen from IssueTimes.  What the walk and the page *)
(* fault cost is chosen from WalkLatencies and {TRUE, FALSE}.  The MSHR's  *)
(* code is not in the listing: getSlotAllocationDelay and allocate follow  *)
(* the design text, which gives the pool max_walkers slots and the delay   *)
(* as the time until the earliest slot becomes free (0 if one is free at   *)
(* the request time).  A slot is represented by the time it becomes free;  *)
(* allocate books the earliest-free slot until completion_time.  The walks *)
(* themselves are kept in a bag of [request_time, completion_time, start] *)
(* that only the properties read.                                           *)
(***************************************************************************)
EXTENDS Naturals, Bags, FiniteSetsExt

CONSTANTS
  MaxWalkers,     \* walkers of the MSHR
  IssueTimes,     \* times at which a translation may miss the TLBs
  WalkLatencies,  \* total_walk_latency that performPTW may return
  FaultLatency,   \* getPageFaultLatency()
  MaxWalks        \* bound on the walks of one behaviour

ASSUME MaxWalkers \in Nat \ {0} /\ MaxWalks \in Nat
ASSUME IssueTimes \subseteq Nat /\ WalkLatencies \subseteq Nat \ {0}

Slots == 1 .. MaxWalkers

VARIABLES
  slots,    \* slot |-> the time its current walk completes
  entries,  \* bag of [request_time, completion_time, start] (history)
  now       \* the thread's elapsed time after the last translation

vars == <<slots, entries, now>>

\* The time the earliest slot becomes free.
EarliestFree == Min({slots[w] : w \in Slots})

\* Bug variant: the delay is read off the walks still to complete at t,
\* queued ones included, rather than off the slots: every waiting request
\* is sent to the same earliest completion.
Occupied(t) ==
  LET occ == {e \in BagToSet(entries) : e.completion_time > t}
  IN  [e \in occ |-> entries[e]]
getSlotAllocationDelay_PendingWalks(t) ==
  IF BagCardinality(Occupied(t)) < MaxWalkers THEN 0
  ELSE Min({e.completion_time : e \in BagToSet(Occupied(t))}) - t

\* Bug variant: the delay is not clamped at 0 when a slot is already free.
getSlotAllocationDelay_NoFreeCheck(t) == EarliestFree - t

\* getSlotAllocationDelay(t): 0 if a slot is free at t, otherwise the time
\* until the earliest slot becomes free.
getSlotAllocationDelay(t) ==
  IF EarliestFree <= t THEN 0 ELSE EarliestFree - t

\* pt_walkers->allocate(entry): the walk takes the earliest-free slot (any
\* one of them on a tie) and holds it until completion_time.
allocate(e) ==
  /\ \E w \in Slots :
       /\ slots[w] = EarliestFree
       /\ slots' = [slots EXCEPT ![w] = e.completion_time]
  /\ entries' = entries (+) SetToBag({e})

Init ==
  /\ slots = [w \in Slots |-> 0]
  /\ entries = EmptyBag
  /\ now = 0

\* The miss path of performAddressTranslation: time_for_pt is the request
\* time, the elapsed time is moved to time_for_pt + delay for the walk,
\* completion_time adds the walk and the fault latency, the entry is
\* allocated and the elapsed time is set to completion_time.
Translate(t, lat, pf) ==
  LET delay      == getSlotAllocationDelay(t)
      fault      == IF pf THEN FaultLatency ELSE 0
      completion == t + delay + lat + fault
  IN  /\ BagCardinality(entries) < MaxWalks
      /\ allocate([request_time |-> t, completion_time |-> completion,
                   start |-> t + delay])
      /\ now' = completion

Next == \E t \in IssueTimes, lat \in WalkLatencies, pf \in BOOLEAN : Translate(t, lat, pf)

Spec == Init /\ [][Next]_vars

-----------------------------------------------------------------------------
(* Properties                                                              *)

TypeOK ==
  /\ slots \in [Slots -> Nat]
  /\ IsABag(entries)
  /\ \A e \in BagToSet(entries) :
       e.request_time <= e.start /\ e.start < e.completion_time
  /\ now \in Nat

\* The walks in flight at time x: started and not yet completed.
InFlight(x) ==
  LET run == {e \in BagToSet(entries) : e.start <= x /\ x < e.completion_time}
  IN  BagCardinality([e \in run |-> entries[e]])

\* The design's invariant of the walker pool: at no time are more walks in
\* flight than there are walkers, for bursts larger than the pool and
\* misses that arrive out of time order.  The delay getSlotAllocationDelay
\* hands out, the start the miss path derives from it and the slot that
\* allocate books until completion_time (fault latency included) must
\* agree for this to hold.
WalkersWithinCapacity ==
  \A e \in BagToSet(entries) : InFlight(e.start) <= MaxWalkers

=============================================================================
