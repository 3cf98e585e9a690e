----------------------------- MODULE PTWTiming -----------------------------
(***************************************************************************)
(* MemoryManagementUnitBase::calculatePTWCycles: the loop that issues the  *)
(* memory accesses of one page-table walk to the cache hierarchy, table by *)
(* table and level by level, and accumulates the latency of each level.    *)
(*                                                                         *)
(* The walk (what page_table->initializeWalk returns after filtering) is a *)
(* sequence of accesses [tab, level, final]; the address of an access is   *)
(* left out, since the loop only passes it to accessCache.  What           *)
(* accessCache answers for the n-th access is the input lat[n].  Both are  *)
(* chosen in Init from small sets; t_now is 0.  The loop runs one step per *)
(* iteration of its innermost statement.                                   *)
(*                                                                         *)
(* The listing does not show the initialisation of correct_level and of    *)
(* latency_per_table_per_level; the model starts them at -1 (no level) and *)
(* at zero.                                                                *)
(***************************************************************************)
EXTENDS Integers, Sequences, FiniteSets

CONSTANTS
  Walks,         \* the access sequences initializeWalk may return
  Latencies,     \* the latencies accessCache may answer
  FaultLatency,  \* getPageFaultLatency()
  MaxTables,     \* table indices are 0 .. MaxTables
  MaxLevels      \* level indices are 0 .. MaxLevels

TabIdx   == 0 .. MaxTables
LevelIdx == 0 .. MaxLevels
AccessRec == [tab : TabIdx, level : LevelIdx, final : BOOLEAN]

ASSUME Walks \subseteq Seq(AccessRec) /\ \A w \in Walks : Len(w) > 0
ASSUME Latencies \subseteq Nat \ {0} /\ FaultLatency \in Nat

\* tables and levels: the largest table and level index of the walk.
MaxOf(S) == CHOOSE x \in S : \A y \in S : y <= x
Tables(w) == MaxOf({w[n].tab : n \in DOMAIN w})
Levels(w) == MaxOf({w[n].level : n \in DOMAIN w})

VARIABLES
  walk, lat, is_pagefault,      \* the inputs
  tab, level, req, fetch_delay, \* the loop counters and the issue clock
  ltpl,                         \* latency_per_table_per_level
  correct_table, correct_level,
  issued,                       \* access index |-> time it was issued at
  pc                            \* "loop" or "done"

vars == <<walk, lat, is_pagefault, tab, level, req, fetch_delay, ltpl,
          correct_table, correct_level, issued, pc>>

initial_delay == IF is_pagefault THEN FaultLatency ELSE 0

Init ==
  /\ walk \in Walks
  /\ lat \in [1 .. Len(walk) -> Latencies]
  /\ is_pagefault \in BOOLEAN
  /\ tab = 0 /\ level = 0 /\ req = 1
  /\ fetch_delay = initial_delay
  /\ ltpl = [t \in TabIdx |-> [l \in LevelIdx |-> 0]]
  /\ correct_table = -1 /\ correct_level = -1
  /\ issued = [n \in {} |-> 0]
  /\ pc = "loop"

\* The access at req belongs to the current table and level.
Matches == walk[req].level = level /\ walk[req].tab = tab

\* latency_per_table_per_level[tab][level] = latency, set by a final access.
FinalLatency == [ltpl EXCEPT ![tab][level] = lat[req]]

\* latency = accessCache(packet, t_now + fetch_delay).  A final access
\* records its table and level, overwrites the level latency and breaks
\* out of the request loop; any other access raises the level latency to
\* its own unless its level is correct_level.
Access ==
  /\ pc = "loop" /\ req <= Len(walk) /\ Matches
  /\ issued' = [n \in DOMAIN issued \cup {req} |->
                  IF n = req THEN fetch_delay ELSE issued[n]]
  /\ IF walk[req].final
       THEN /\ correct_table' = tab /\ correct_level' = level
            /\ ltpl' = FinalLatency
            /\ req' = Len(walk) + 1
       ELSE /\ ltpl' = IF ltpl[tab][level] < lat[req] /\ level # correct_level
                       THEN [ltpl EXCEPT ![tab][level] = lat[req]] ELSE ltpl
            /\ req' = req + 1
            /\ UNCHANGED <<correct_table, correct_level>>
  /\ UNCHANGED <<walk, lat, is_pagefault, tab, level, fetch_delay, pc>>

\* An access of another table or level: the request loop moves on.
Skip ==
  /\ pc = "loop" /\ req <= Len(walk) /\ ~Matches
  /\ req' = req + 1
  /\ UNCHANGED <<walk, lat, is_pagefault, tab, level, fetch_delay, ltpl,
                 correct_table, correct_level, issued, pc>>

\* Bug variant: the level latency is not added to fetch_delay.
LevelDone_NoAccumulate == fetch_delay

\* fetch_delay once the current level completes.
LevelDone == fetch_delay + ltpl[tab][level]

\* Bug variant: the level loop runs one level past the deepest one.
DeepestLevel_PastLast(w) == Levels(w) + 1

\* The last level index the level loop visits: levels + 1 iterations.
DeepestLevel(w) == Levels(w)

\* End of the request loop: fetch_delay += latency_per_table_per_level
\* [tab][level], then the next level; after the last level the next table
\* starts again from initial_delay; after the last table the walk is done.
EndLevel ==
  /\ pc = "loop" /\ req > Len(walk)
  /\ req' = 1
  /\ \/ /\ level < DeepestLevel(walk)
        /\ level' = level + 1
        /\ fetch_delay' = LevelDone
        /\ UNCHANGED <<tab, pc>>
     \/ /\ level = DeepestLevel(walk) /\ tab < Tables(walk)
        /\ tab' = tab + 1 /\ level' = 0
        /\ fetch_delay' = initial_delay
        /\ UNCHANGED pc
     \/ /\ level = DeepestLevel(walk) /\ tab = Tables(walk)
        /\ pc' = "done"
        /\ UNCHANGED <<tab, level, fetch_delay>>
  /\ UNCHANGED <<walk, lat, is_pagefault, ltpl, correct_table, correct_level, issued>>

Next == Access \/ Skip \/ EndLevel

\* The loop is straight-line code of the calling thread: once running it
\* runs to its end.
Spec == Init /\ [][Next]_vars /\ WF_vars(Next)

-----------------------------------------------------------------------------
(* Properties                                                              *)

TypeOK ==
  /\ tab \in TabIdx /\ level \in LevelIdx
  /\ req \in 1 .. Len(walk) + 1
  /\ fetch_delay \in Nat
  /\ ltpl \in [TabIdx -> [LevelIdx -> Nat]]
  /\ correct_table \in TabIdx \cup {-1} /\ correct_level \in LevelIdx \cup {-1}
  /\ DOMAIN issued \subseteq DOMAIN walk
  /\ pc \in {"loop", "done"}

\* Reference: a level costs the largest latency of the accesses at it.
RefLevelMax(t, l) ==
  MaxOf({0} \cup {lat[n] : n \in {m \in DOMAIN walk : walk[m].tab = t /\ walk[m].level = l}})

\* When the walk is done, every level of every table is charged the largest
\* latency among its accesses (the design: a level completes when its
\* slowest access does).  The final-access overwrite, the break and the
\* correct_level test are the code that could get this wrong.
LevelLatencyIsMax ==
  pc = "done" => \A t \in TabIdx, l \in LevelIdx : ltpl[t][l] = RefLevelMax(t, l)

\* Accesses of one table are serialised by level: an access is issued only
\* after every access of a shallower level of the same table has
\* completed (issue time plus latency).
IssuedAfterPreviousLevel ==
  \A m, n \in DOMAIN issued :
     walk[m].tab = walk[n].tab /\ walk[m].level < walk[n].level
       => issued[n] >= issued[m] + lat[m]

=============================================================================
