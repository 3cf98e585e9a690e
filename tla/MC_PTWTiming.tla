---------------------------- MODULE MC_PTWTiming ----------------------------
(* Walk shapes for calculatePTWCycles.  accessCache answers 1 (a hit) or   *)
(* 3 (a miss); the fault latency is 5.                                     *)
EXTENDS PTWTiming, TLC

\* Every access sequence of length 1 .. k over the given tables and levels
\* with exactly one final access.
WalksUpTo(k, tabs, lvls) ==
  UNION {{w \in [1 .. n -> [tab : tabs, level : lvls, final : BOOLEAN]] :
            Cardinality({i \in 1 .. n : w[i].final}) = 1} : n \in 1 .. k}

\* Every level from 0 to the deepest of each table has an access, and the
\* final access is at the deepest level of its table.
WellFormed(w) ==
  LET tabs == {w[i].tab : i \in DOMAIN w}
      deepest(t) == MaxOf({w[i].level : i \in {j \in DOMAIN w : w[j].tab = t}})
      f == CHOOSE i \in DOMAIN w : w[i].final
  IN  /\ \A t \in tabs : \A l \in 0 .. deepest(t) :
           \E i \in DOMAIN w : w[i].tab = t /\ w[i].level = l
      /\ w[f].level = deepest(w[f].tab)

\* Radix walks: one table of up to four levels, one access per level, the
\* leaf PTE last; the redundant-access filter may have removed the first
\* levels (served by the page-walk caches), so a walk covers levels s .. d-1.
MC_RadixWalks ==
  {[i \in 1 .. d - s |-> [tab |-> 0, level |-> s + i - 1, final |-> i = d - s]] :
     <<d, s>> \in {x \in (1 .. 4) \X (0 .. 3) : x[2] < x[1]}}

\* One table whose last level has several probes, one of them final.
MC_ProbeWalks ==
  {w \in WalksUpTo(3, {0}, 0 .. 1) : WellFormed(w)}

\* Two tables (e.g. one per page size); the final access is the only access
\* at its table and level.
MC_HashWalks ==
  {w \in WalksUpTo(3, 0 .. 1, 0 .. 1) :
     /\ WellFormed(w)
     /\ {w[i].tab : i \in DOMAIN w} = 0 .. 1
     /\ \A i, j \in DOMAIN w :
          w[i].final /\ i # j => <<w[j].tab, w[j].level>> # <<w[i].tab, w[i].level>>}
=============================================================================
