--------------------------- MODULE MMUTranslation ---------------------------
(***************************************************************************)
(* MemoryManagementUnit::performAddressTranslation: the ordered lookup in  *)
(* the TLB hierarchy, the page-table walk on a full miss, and the fill     *)
(* loop that allocates the translation in the levels above the hit and     *)
(* re-offers every entry evicted at level i-1 to the units of level i.     *)
(*                                                                         *)
(* The walk itself is abstracted to its result: the page table PT gives    *)
(* each virtual address its page size and physical page number.  A TLB    *)
(* entry is a tag <<page_size, address >> page_size>> with a ppn.  Which   *)
(* entry a full TLB evicts is the TLB's own replacement policy and is      *)
(* chosen nondeterministically.                                            *)
(***************************************************************************)
EXTENDS Naturals, Sequences, FiniteSets

CONSTANTS
  Addrs,        \* virtual addresses the core translates (model values)
  PT,           \* Addrs -> [size, vpn, ppn]: what performPTW returns
  Tlbs,         \* tlbs[i][j]: sequence of levels, each a sequence of units
  UnitType,     \* unit -> "Instruction" | "Data" | "Unified"
  Supports,     \* unit -> set of supported page sizes (12, 21)
  AllocOnMiss,  \* unit -> getAllocateOnMiss()
  Capacity      \* unit -> number of entries

Levels == 0 .. Len(Tlbs) - 1
Units  == UNION {{Tlbs[i + 1][j] : j \in 1 .. Len(Tlbs[i + 1])} : i \in Levels}
LevelOf(u) == CHOOSE i \in Levels : \E j \in 1 .. Len(Tlbs[i + 1]) : Tlbs[i + 1][j] = u

ASSUME \A a \in Addrs : PT[a].size \in {12, 21}
ASSUME \A u \in Units : Capacity[u] \in Nat \ {0}

Tag(a) == <<PT[a].size, PT[a].vpn>>
Tags   == {Tag(a) : a \in Addrs}
Ppns   == {PT[a].ppn : a \in Addrs}
Entry  == [tag : Tags, ppn : Ppns]

\* The page table's ppn for a tag.
PtPpn(t) == PT[CHOOSE a \in Addrs : Tag(a) = t].ppn

VARIABLES
  tlb,    \* unit -> set of entries it caches
  last    \* the last completed request: [addr, instr, hit, level]

vars == <<tlb, last>>

-----------------------------------------------------------------------------
(* Lookup                                                                  *)

\* The lookup loop only calls lookup() on a unit when
\* tlb_stores_instructions && instruction holds.
Searched(u, instr) == instr /\ UnitType[u] \in {"Instruction", "Unified"}

HitsIn(u, a) == \E e \in tlb[u] : e.tag = Tag(a)

\* The (level, unit) positions the loop visits, in loop order.
Positions ==
  LET RECURSIVE Flat(_)
      Flat(i) == IF i > Len(Tlbs) - 1 THEN << >>
                 ELSE [j \in 1 .. Len(Tlbs[i + 1]) |-> <<i, Tlbs[i + 1][j]>>]
                        \o Flat(i + 1)
  IN  Flat(0)

\* Bug variant: the hit level is reported one level too deep.
Lookup_LevelOffByOne(a, instr) ==
  LET hits == {n \in 1 .. Len(Positions) :
                 Searched(Positions[n][2], instr) /\ HitsIn(Positions[n][2], a)}
      n0   == CHOOSE n \in hits : \A m \in hits : n <= m
  IN  IF hits = {} THEN << >> ELSE <<Positions[n0][1] + 1, Positions[n0][2]>>

\* The first position whose unit is searched and holds the translation:
\* the loop's "goto HIT"; << >> on a full miss.
Lookup(a, instr) ==
  LET hits == {n \in 1 .. Len(Positions) :
                 Searched(Positions[n][2], instr) /\ HitsIn(Positions[n][2], a)}
  IN  IF hits = {} THEN << >>
      ELSE Positions[CHOOSE n \in hits : \A m \in hits : n <= m]

-----------------------------------------------------------------------------
(* Fill                                                                    *)

\* tlbs[i][j]->allocate(address, ..., page_size, ppn) on a fill state
\* s = [tlb, ev].  A tag already cached is refreshed in place; a full unit
\* evicts one entry of its choice, pushed onto evicted_translations[i].
AllocateIn(s, i, u, t, p) ==
  LET c == s.tlb[u]  new == [tag |-> t, ppn |-> p]  old == {e \in c : e.tag = t}
      outs == IF old # {} THEN {<<(c \ old) \cup {new}, << >>>>}
              ELSE IF Cardinality(c) < Capacity[u] THEN {<<c \cup {new}, << >>>>}
              ELSE {<<(c \ {e}) \cup {new}, <<e.tag>>>> : e \in c}
  IN  {[s EXCEPT !.tlb[u] = o[1], !.ev[i] = @ \o o[2]] : o \in outs}

\* Re-offer evicted_translations[i-1][k..] to unit u of level i.  The
\* support check uses the current translation's page_size, and the entry
\* is allocated with the evicted tag but with ppn_result.
RECURSIVE OfferVictims(_, _, _, _, _, _)
OfferVictims(s, i, u, k, page_size, ppn_result) ==
  IF k > Len(s.ev[i - 1]) THEN {s}
  ELSE IF page_size \in Supports[u]
       THEN UNION {OfferVictims(s2, i, u, k + 1, page_size, ppn_result) :
                     s2 \in AllocateIn(s, i, u, s.ev[i - 1][k], ppn_result)}
       ELSE OfferVictims(s, i, u, k + 1, page_size, ppn_result)

AllocatesAt(i, hit, hit_level) == ~hit \/ (hit /\ hit_level > i)

\* Bug variant: the current translation is allocated before the victims
\* of level i-1 are re-offered, so a victim may evict it again.
FillStep_CurrentFirst(s, i, u, a, hit, hit_level, page_size, ppn_result) ==
  LET current == IF /\ page_size \in Supports[u]
                    /\ AllocOnMiss[u]
                    /\ AllocatesAt(i, hit, hit_level)
                 THEN AllocateIn(s, i, u, Tag(a), ppn_result) ELSE {s}
  IN  IF i > 0 THEN UNION {OfferVictims(s2, i, u, 1, page_size, ppn_result) : s2 \in current}
      ELSE current

\* One iteration (i, j) of the fill loop.
FillStep(s, i, u, a, hit, hit_level, page_size, ppn_result) ==
  LET afterVictims == IF i > 0 THEN OfferVictims(s, i, u, 1, page_size, ppn_result)
                      ELSE {s}
  IN  UNION {IF /\ page_size \in Supports[u]
                /\ AllocOnMiss[u]
                /\ AllocatesAt(i, hit, hit_level)
             THEN AllocateIn(s2, i, u, Tag(a), ppn_result)
             ELSE {s2} : s2 \in afterVictims}

\* The whole fill loop, from position n on.
RECURSIVE Fill(_, _, _, _, _, _, _)
Fill(S, n, a, hit, hit_level, page_size, ppn_result) ==
  IF n > Len(Positions) THEN S
  ELSE Fill(UNION {FillStep(s, Positions[n][1], Positions[n][2], a, hit,
                            hit_level, page_size, ppn_result) : s \in S},
            n + 1, a, hit, hit_level, page_size, ppn_result)

-----------------------------------------------------------------------------
(* performAddressTranslation                                               *)

Init ==
  /\ tlb  = [u \in Units |-> {}]
  /\ last = << >>

\* One translation request of the core, run to completion: lookup, the
\* walk on a miss, the fill.  On a hit ppn and page size come from the hit
\* entry, on a miss from the walk.
performAddressTranslation(a, instr) ==
  LET r          == Lookup(a, instr)
      hit        == r # << >>
      hit_level  == IF hit THEN r[1] ELSE 0
      hitEntry   == IF hit THEN CHOOSE e \in tlb[r[2]] : e.tag = Tag(a)
                    ELSE [tag |-> Tag(a), ppn |-> PT[a].ppn]
      ppn_result == hitEntry.ppn
      page_size  == hitEntry.tag[1]
      start      == [tlb |-> tlb, ev |-> [i \in Levels |-> << >>]]
  IN  /\ \E s \in Fill({start}, 1, a, hit, hit_level, page_size, ppn_result) :
           tlb' = s.tlb
      /\ last' = [addr |-> a, instr |-> instr, hit |-> hit,
                  level |-> hit_level, ppn |-> ppn_result]

Next == \E a \in Addrs, instr \in BOOLEAN : performAddressTranslation(a, instr)

Spec == Init /\ [][Next]_vars

-----------------------------------------------------------------------------
(* Properties                                                              *)

TypeOK ==
  /\ tlb \in [Units -> SUBSET Entry]
  /\ last = << >> \/ last \in [addr : Addrs, instr : BOOLEAN, hit : BOOLEAN,
                              level : Levels, ppn : Ppns]

\* The access kinds a unit's capability serves.
Serves(u, instr) ==
  UnitType[u] \in IF instr THEN {"Instruction", "Unified"} ELSE {"Data", "Unified"}

TranslationFilledAboveHit ==
  last # << >> =>
    \A u \in Units :
       /\ ~last.hit \/ LevelOf(u) < last.level
       /\ PT[last.addr].size \in Supports[u]
       /\ AllocOnMiss[u]
       => HitsIn(u, last.addr)

\* Every entry a unit holds is a translation the unit may hold: the page
\* table's physical page for its tag, of a page size the unit supports.
\* Victims re-offered down the hierarchy must keep both.
EntriesAreValidTranslations ==
  \A u \in Units : \A e \in tlb[u] :
     /\ e.ppn = PtPpn(e.tag)
     /\ e.tag[1] \in Supports[u]

\* A request fills only units whose capability serves its access kind: an
\* instruction miss does not fill the data TLB and vice versa.
FillOnlyServingUnits ==
  [][last' # << >> =>
       \A u \in Units : ~Serves(u, last'.instr) => tlb'[u] = tlb[u]]_vars

=============================================================================
