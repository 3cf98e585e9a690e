--------------------------- MODULE PhysicalMemory ---------------------------
(***************************************************************************)
(* What the physical page allocator promises, without reservations,       *)
(* bitmaps or page sizes: a frame is free, backs one virtual page, or is   *)
(* held outside the page mapping (page tables, fragmentation).  A page is  *)
(* mapped once, to a frame that was free, and keeps that frame; a frame    *)
(* is handed out only while free; after a failed allocation aborts the     *)
(* simulation nothing changes any more.  Moving free frames between the    *)
(* buddy and 2MB reservations, and promotion, are invisible here.          *)
(***************************************************************************)
CONSTANTS Frames, Pages

VARIABLES
  free,    \* frames that may still be handed out
  owner,   \* mapped page |-> its frame
  held,    \* frames handed out for other uses
  halted   \* an allocation failed and the run aborted

pmvars == <<free, owner, held, halted>>

PMInit ==
  /\ free = Frames
  /\ owner = [p \in {} |-> CHOOSE f \in Frames : TRUE]
  /\ held = {}
  /\ halted = FALSE

\* A page p not yet mapped gets a free frame f.
MapPage(p, f) ==
  /\ ~halted
  /\ owner' = [x \in DOMAIN owner \cup {p} |-> IF x = p THEN f ELSE owner[x]]
  /\ free' = free \ {f}
  /\ UNCHANGED <<held, halted>>

\* A free frame f is handed out for another use.
HoldFrame(f) ==
  /\ ~halted
  /\ held' = held \cup {f}
  /\ free' = free \ {f}
  /\ UNCHANGED <<owner, halted>>

\* An allocation fails and the run stops.
Halt ==
  /\ ~halted
  /\ halted' = TRUE
  /\ UNCHANGED <<free, owner, held>>

PMNext ==
  \/ \E p \in Pages \ DOMAIN owner, f \in free : MapPage(p, f)
  \/ \E f \in free : HoldFrame(f)
  \/ Halt

PMSpec == PMInit /\ [][PMNext]_pmvars

=============================================================================
