--------------------------- MODULE ReservationTHP ---------------------------
(***************************************************************************)
(* The reservation-based transparent-huge-page allocator                   *)
(* (ReservationTHPAllocator) layered over a buddy allocator.               *)
(*                                                                         *)
(* Physical memory is a set of 2MB chunks, each made of SubPages 4KB       *)
(* frames (512 in the code).  A virtual page is a pair <<k, off>>: k is    *)
(* its 2MB virtual region (address >> 21) and off its 4KB offset in that  *)
(* region ((address >> 12) & 511).  The buddy allocator is abstracted to   *)
(* the set of free frames; which free frame or wholly free chunk it hands  *)
(* out is its own policy and is chosen nondeterministically.               *)
(***************************************************************************)
EXTENDS Naturals, FiniteSets

CONSTANTS
  Chunks,        \* physical 2MB chunks (model values)
  SubPages,      \* 4KB frames per 2MB chunk (512 in the code)
  VRegions,      \* virtual 2MB regions the application touches
  ThresholdNum,  \* threshold_for_promotion = ThresholdNum / ThresholdDen
  ThresholdDen,
  MaxDirect,     \* bound on page-table / givePageFast allocations
  MaxFragmented  \* bound on frames taken by fragment_memory

ASSUME SubPages \in Nat \ {0}
ASSUME ThresholdDen \in Nat \ {0} /\ ThresholdNum \in 0 .. ThresholdDen - 1
ASSUME MaxDirect \in Nat /\ MaxFragmented \in Nat

Sub     == 0 .. SubPages - 1
Frames  == Chunks \X Sub
VPages  == VRegions \X Sub
ChunkFrames(c) == {c} \X Sub

\* Page-size classes returned by allocate(): log2 of the page size.
Small == 12
Huge  == 21

Region == [base : Chunks, bits : SUBSET Sub, promoted : BOOLEAN]

VARIABLES
  buddy_free,   \* frames free in the buddy allocator
  two_mb_map,   \* region key |-> reservation record (a partial function)
  mapped,       \* virtual page |-> [frame, size]: results of allocate()
  direct,       \* frames handed out by givePageFast / page-table allocations
  fragmented,   \* frames taken by fragment_memory
  failed        \* which call returned -1 ("none" while running); the
                \* simulation aborts on the first failure

vars == <<buddy_free, two_mb_map, mapped, direct, fragmented, failed>>

-----------------------------------------------------------------------------
(* Helpers                                                                 *)

\* Chunks the buddy can reserve as a 2MB page: every frame still free.
WhollyFree == {c \in Chunks : ChunkFrames(c) \subseteq buddy_free}

\* Frames of a reservation whose bit is unset.
UnusedFrames(r) == {<<r.base, o>> : o \in Sub \ r.bits}

\* (bitset.count() / 512.0) > threshold_for_promotion, in integers.
AboveThreshold(bits) == Cardinality(bits) * ThresholdDen > ThresholdNum * SubPages

\* Partial-function update: map k to v, keeping the other keys.
SetKey(f, k, v) == [x \in DOMAIN f \cup {k} |-> IF x = k THEN v ELSE f[x]]
DropKey(f, k)   == [x \in DOMAIN f \ {k} |-> f[x]]

MappedFrames   == {mapped[v].frame : v \in DOMAIN mapped}
ReservedUnused == UNION {UnusedFrames(two_mb_map[k]) : k \in DOMAIN two_mb_map}

\* Mark the 4KB offset in a reservation and promote it the first time the
\* occupancy exceeds the threshold (checkFor2MBAllocation).
MarkBit(r, off) ==
  LET bits == r.bits \cup {off}
  IN  [r EXCEPT !.bits = bits, !.promoted = r.promoted \/ AboveThreshold(bits)]

\* demote_page(): candidates are the non-promoted regions of least
\* utilisation; the sort's tie order is unspecified, so any of them.
DemoteCandidates ==
  LET np == {k \in DOMAIN two_mb_map : ~two_mb_map[k].promoted}
  IN  {k \in np : \A j \in np :
          Cardinality(two_mb_map[k].bits) <= Cardinality(two_mb_map[j].bits)}

-----------------------------------------------------------------------------
(* Operations                                                              *)

Init ==
  /\ buddy_free = Frames
  /\ two_mb_map = [k \in {} |-> CHOOSE r \in Region : TRUE]
  /\ mapped     = [v \in {} |-> [frame |-> CHOOSE f \in Frames : TRUE, size |-> Small]]
  /\ direct     = {}
  /\ fragmented = {}
  /\ failed     = "none"

\* Bug variant: allocate() passes checkFor2MBAllocation's isPromoted bool
\* on as the page-size flag (1 / 0 instead of 21 / 12).
PageSizeOf_FlagAsBool(r) == IF r.promoted THEN 1 ELSE 0

\* The page size allocate() returns for a page of reservation r.
PageSizeOf(r) == IF r.promoted THEN Huge ELSE Small

\* checkFor2MBAllocation() succeeded: the region for k exists, or the buddy
\* reserved a wholly free chunk for it; the bit is set and maybe promoted.
checkFor2MBAllocation(v) ==
  LET k == v[1]  off == v[2]
      Grant(r) ==
        LET r2 == MarkBit(r, off)
        IN  /\ two_mb_map' = SetKey(two_mb_map, k, r2)
            /\ mapped' = SetKey(mapped, v,
                           [frame |-> <<r.base, off>>,
                            size  |-> PageSizeOf(r2)])
  IN  \/ /\ k \in DOMAIN two_mb_map
         /\ Grant(two_mb_map[k])
         /\ UNCHANGED buddy_free
      \/ /\ k \notin DOMAIN two_mb_map
         /\ \E c \in WhollyFree :
              /\ buddy_free' = buddy_free \ ChunkFrames(c)
              /\ Grant([base |-> c, bits |-> {}, promoted |-> FALSE])

\* demote_page() finds a region to demote and returns true.
CanDemote == DemoteCandidates # {}

\* Reservation failed: fall back to buddy_allocator->allocate(4KB); if that
\* fails, demote_page() once and retry the 4KB allocation once; if there
\* was nothing to demote the allocation returns -1.
Fallback4KB(v) ==
  LET Take(pool) == \E f \in pool :
        /\ buddy_free' = pool \ {f}
        /\ mapped' = SetKey(mapped, v, [frame |-> f, size |-> Small])
  IN  /\ v[1] \notin DOMAIN two_mb_map
      /\ WhollyFree = {}
      /\ \/ /\ buddy_free # {}
            /\ Take(buddy_free)
            /\ UNCHANGED <<two_mb_map, failed>>
         \/ /\ buddy_free = {} /\ CanDemote
            /\ \E d \in DemoteCandidates :
                 /\ two_mb_map' = DropKey(two_mb_map, d)
                 /\ Take(UnusedFrames(two_mb_map[d]))
            /\ UNCHANGED failed
         \/ /\ buddy_free = {}
            /\ ~CanDemote
            /\ failed' = "allocate"
            /\ UNCHANGED <<buddy_free, two_mb_map, mapped>>

\* Bug variant: the caller keeps allocating after a -1.
allocate_NoAbortCheck(v) ==
  /\ v \notin DOMAIN mapped
  /\ \/ checkFor2MBAllocation(v) /\ UNCHANGED failed
     \/ Fallback4KB(v)
  /\ UNCHANGED <<direct, fragmented>>

\* allocate(size, address, core_id, false) for a page the OS has not mapped.
allocate(v) ==
  /\ failed = "none"
  /\ v \notin DOMAIN mapped
  /\ \/ checkFor2MBAllocation(v) /\ UNCHANGED failed
     \/ Fallback4KB(v)
  /\ UNCHANGED <<direct, fragmented>>

\* A 4KB frame straight from the buddy, no THP bookkeeping: allocate() with
\* is_pagetable_allocation = true, and givePageFast().  Failure is -1.
DirectAlloc ==
  /\ failed = "none"
  /\ Cardinality(direct) < MaxDirect
  /\ \/ \E f \in buddy_free :
          /\ buddy_free' = buddy_free \ {f}
          /\ direct' = direct \cup {f}
          /\ UNCHANGED failed
     \/ /\ buddy_free = {}
        /\ failed' = "direct"
        /\ UNCHANGED <<buddy_free, direct>>
  /\ UNCHANGED <<two_mb_map, mapped, fragmented>>

\* Bug variant: demotion frees every frame of the region, used ones too.
demote_page_FreesAll ==
  /\ failed = "none"
  /\ \E d \in DemoteCandidates :
       /\ buddy_free' = buddy_free \cup ChunkFrames(two_mb_map[d].base)
       /\ two_mb_map' = DropKey(two_mb_map, d)
  /\ UNCHANGED <<mapped, direct, fragmented, failed>>

\* demote_page() called directly: release the unused frames of a least
\* utilised non-promoted region and forget the region.  With no candidate
\* it returns false and changes nothing.
demote_page ==
  /\ failed = "none"
  /\ \E d \in DemoteCandidates :
       /\ buddy_free' = buddy_free \cup UnusedFrames(two_mb_map[d])
       /\ two_mb_map' = DropKey(two_mb_map, d)
  /\ UNCHANGED <<mapped, direct, fragmented, failed>>

\* fragment_memory(): the buddy hands one more frame to synthetic
\* fragmentation.
fragment_memory ==
  /\ failed = "none"
  /\ Cardinality(fragmented) < MaxFragmented
  /\ \E f \in buddy_free :
       /\ buddy_free' = buddy_free \ {f}
       /\ fragmented' = fragmented \cup {f}
  /\ UNCHANGED <<two_mb_map, mapped, direct, failed>>

Next ==
  \/ \E v \in VPages : allocate(v)
  \/ DirectAlloc
  \/ demote_page
  \/ fragment_memory

Spec == Init /\ [][Next]_vars

-----------------------------------------------------------------------------
(* Properties                                                              *)

TypeOK ==
  /\ buddy_free \subseteq Frames
  /\ DOMAIN two_mb_map \subseteq VRegions
  /\ \A k \in DOMAIN two_mb_map : two_mb_map[k] \in Region
  /\ DOMAIN mapped \subseteq VPages
  /\ \A v \in DOMAIN mapped : mapped[v] \in [frame : Frames, size : {Small, Huge}]
  /\ direct \subseteq Frames /\ fragmented \subseteq Frames
  /\ failed \in {"none", "allocate", "direct"}

\* Every physical frame is in exactly one place: free in the buddy, reserved
\* but unused in a 2MB reservation, backing one mapped virtual page, or
\* handed out directly or to fragmentation.  Catches a frame that
\* demote_page() or the fallback leaks, or hands out twice (the data-model
\* rule "never free in buddy and occupancy-bit set").
FrameAccounting ==
  /\ Cardinality(DOMAIN mapped) = Cardinality(MappedFrames)
  /\ LET parts == <<buddy_free, ReservedUnused, MappedFrames, direct, fragmented>>
     IN  /\ \A i, j \in 1..5 : i # j => parts[i] \cap parts[j] = {}
         /\ parts[1] \cup parts[2] \cup parts[3] \cup parts[4] \cup parts[5] = Frames

\* Once a virtual 2MB region is promoted, every page of it that is mapped
\* is backed by the frame at the same offset of the region's chunk, so
\* one 2MB translation is correct for all of them.
HugePageCoversMappedPages ==
  \A v \in DOMAIN mapped :
     /\ v[1] \in DOMAIN two_mb_map
     /\ two_mb_map[v[1]].promoted
     => mapped[v].frame = <<two_mb_map[v[1]].base, v[2]>>

\* The refinement mapping to PhysicalMemory: free frames are those of the
\* buddy and the unused ones of reservations, a mapped page owns the frame
\* allocate() returned, page-table, givePageFast and fragmentation frames
\* are held, and the run halts on the first -1.
PM == INSTANCE PhysicalMemory WITH
        Pages  <- VPages,
        free   <- buddy_free \cup ReservedUnused,
        owner  <- [v \in DOMAIN mapped |-> mapped[v].frame],
        held   <- direct \cup fragmented,
        halted <- failed # "none"

\* Every step of the allocator (reservation, fallback, demotion with the
\* retry, page-table allocations, fragmentation) is a step of
\* PhysicalMemory or leaves it unchanged: no page is remapped, no frame in
\* use is handed out again, nothing is allocated after a -1.
RefinesPhysicalMemory == PM!PMSpec

=============================================================================
