------------------------- MODULE MC_ReservationTHP -------------------------
(* Model-checking instance of ReservationTHP: two physical 2MB chunks of   *)
(* four 4KB frames, two virtual 2MB regions, threshold 1/2 (promotion on   *)
(* the third of four frames, as 0.7 of 512 promotes on frame 359).         *)
EXTENDS ReservationTHP, TLC

CONSTANTS c1, c2, r1, r2

MC_Chunks   == {c1, c2}
MC_VRegions == {r1, r2}

MC_Symmetry == Permutations(MC_Chunks) \cup Permutations(MC_VRegions)
=============================================================================
