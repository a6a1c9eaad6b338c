------------------------- MODULE MCReadingStatsStore -------------------------
(* Small instances of ReadingStatsStore for TLC. *)
EXTENDS ReadingStatsStore, TLC

Symmetry == Permutations(Books)
=============================================================================
