------------------------- MODULE MCFileReplacement -------------------------
(* FileReplacement with two values: the old one and the new one. *)
EXTENDS FileReplacement

CONSTANTS v1, v2
=============================================================================
