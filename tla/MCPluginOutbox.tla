--------------------------- MODULE MCPluginOutbox ---------------------------
(***************************************************************************)
(* PluginOutbox for TLC.  Sizes are scaled down: what matters of 4096 and   *)
(* 512 bytes is that a line fits the margin between the cap emit() checks   *)
(* and the cap drain() reads with, and that some line does not.             *)
(***************************************************************************)
EXTENDS PluginOutbox
=============================================================================
