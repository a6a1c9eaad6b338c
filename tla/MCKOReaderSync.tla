---------------------------- MODULE MCKOReaderSync ----------------------------
(* Automatic uploads stay on, since without them the device only does less;   *)
(* pulling is tried with the chooser, and not pulling with the smart sync.    *)
EXTENDS KOReaderSync
CONSTANTS b1, b2
TwoSettings == {[autoPull |-> pull, autoPush |-> TRUE, smart |-> ~pull] : pull \in BOOLEAN}
===============================================================================
