---------------------------- MODULE MCFileTransfer ----------------------------
(* FileTransfer for TLC: two names, two WebSocket clients and transfers      *)
(* enough for a name to be written, taken away and written again.            *)
EXTENDS FileTransfer, TLC

CONSTANTS book, other, alice, bob

MCPaths == {book, other}
MCClients == {alice, bob}
MCSymmetry == Permutations(MCPaths) \cup Permutations(MCClients)
===============================================================================
