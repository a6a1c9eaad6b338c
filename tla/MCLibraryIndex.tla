---------------------------- MODULE MCLibraryIndex ----------------------------
(* LibraryIndex on a card with three paths, two of them taken by books of    *)
(* one size, which a renamed book can be mistaken for.                       *)
EXTENDS LibraryIndex

CONSTANTS p1, p2, p3

Book(s, t) == [size |-> s, time |-> t]
TwoBooks == {[p \in Paths |-> IF p = p3 THEN Nothing ELSE Book(1, 1)]}
=============================================================================
