----------------------------- MODULE MCSession ------------------------------
(***************************************************************************)
(* A display d that connects twice, and a display e that connects once.    *)
(* The group is called like d.                                             *)
(***************************************************************************)
EXTENDS Session, TLC

CONSTANTS d, e, d1, d2, e1

TwoDisplays == [c \in Conns |-> IF c = e1 THEN e ELSE d]

\* The connections of d are alike, and so are the ports.
Alike == Permutations({d1, d2}) \cup Permutations(Ports)
=============================================================================
