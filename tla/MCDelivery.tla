----------------------------- MODULE MCDelivery -----------------------------
(***************************************************************************)
(* A display d that connects twice, while a client s sends to it alone     *)
(* and to a group with both of them.  The display's second peer may        *)
(* vanish, or both may stall.                                              *)
(***************************************************************************)
EXTENDS Delivery, TLC

CONSTANTS d, s, d1, d2, s1

NameOfConn == (d1 :> d) @@ (d2 :> d) @@ (s1 :> s)
AllDisplay == [c \in Conns |-> d]
ToDisplay == {<<d>>}
ToDisplayOrGroup == {<<d>>, <<d, s>>}
=============================================================================
