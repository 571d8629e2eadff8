----------------------------- MODULE MCRegistry -----------------------------
(***************************************************************************)
(* Three connections compete for one name and a fourth has another name.   *)
(***************************************************************************)
EXTENDS Registry, TLC

CONSTANTS n1, n2, c1, c2, c3, c4

MCNameOf == c1 :> n1 @@ c2 :> n1 @@ c3 :> n1 @@ c4 :> n2
=============================================================================
