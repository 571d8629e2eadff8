------------------------------ MODULE MCGroups ------------------------------
(***************************************************************************)
(* Three names attach and detach, one of them also sends.  Senders share   *)
(* nothing with each other, they only read the slice, so one is enough.    *)
(***************************************************************************)
EXTENDS Groups, TLC

CONSTANTS a, b, c

OthersAlike == Permutations({a, b})
=============================================================================
