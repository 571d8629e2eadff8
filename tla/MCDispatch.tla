----------------------------- MODULE MCDispatch -----------------------------
(***************************************************************************)
(* Two workers, two handlers, a channel for two jobs, and four jobs to     *)
(* send, the second and third of which are for peers that have stalled.    *)
(***************************************************************************)
EXTENDS Dispatch
=============================================================================
