--------------------------- MODULE MCCommunication --------------------------
(***************************************************************************)
(* Two stale answers, one to fill Read and one to jam the reader, and two  *)
(* other events among them.                                                *)
(***************************************************************************)
EXTENDS Communication
=============================================================================
