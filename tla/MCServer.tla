------------------------------ MODULE MCServer ------------------------------
(***************************************************************************)
(* Two echo clients, and a display that may stall while a worker writes to *)
(* it.                                                                     *)
(***************************************************************************)
EXTENDS Server
=============================================================================
