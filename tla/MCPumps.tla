------------------------------ MODULE MCPumps -------------------------------
(***************************************************************************)
(* Two websockets of one group and two callers.  The callers are alike;    *)
(* symmetry is not used, because the run checks liveness.                  *)
(***************************************************************************)
EXTENDS Pumps
=============================================================================
