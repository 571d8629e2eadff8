----------------------------- MODULE MCTemplates ----------------------------
(***************************************************************************)
(* Three requests at a time for two pages that exist and one that does not.*)
(***************************************************************************)
EXTENDS Templates
=============================================================================
