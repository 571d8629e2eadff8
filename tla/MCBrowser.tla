----------------------------- MODULE MCBrowser -----------------------------
(***************************************************************************)
(* The three callers and one restart, so that a stale Close can meet the   *)
(* new browser.                                                            *)
(***************************************************************************)
EXTENDS Browser
=============================================================================
