-------------------------- MODULE MCInputInhibit --------------------------
(***************************************************************************)
(* InputInhibit for TLC: two items that can meet at one window.            *)
(***************************************************************************)
EXTENDS InputInhibit
=============================================================================
