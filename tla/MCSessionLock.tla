--------------------------- MODULE MCSessionLock ---------------------------
(***************************************************************************)
(* Instances of SessionLock for TLC: two outputs, so that one capture      *)
(* differs from all captures.                                              *)
(***************************************************************************)
EXTENDS SessionLock, TLC

Outputs == Permutations(Screens)
=============================================================================
