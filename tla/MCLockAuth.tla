----------------------------- MODULE MCLockAuth -----------------------------
(***************************************************************************)
(* LockAuth for TLC: two attempts one after the other, up to two messages  *)
(* from each PAM stack.                                                    *)
(***************************************************************************)
EXTENDS LockAuth
=============================================================================
