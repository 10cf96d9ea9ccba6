---------------------------- MODULE MCLockQml -----------------------------
(***************************************************************************)
(* The two QML parts of the lock screen, each with what it drives: LockAuth *)
(* with the PAM service, and LockScreen with the session lock. Every behaviour *)
(* is one of one part. The other stays as it starts, where nothing that is *)
(* fair is enabled, so its fairness asks for nothing.                      *)
(***************************************************************************)
EXTENDS LockAuth, LockScreen

VARIABLE part

MCInit ==
  /\ AuthInit /\ ScreenInit
  /\ part \in {"form", "screen"}
  /\ part = "form" => supported

MCNext ==
  /\ UNCHANGED part
  /\ \/ part = "form" /\ AuthNext /\ UNCHANGED screenVars
     \/ part = "screen" /\ ScreenNext /\ UNCHANGED authVars

MCSpec == MCInit /\ [][MCNext]_<<authVars, screenVars, part>>

MCFairSpec == MCSpec /\ AuthFairness /\ ScreenFairness
=============================================================================
