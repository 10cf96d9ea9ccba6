---------------------------- MODULE LockContract ----------------------------
(***************************************************************************)
(* What the session lock promises the shell, without outputs, screenshots, *)
(* surfaces or the compositor: a lock is idle, waited for or held, and a   *)
(* lock nobody wants any more is never engaged.                            *)
(***************************************************************************)
CONSTANT StartFlags
VARIABLES phase, wanted

cvars == <<phase, wanted>>

ContractInit ==
  /\ wanted \in StartFlags
  /\ phase = "idle" \/ (phase = "waiting" /\ TRUE \in StartFlags)

\* lock(): wait for a screenshot
Ask == phase = "idle" /\ ~wanted /\ phase' = "waiting" /\ wanted' = TRUE

\* lock() or unlock() while waiting is remembered
ChangeMind == phase = "waiting" /\ wanted' = ~wanted /\ UNCHANGED phase

Engage == phase = "waiting" /\ wanted /\ phase' = "locked" /\ UNCHANGED wanted

\* unlock(), a retracted wish, or a lock that cannot be had
Release == phase' = "idle" /\ wanted' = FALSE

ContractNext == Ask \/ ChangeMind \/ Engage \/ Release

ContractSpec == ContractInit /\ [][ContractNext]_cvars
=============================================================================
