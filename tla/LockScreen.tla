----------------------------- MODULE LockScreen -----------------------------
(***************************************************************************)
(* LockScreen.qml: the session lock, driven by a request of the IPC server *)
(* and by an unlock animation of 400 ms. What asks for the animation is a  *)
(* click on a lock surface or an attempt of LockAuth that succeeded, which *)
(* can come late: an attempt is not tied to the lock it was made for.      *)
(*                                                                         *)
(* A screenshot may never be answered: its capture is given up for want of *)
(* a buffer, fails, or the compositor keeps silent, and no timer or retry  *)
(* is there to notice.                                                     *)
(*                                                                         *)
(* The outputs stay: what hot plugging does to a lock is in SessionLock.   *)
(***************************************************************************)
EXTENDS SessionLock

\* What QML gives the lock as its surface is one.
ASSUME SurfaceAssumption == "good" \in Components

VARIABLES
  shouldBeActive, \* the lock surfaces are faded in
  unlockAnim,     \* unlockAnimTimer.running
  givenUp         \* surfaces whose screenshot will not be answered

screenVars == <<vars, shouldBeActive, unlockAnim, givenUp>>

ScreenInit ==
  Init /\ shouldBeActive = FALSE /\ unlockAnim = FALSE /\ givenUp = {}

\* Mutant: the surfaces are not faded in when the session is locked.
IsLockedChangedIgnored == UNCHANGED shouldBeActive

\* onIsLockedChanged
IsLockedChanged ==
  shouldBeActive' = IF ~isLocked /\ isLocked' THEN TRUE ELSE shouldBeActive

\* A step of the session lock, with the handler of the signal it may emit. The capture of
\* a surface goes with it.
LockDoes(A) == A /\ IsLockedChanged /\ givenUp' = givenUp \cap surfaces'

\* onSessionLockRequested
SessionLockRequested == LockDoes(Lock) /\ UNCHANGED unlockAnim

\* onUnlockRequested
OnUnlockRequested ==
  /\ Connected /\ ~unlockAnim
  /\ shouldBeActive' = FALSE /\ unlockAnim' = TRUE
  /\ UNCHANGED <<vars, givenUp>>

\* Mutant: the animation ends and the session stays locked.
AnimationEndsOnly ==
  unlockAnim /\ unlockAnim' = FALSE /\ UNCHANGED <<vars, shouldBeActive, givenUp>>

\* unlockAnimTimer: unlock() does nothing if no lock is wanted.
AnimationEnds ==
  /\ unlockAnim /\ unlockAnim' = FALSE
  /\ \/ LockDoes(Unlock)
     \/ ~(Connected /\ target) /\ UNCHANGED <<vars, shouldBeActive, givenUp>>

\* The surface is given to the element while it is created.
SurfaceGiven == component = "null" /\ LockDoes(SetSurfaceComponent("good"))

\* The capture of a surface is given up, or will never be answered.
CaptureGivenUp(s) ==
  /\ s \in surfaces \ (captured \cup givenUp)
  /\ givenUp' = givenUp \cup {s}
  /\ UNCHANGED <<vars, shouldBeActive, unlockAnim>>

CaptureAnswered(s) ==
  /\ s \notin givenUp
  /\ LockDoes(ScreencopyReady(s)) /\ UNCHANGED unlockAnim

LockEvent == DeferredDelete \/ LockedEvent \/ FinishedEvent
             \/ CompositorGrants \/ CompositorRefuses \/ CompositorRevokes

ScreenNext ==
  \/ SessionLockRequested \/ OnUnlockRequested \/ AnimationEnds
  \/ \E s \in Screens : \/ CaptureAnswered(s) \/ CaptureGivenUp(s)
                        \/ LockDoes(DoomedReady(s)) /\ UNCHANGED unlockAnim
  \/ (SurfaceGiven \/ LockDoes(LockEvent)) /\ UNCHANGED unlockAnim

ScreenSpec == ScreenInit /\ [][ScreenNext]_screenVars

\* The timer fires, besides what the event loop owes the session lock, and a capture is
\* answered or will never be, which asks for nothing.
ScreenFairness ==
  /\ LockFairness /\ WF_screenVars(AnimationEnds)
  /\ \A s \in Screens : WF_screenVars(CaptureAnswered(s))

FairScreenSpec == ScreenSpec /\ ScreenFairness

-----------------------------------------------------------------------------
(* Properties *)

\* A session that is locked shows its lock surfaces, except while the animation that ends
\* with the unlocking runs: nobody is locked out by a surface that is faded out.
LockedIsVisible == isLocked /\ ~shouldBeActive => unlockAnim

\* An unlock that is asked for while the session is locked releases the lock.
UnlockCarriedOut == (isLocked /\ unlockAnim) ~> ~isLocked

\* A lock() or unlock() has to wait for a screenshot, and none is to come.
Abandoned == locking /\ surfaces # {} /\ surfaces \subseteq givenUp

\* A lock() that is not taken back is eventually engaged or refused, unless every
\* screenshot it waits for is given up: any single one is enough.
LockServed == target ~> (isLocked \/ ~target \/ Abandoned)

\* An unlock() that is not taken back eventually leaves no lock and no surface, also when
\* it had to wait for a screenshot.
UnlockServed == ~target ~> (target \/ (surfaces = {} /\ activeLock = "none") \/ Abandoned)

\* lock() and unlock() are served as soon as one output could be captured: no wish is left
\* behind by a flag that stays set.
WishesServed == LockServed /\ UnlockServed
=============================================================================
