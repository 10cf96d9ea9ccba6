------------------------- MODULE SessionLock_proofs -------------------------
(***************************************************************************)
(* Proofs about SessionLock for every set of outputs, every initial value  *)
(* of the uninitialised flags, with and without hot plugging, and about    *)
(* LockScreen.qml around it.                                               *)
(***************************************************************************)
EXTENDS LockScreen, TLAPS

USE StartFlagsAssumption, ComponentsAssumption

\* The lock object the manager holds and what the compositor did with it.
WireInv ==
  /\ isSecure <=> activeLock = "secure"
  /\ activeLock = "none" => compositor = "unlocked" \/ wlError # "none"
  /\ activeLock = "requested" => compositor # "unlocked"
  /\ activeLock = "secure" => compositor \in {"granted", "revoked"}

\* Surfaces and captures exist only for an operation or a lock in being.
SurfInv ==
  /\ ~locking /\ ~isLocked => surfaces = {} /\ captured = {}
  /\ ~locking /\ ~isLocked /\ target => doomed = {}
  /\ shown # {} => isLocked
  /\ shown \subseteq surfaces

IInv == TypeOK /\ LockedAgrees /\ WireInv /\ SurfInv

\* The initial states, with any uninitialised flags, satisfy the invariant.
LEMMA InitIInv == Init => IInv
BY DEF Init, IInv, TypeOK, LockedAgrees, WireInv, SurfInv, LockStates,
       CompStates, WlErrors

\* Ending or requesting a lock object keeps the wire part of the invariant.
LEMMA AttemptUnlockOK ==
  ASSUME TypeOK, WireInv, AttemptUnlock
  PROVE  /\ activeLock' = "none" /\ ~isSecure'
         /\ compositor' = "unlocked" \/ wlError' # "none"
         /\ compositor' \in CompStates /\ wlError' \in WlErrors
<1>1. CASE activeLock = "none"
  BY <1>1 DEF AttemptUnlock, WireInv, TypeOK, wireVars
<1>2. CASE activeLock # "none"
  BY <1>2 DEF AttemptUnlock, Destroy, UnlockAndDestroy, EndRequest, TypeOK,
              CompStates, WlErrors, wireVars
<1> QED BY <1>1, <1>2

\* Requesting a lock object keeps the wire part of the invariant
\* (LockManager::attemptLock).
LEMMA AttemptLockOK ==
  ASSUME TypeOK, WireInv, AttemptLock
  PROVE  /\ WireInv' /\ activeLock' # "none"
         /\ activeLock' \in LockStates /\ isSecure' \in BOOLEAN
         /\ compositor' \in CompStates /\ wlError' \in WlErrors
<1>1. CASE activeLock # "none"
  BY <1>1 DEF AttemptLock, WireInv, TypeOK, wireVars
<1>2. CASE activeLock = "none"
  BY <1>2 DEF AttemptLock, WireInv, TypeOK, LockStates, CompStates
<1> QED BY <1>1, <1>2

\* doUnlock keeps the invariant whatever it was called from.
LEMMA DoUnlockOK ==
  ASSUME IInv, NEW caps \in SUBSET Screens, NEW d \in SUBSET Screens,
         DoUnlock(caps, d), UNCHANGED <<component, screens, supported>>
  PROVE  IInv'
<1>1. /\ activeLock' = "none" /\ ~isSecure' /\ isSecure' \in BOOLEAN
      /\ compositor' = "unlocked" \/ wlError' # "none"
      /\ compositor' \in CompStates /\ wlError' \in WlErrors
  <2>1. isSecure' \in BOOLEAN
    BY DEF DoUnlock, AttemptUnlock, wireVars, IInv, TypeOK
  <2> QED BY <2>1, AttemptUnlockOK DEF DoUnlock, IInv
<1>2. TypeOK'
  BY <1>1 DEF DoUnlock, IInv, TypeOK, LockStates
<1>3. LockedAgrees' /\ WireInv' /\ SurfInv'
  BY <1>1 DEF DoUnlock, LockedAgrees, WireInv, SurfInv
<1> QED BY <1>2, <1>3 DEF IInv

\* Both outcomes of a lock operation keep the invariant.
LEMMA RealizeOK ==
  ASSUME IInv, NEW t \in BOOLEAN, NEW r \in BOOLEAN, ready => r,
         NEW caps \in SUBSET Screens, NEW d \in SUBSET Screens,
         Realize(t, r, caps, d), UNCHANGED <<component, screens, supported>>
  PROVE  IInv'
<1>1. CASE DoUnlock(caps, d)
  BY <1>1, DoUnlockOK
<1>2. CASE /\ t /\ target' = TRUE /\ UpdateSurfaces(caps, d) /\ ready' = r
           /\ ~r /\ locking' = TRUE /\ shown' = shown \cap surfaces'
           /\ UNCHANGED <<awaiting, isLocked, wireVars>>
  <2>1. ~isLocked
    BY <1>2 DEF IInv, LockedAgrees
  <2>2. TypeOK'
    BY <1>2 DEF IInv, TypeOK, UpdateSurfaces, wireVars
  <2>3. LockedAgrees' /\ WireInv' /\ SurfInv'
    BY <1>2, <2>1 DEF IInv, LockedAgrees, WireInv, SurfInv, UpdateSurfaces,
                      wireVars
  <2> QED BY <2>2, <2>3 DEF IInv
<1>3. CASE /\ t /\ target' = TRUE /\ UpdateSurfaces(caps, d) /\ ready' = r
           /\ r /\ AttemptLock /\ locking' = FALSE /\ awaiting' = FALSE
           /\ shown' = surfaces' /\ isLocked' = TRUE
  <2>1. /\ WireInv' /\ activeLock' # "none"
        /\ activeLock' \in LockStates /\ isSecure' \in BOOLEAN
        /\ compositor' \in CompStates /\ wlError' \in WlErrors
    BY <1>3, AttemptLockOK DEF IInv
  <2>2. TypeOK'
    BY <1>3, <2>1 DEF IInv, TypeOK, UpdateSurfaces
  <2>3. LockedAgrees' /\ SurfInv'
    BY <1>3, <2>1 DEF IInv, LockedAgrees, SurfInv, UpdateSurfaces
  <2> QED BY <2>1, <2>2, <2>3 DEF IInv
<1> QED BY <1>1, <1>2, <1>3 DEF Realize

\* realizeLockTarget keeps the invariant, also when it only remembers the
\* wish for later.
LEMMA RealizeLockTargetOK ==
  ASSUME IInv, NEW t \in BOOLEAN, RealizeLockTarget(t),
         UNCHANGED <<component, screens, supported>>
  PROVE  IInv'
<1>1. CASE locking
  BY <1>1 DEF RealizeLockTarget, IInv, TypeOK, LockedAgrees, WireInv,
              SurfInv, surfVars, wireVars
<1>2. CASE ~locking
  <2>1. Realize(t, ready, captured, doomed)
    BY <1>2 DEF RealizeLockTarget
  <2>2. /\ ready \in BOOLEAN /\ captured \in SUBSET Screens
        /\ doomed \in SUBSET Screens
    BY DEF IInv, TypeOK
  <2> QED BY <2>1, <2>2, RealizeOK
<1> QED BY <1>1, <1>2

\* A screenshot, of a live or of a deleted surface, keeps the invariant.
LEMMA OnScreencopyReadyOK ==
  ASSUME IInv, NEW caps \in SUBSET Screens, NEW d \in SUBSET Screens,
         OnScreencopyReady(caps, d)
  PROVE  IInv'
<1>1. target \in BOOLEAN
  BY DEF IInv, TypeOK
<1> QED BY <1>1, RealizeOK DEF OnScreencopyReady

\* Every step keeps the inductive invariant.
THEOREM NextIInv == IInv /\ [Next]_vars => IInv'
<1> SUFFICES ASSUME IInv, [Next]_vars PROVE IInv'
  OBVIOUS
<1> USE DEF IInv
<1>1. CASE Lock
  BY <1>1, RealizeLockTargetOK DEF Lock
<1>2. CASE Unlock
  BY <1>2, RealizeLockTargetOK DEF Unlock
<1>3. ASSUME NEW s \in Screens, ScreencopyReady(s) PROVE IInv'
  <2>1. captured \cup {s} \in SUBSET Screens /\ doomed \in SUBSET Screens
    BY DEF TypeOK
  <2> QED BY <1>3, <2>1, OnScreencopyReadyOK DEF ScreencopyReady
<1>4. ASSUME NEW s \in Screens, DoomedReady(s) PROVE IInv'
  <2>1. captured \in SUBSET Screens /\ doomed \ {s} \in SUBSET Screens
    BY DEF TypeOK
  <2> QED BY <1>4, <2>1, OnScreencopyReadyOK DEF DoomedReady
<1>5. CASE DeferredDelete
  BY <1>5 DEF DeferredDelete, TypeOK, LockedAgrees, WireInv, SurfInv,
              qmlVars, wireVars
<1>6. ASSUME NEW c \in Components, SetSurfaceComponent(c) PROVE IInv'
  BY <1>6 DEF SetSurfaceComponent, TypeOK, LockedAgrees, WireInv, SurfInv,
              surfVars, wireVars
<1>7. CASE LockedEvent
  BY <1>7 DEF LockedEvent, TypeOK, LockedAgrees, WireInv, SurfInv, qmlVars,
              surfVars, LockStates
<1>8. CASE FinishedEvent
  BY <1>8 DEF FinishedEvent, TypeOK, LockedAgrees, WireInv, SurfInv, qmlVars,
              surfVars, LockStates
<1>9. ASSUME NEW s \in Screens, ScreenAdded(s) PROVE IInv'
  BY <1>9 DEF ScreenAdded, TypeOK, LockedAgrees, WireInv, SurfInv, qmlVars,
              surfVars, wireVars
<1>10. ASSUME NEW s \in Screens, ScreenRemoved(s) PROVE IInv'
  BY <1>10 DEF ScreenRemoved, TypeOK, LockedAgrees, WireInv, SurfInv, qmlVars,
               surfVars, wireVars
<1>11. CASE CompositorGrants \/ CompositorRefuses \/ CompositorRevokes
  BY <1>11 DEF CompositorGrants, CompositorRefuses, CompositorRevokes,
               Compositor, TypeOK, LockedAgrees, WireInv, SurfInv, qmlVars,
               surfVars, CompStates
<1>12. CASE UNCHANGED vars
  BY <1>12 DEF vars, qmlVars, surfVars, wireVars, TypeOK, LockedAgrees,
               WireInv, SurfInv
<1> QED
  BY <1>1, <1>2, <1>3, <1>4, <1>5, <1>6, <1>7, <1>8, <1>9, <1>10, <1>11,
     <1>12 DEF Next, Capture, Plug

\* The inductive invariant holds in every reachable state of SessionLock.
THEOREM SpecIInv == Spec => []IInv
<1>1. Init => IInv
  BY InitIInv
<1>2. IInv /\ [Next]_vars => IInv'
  BY NextIInv
<1> QED BY <1>1, <1>2, PTL DEF Spec

----------------------------------------------------------------------------
\* Type correctness of SessionLock (every handler of the lock classes).
THEOREM TypeCorrect == Spec => []TypeOK
<1>1. IInv => TypeOK
  BY DEF IInv
<1> QED BY <1>1, SpecIInv, PTL

\* isLocked as QML reads it, the manager's lock object and the flags of
\* SessionLockQML agree in every reachable state.
THEOREM LockedAlwaysAgrees == Spec => []LockedAgrees
<1>1. IInv => LockedAgrees
  BY DEF IInv
<1> QED BY <1>1, SpecIInv, PTL

\* isSecure is shown only for a lock the compositor has granted.
THEOREM SecureAlwaysTruthful == Spec => []SecureIsTruthful
<1>1. IInv => SecureIsTruthful
  BY DEF IInv, LockedAgrees, WireInv, SecureIsTruthful
<1> QED BY <1>1, SpecIInv, PTL

\* The qCFatal assertion of updateSurfaces never fires.
THEOREM ShownAlwaysHaveLock == Spec => []ShownHaveLock
<1>1. IInv => ShownHaveLock
  BY DEF IInv, LockedAgrees, SurfInv, ShownHaveLock
<1> QED BY <1>1, SpecIInv, PTL

\* An idle element has nothing left of an earlier lock.
THEOREM IdleAlwaysClean == Spec => []IdleIsClean
<1>1. IInv => IdleIsClean
  BY DEF IInv, LockedAgrees, SurfInv, IdleIsClean
<1> QED BY <1>1, SpecIInv, PTL

\* The element, the manager, the surfaces and the compositor agree in every state.
THEOREM LockAlwaysConsistent == Spec => []LockConsistent
<1>1. TypeOK /\ LockedAgrees /\ SecureIsTruthful /\ ShownHaveLock /\ IdleIsClean
        => LockConsistent
  BY DEF LockConsistent
<1> QED
  BY <1>1, TypeCorrect, LockedAlwaysAgrees, SecureAlwaysTruthful, ShownAlwaysHaveLock,
     IdleAlwaysClean, PTL

----------------------------------------------------------------------------
\* What one lock operation does to the contract's two variables.
LEMMA RealizePhase ==
  ASSUME IInv, NEW t \in BOOLEAN, NEW r \in BOOLEAN, NEW caps, NEW d,
         Realize(t, r, caps, d)
  PROVE  \/ ~target' /\ ~isLocked' /\ ~locking' /\ activeLock' = "none"
         \/ t /\ ~r /\ target' /\ locking' /\ UNCHANGED <<isLocked, activeLock>>
         \/ t /\ r /\ target' /\ isLocked' /\ ~locking' /\ shown' = screens
BY DEF Realize, DoUnlock, AttemptUnlock, UpdateSurfaces, wireVars

\* The ways one step can change what QML sees, with what it knew before.
Silent == UNCHANGED <<isLocked, locking, target>>
Reminds == locking /\ target' = ~target /\ UNCHANGED <<isLocked, locking, activeLock>>
Releases == ~target' /\ ~isLocked' /\ ~locking' /\ activeLock' = "none"
Waits ==
  /\ ~locking /\ ~target /\ ~isLocked
  /\ target' /\ locking' /\ UNCHANGED <<isLocked, activeLock>>
Engages ==
  /\ target /\ (locking \/ isLocked)
  /\ target' /\ isLocked' /\ ~locking' /\ shown' = screens

\* Deferred deletion, a new component, hot plugging and the compositor change
\* nothing of what QML sees of the lock.
LEMMA SilentStep ==
  ASSUME \/ DeferredDelete
         \/ \E c \in Components : SetSurfaceComponent(c)
         \/ Plug
         \/ CompositorGrants \/ CompositorRefuses \/ CompositorRevokes
         \/ UNCHANGED vars
  PROVE  Silent /\ UNCHANGED activeLock
BY DEF DeferredDelete, SetSurfaceComponent, Plug, ScreenAdded, ScreenRemoved,
       CompositorGrants, CompositorRefuses, CompositorRevokes, Compositor,
       Silent, vars, qmlVars, surfVars, wireVars

\* locked and finished concern a lock object that exists already.
LEMMA EventStep ==
  ASSUME LockedEvent \/ FinishedEvent
  PROVE  Silent /\ activeLock # "none"
BY DEF LockedEvent, FinishedEvent, Silent, qmlVars

\* lock() is remembered, fails or waits for a screenshot; it never engages.
LEMMA LockStep == ASSUME IInv, Lock PROVE Reminds \/ Releases \/ Waits
<1>1. target \in BOOLEAN /\ ready \in BOOLEAN /\ ~target /\ ~isLocked /\ ~ready
  BY DEF Lock, IInv, TypeOK, LockedAgrees
<1>2. CASE locking
  BY <1>1, <1>2 DEF Lock, RealizeLockTarget, Reminds, wireVars
<1>3. CASE ~locking
  <2>1. Realize(TRUE, ready, captured, doomed)
    BY <1>3 DEF Lock, RealizeLockTarget
  <2> QED BY <1>1, <1>3, <2>1, RealizePhase DEF Releases, Waits
<1> QED BY <1>2, <1>3

\* unlock() is remembered or releases.
LEMMA UnlockStep == ASSUME IInv, Unlock PROVE Reminds \/ Releases
<1>1. target \in BOOLEAN /\ ready \in BOOLEAN /\ target
  BY DEF Unlock, IInv, TypeOK
<1>2. CASE locking
  BY <1>1, <1>2 DEF Unlock, RealizeLockTarget, Reminds, wireVars
<1>3. CASE ~locking
  <2>1. Realize(FALSE, ready, captured, doomed)
    BY <1>3 DEF Unlock, RealizeLockTarget
  <2> QED BY <1>1, <2>1, RealizePhase DEF Releases
<1> QED BY <1>2, <1>3

\* A screenshot engages a wanted lock or releases everything.
LEMMA CaptureStep == ASSUME IInv, Capture PROVE Releases \/ Engages
<1>1. target \in BOOLEAN
  BY DEF IInv, TypeOK
<1>2. ASSUME NEW caps, NEW d, OnScreencopyReady(caps, d)
      PROVE  \/ Releases
             \/ target /\ target' /\ isLocked' /\ ~locking' /\ shown' = screens
  BY <1>1, <1>2, RealizePhase DEF OnScreencopyReady, Releases
<1>3. ASSUME NEW s \in Screens, ScreencopyReady(s) PROVE Releases \/ Engages
  <2>1. locking \/ isLocked
    BY <1>3 DEF ScreencopyReady, IInv, SurfInv
  <2> QED BY <1>2, <1>3, <2>1 DEF ScreencopyReady, Engages
<1>4. ASSUME NEW s \in Screens, DoomedReady(s) PROVE Releases \/ Engages
  <2>1. locking \/ isLocked \/ ~target
    BY <1>4 DEF DoomedReady, IInv, SurfInv
  <2> QED BY <1>2, <1>4, <2>1 DEF DoomedReady, Engages
<1> QED BY <1>3, <1>4 DEF Capture

\* Every step is of one of the five kinds.
LEMMA StepKinds ==
  ASSUME IInv, [Next]_vars
  PROVE  \/ Silent /\ (UNCHANGED activeLock \/ activeLock # "none")
         \/ Reminds \/ Releases \/ Waits \/ Engages
BY SilentStep, EventStep, LockStep, UnlockStep, CaptureStep DEF Next

----------------------------------------------------------------------------
\* A lock is requested from the compositor only while it is wanted.
THEOREM AlwaysAskedOnlyIfWanted == Spec => AskedOnlyIfWanted
<1>1. IInv /\ [Next]_vars => [activeLock = "none" /\ activeLock' # "none" => target]_vars
  BY StepKinds DEF Silent, Reminds, Releases, Waits, Engages
<1> QED BY <1>1, SpecIInv, PTL DEF Spec, AskedOnlyIfWanted

\* When isLocked becomes true every connected output is covered.
THEOREM EngageAlwaysCovers == Spec => EngageCoversOutputs
<1>1. IInv /\ [Next]_vars => [~isLocked /\ isLocked' => screens \subseteq shown']_vars
  BY StepKinds DEF Silent, Reminds, Releases, Waits, Engages
<1> QED BY <1>1, SpecIInv, PTL DEF Spec, EngageCoversOutputs

\* SessionLock implements LockContract: every step is a contract step or a
\* stutter of the contract.
THEOREM LockImplementsContract == Spec => ImplementsContract
<1>1. Init => Contract!ContractInit
  BY DEF Init, Contract!ContractInit, Phase
<1>2. IInv /\ [Next]_vars => [Contract!ContractNext]_(Contract!cvars)
  <2> SUFFICES ASSUME IInv, [Next]_vars
               PROVE  Contract!ContractNext \/ UNCHANGED Contract!cvars
    OBVIOUS
  <2> USE DEF Contract!cvars, Contract!ContractNext, Contract!Ask,
              Contract!ChangeMind, Contract!Engage, Contract!Release, Phase
  <2>1. isLocked => target /\ ~locking
    BY DEF IInv, LockedAgrees
  <2>2. CASE Silent
    BY <2>2 DEF Silent
  <2>3. CASE Reminds
    BY <2>1, <2>3 DEF Reminds
  <2>4. CASE Releases
    BY <2>4 DEF Releases
  <2>5. CASE Waits
    BY <2>5 DEF Waits
  <2>6. CASE Engages
    BY <2>1, <2>6, NextIInv DEF Engages, IInv, TypeOK
  <2> QED BY <2>2, <2>3, <2>4, <2>5, <2>6, StepKinds
<1> QED BY <1>1, <1>2, SpecIInv, PTL DEF Spec, ImplementsContract,
           Contract!ContractSpec

----------------------------------------------------------------------------
\* A held lock was asked for with a surface component, which cannot be
\* replaced while the lock is held.
HeldInv == isLocked => supported /\ component # "null"

\* Every step keeps HeldInv.
LEMMA NextHeldInv ==
  ASSUME IInv, HeldInv, [Next]_vars
  PROVE  HeldInv'
<1>2. ASSUME NEW t \in BOOLEAN, NEW r \in BOOLEAN, NEW caps, NEW d,
             Realize(t, r, caps, d), UNCHANGED <<component, supported>>
      PROVE  HeldInv'
  BY <1>2 DEF Realize, CanShow, DoUnlock, HeldInv
<1>3. target \in BOOLEAN /\ ready \in BOOLEAN
  BY DEF IInv, TypeOK
<1>4. CASE Lock
  BY <1>2, <1>3, <1>4 DEF Lock, RealizeLockTarget, HeldInv
<1>5. CASE Unlock
  BY <1>2, <1>3, <1>5 DEF Unlock, RealizeLockTarget, HeldInv
<1>6. CASE Capture
  BY <1>2, <1>3, <1>6 DEF Capture, ScreencopyReady, DoomedReady,
                          OnScreencopyReady
<1>7. ASSUME NEW c \in Components, SetSurfaceComponent(c) PROVE HeldInv'
  BY <1>7 DEF SetSurfaceComponent, HeldInv, IInv, LockedAgrees
<1>8. CASE DeferredDelete \/ LockedEvent \/ FinishedEvent
  BY <1>8 DEF DeferredDelete, LockedEvent, FinishedEvent, qmlVars, HeldInv
<1>9. ASSUME NEW s \in Screens, ScreenAdded(s) \/ ScreenRemoved(s)
      PROVE  HeldInv'
  BY <1>9 DEF ScreenAdded, ScreenRemoved, qmlVars, surfVars, wireVars, HeldInv
<1>10. CASE CompositorGrants \/ CompositorRefuses \/ CompositorRevokes
  BY <1>10 DEF CompositorGrants, CompositorRefuses, CompositorRevokes,
               Compositor, qmlVars, HeldInv
<1>11. CASE UNCHANGED vars
  BY <1>11 DEF vars, qmlVars, HeldInv
<1> QED
  BY <1>4, <1>5, <1>6, <1>7, <1>8, <1>9, <1>10, <1>11 DEF Next, Plug

\* A capture cannot take away a lock that is held with a usable component.
LEMMA NextOnlyUnlock ==
  ASSUME IInv, HeldInv, [Next]_vars, isLocked, ~isLocked', component # "bad"
  PROVE  Unlock
<1>1. CanShow /\ target
  BY ComponentsAssumption DEF HeldInv, CanShow, IInv, TypeOK, LockedAgrees
<1>2. ASSUME Capture PROVE FALSE
  BY <1>1, <1>2 DEF Capture, ScreencopyReady, DoomedReady, OnScreencopyReady,
                    Realize
<1>3. ~Lock
  BY <1>1 DEF Lock
<1> QED BY <1>2, <1>3, SilentStep, EventStep DEF Next, Silent

\* Nothing but unlock() gives up an engaged lock whose surface component
\* yields lock surfaces.
THEOREM OnlyUnlockAlwaysReleases == Spec => OnlyUnlockReleases
<1>1. Init => HeldInv
  BY DEF Init, HeldInv
<1>2. IInv /\ HeldInv /\ [Next]_vars => HeldInv'
  BY NextHeldInv
<1>3. IInv /\ HeldInv /\ [Next]_vars =>
        [isLocked /\ ~isLocked' /\ component # "bad" => Unlock]_vars
  BY NextOnlyUnlock
<1> QED BY <1>1, <1>2, <1>3, SpecIInv, PTL DEF Spec, OnlyUnlockReleases

-----------------------------------------------------------------------------
(***************************************************************************)
(* LockScreen.qml: no session is locked behind surfaces that are faded out *)
(***************************************************************************)
\* Every step of the lock screen is one of the session lock or leaves it alone.
LEMMA ScreenStepIsLockStep == [ScreenNext]_screenVars => [Next]_vars
<1> SUFFICES ASSUME [ScreenNext]_screenVars PROVE [Next]_vars
  OBVIOUS
<1>1. CASE SessionLockRequested
  BY <1>1 DEF SessionLockRequested, LockDoes, Next
<1>2. CASE OnUnlockRequested
  BY <1>2 DEF OnUnlockRequested
<1>3. CASE AnimationEnds
  BY <1>3 DEF AnimationEnds, LockDoes, Next
<1>4. CASE SurfaceGiven
  BY <1>4, SurfaceAssumption DEF SurfaceGiven, LockDoes, Next
<1>5. CASE LockDoes(LockEvent)
  BY <1>5 DEF LockDoes, LockEvent, Next
<1>6. CASE UNCHANGED screenVars
  BY <1>6 DEF screenVars
<1>7. ASSUME NEW s \in Screens,
             CaptureAnswered(s) \/ CaptureGivenUp(s) \/ LockDoes(DoomedReady(s))
      PROVE  [Next]_vars
  BY <1>7 DEF CaptureAnswered, CaptureGivenUp, LockDoes, Capture, Next
<1> QED BY <1>1, <1>2, <1>3, <1>4, <1>5, <1>6, <1>7 DEF ScreenNext

\* LockScreen.qml uses the session lock only in ways SessionLock allows, so all
\* that is proved about it holds there too.
THEOREM ScreenImplementsLock == ScreenSpec => Spec
<1>1. ScreenInit => Init
  BY DEF ScreenInit
<1> QED BY <1>1, ScreenStepIsLockStep, PTL DEF ScreenSpec, Spec

\* An error of the protocol ends the connection, and no lock is held then.
LockedIsConnected == isLocked => Connected

LEMMA NextLockedIsConnected == LockedIsConnected /\ IInv /\ [Next]_vars => LockedIsConnected'
<1> SUFFICES ASSUME LockedIsConnected, IInv, [Next]_vars PROVE LockedIsConnected'
  OBVIOUS
<1>1. CASE UNCHANGED <<isLocked, wlError>>
  BY <1>1 DEF LockedIsConnected, Connected
<1>2. ASSUME NEW t, NEW r, NEW caps, NEW d, Connected, Realize(t, r, caps, d)
      PROVE  LockedIsConnected'
  BY <1>2 DEF Realize, DoUnlock, AttemptLock, LockedIsConnected, Connected, wireVars
<1>3. CASE Lock \/ Unlock
  BY <1>1, <1>2, <1>3 DEF Lock, Unlock, RealizeLockTarget, wireVars
<1>4. CASE Capture
  BY <1>2, <1>4 DEF Capture, ScreencopyReady, DoomedReady, OnScreencopyReady
<1> QED BY <1>1, <1>3, <1>4 DEF Next, DeferredDelete, SetSurfaceComponent, LockedEvent,
        FinishedEvent, Plug, ScreenAdded, ScreenRemoved, CompositorGrants, CompositorRefuses,
        CompositorRevokes, Compositor, vars, qmlVars, wireVars

\* unlock() releases a lock that is held.
LEMMA UnlockReleases == ASSUME IInv, Unlock PROVE ~isLocked'
BY DEF Unlock, RealizeLockTarget, Realize, DoUnlock, IInv, LockedAgrees

\* The surfaces are faded in from the moment the session is locked until the
\* animation that ends with the unlocking begins.
THEOREM LockedAlwaysVisible == ScreenSpec => []LockedIsVisible
<1>1. ScreenInit => LockedIsVisible /\ LockedIsConnected
  BY DEF ScreenInit, Init, LockedIsVisible, LockedIsConnected
<1>2. LockedIsVisible /\ LockedIsConnected /\ IInv /\ [ScreenNext]_screenVars
        => LockedIsVisible'
  <2> SUFFICES ASSUME LockedIsVisible, LockedIsConnected, IInv, [ScreenNext]_screenVars
               PROVE  LockedIsVisible'
    OBVIOUS
  <2>1. CASE IsLockedChanged /\ UNCHANGED unlockAnim
    BY <2>1 DEF IsLockedChanged, LockedIsVisible
  <2>2. CASE OnUnlockRequested
    BY <2>2 DEF OnUnlockRequested, LockedIsVisible
  <2>3. CASE AnimationEnds
    <3>1. CASE Unlock
      BY <3>1, UnlockReleases DEF LockedIsVisible
    <3>2. CASE ~(Connected /\ target) /\ UNCHANGED <<vars, shouldBeActive, givenUp>>
      BY <3>2 DEF LockedIsConnected, IInv, LockedAgrees, LockedIsVisible, vars, qmlVars
    <3> QED BY <2>3, <3>1, <3>2 DEF AnimationEnds, LockDoes
  <2>4. CASE UNCHANGED screenVars
    BY <2>4 DEF screenVars, vars, qmlVars, LockedIsVisible
  <2>5. ASSUME NEW s \in Screens, CaptureGivenUp(s) PROVE LockedIsVisible'
    BY <2>5 DEF CaptureGivenUp, vars, qmlVars, LockedIsVisible
  <2> QED BY <2>1, <2>2, <2>3, <2>4, <2>5
          DEF ScreenNext, SessionLockRequested, SurfaceGiven, CaptureAnswered, LockDoes
<1>3. LockedIsConnected /\ IInv /\ [ScreenNext]_screenVars => LockedIsConnected'
  BY ScreenStepIsLockStep, NextLockedIsConnected
<1>4. ScreenSpec => []IInv
  BY ScreenImplementsLock, SpecIInv, PTL
<1> QED BY <1>1, <1>2, <1>3, <1>4, PTL DEF ScreenSpec
=============================================================================
