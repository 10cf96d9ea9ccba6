---------------------------- MODULE SessionLock ----------------------------
(***************************************************************************)
(* The session lock of NightShell: SessionLockQML (the QML element that    *)
(* owns one lock surface per output), LockManager (the process-wide owner  *)
(* of the protocol object) and SessionLock (the ext_session_lock_v1        *)
(* object), together with the two things outside the process they depend   *)
(* on: the compositor and the set of outputs.                              *)
(*                                                                         *)
(* All of the C++ runs on the GUI thread, so one handler is one step.      *)
(***************************************************************************)
CONSTANTS
  Screens,     \* the QScreen objects that can ever exist
  StartFlags,  \* values the three uninitialised bools can hold at start
  HotPlug,     \* whether outputs come and go
  Components   \* what the surface property can be set to

ASSUME StartFlagsAssumption == StartFlags \subseteq BOOLEAN
ASSUME HotPlugAssumption == HotPlug \in BOOLEAN
ASSUME ComponentsAssumption ==
  "null" \in Components /\ Components \subseteq {"null", "good", "bad"}

VARIABLES
  target,      \* m_lockTarget
  locking,     \* m_isLocking
  awaiting,    \* m_awaitingLock
  ready,       \* b_allCapturesReady
  isLocked,    \* b_isLocked, what QML sees
  isSecure,    \* b_isSecure, what QML sees
  component,   \* m_surfaceComponent
  surfaces,    \* keys of m_surfaces
  captured,    \* surfaces whose screenshot has arrived
  shown,       \* surfaces that were show()n
  doomed,      \* surfaces in deleteLater() that can still get a screenshot
  activeLock,  \* LockManager::m_activeLock and the flags of the object
  screens,     \* outputs now connected
  supported,   \* the compositor has ext-session-lock-v1
  compositor,  \* what the compositor did with the lock object
  wlError      \* the protocol error that ended the connection

qmlVars  == <<target, locking, awaiting, ready, isLocked, component>>
surfVars == <<surfaces, captured, shown, doomed>>
wireVars == <<activeLock, isSecure, compositor, wlError>>
vars     == <<qmlVars, surfVars, wireVars, screens, supported>>

LockStates == {"none", "requested", "secure", "finished"}
CompStates == {"unlocked", "asked", "granted", "refused", "revoked"}
WlErrors   == {"none", "invalid_unlock", "invalid_destroy"}

TypeOK ==
  /\ target \in BOOLEAN /\ locking \in BOOLEAN /\ awaiting \in BOOLEAN
  /\ ready \in BOOLEAN /\ isLocked \in BOOLEAN /\ isSecure \in BOOLEAN
  /\ component \in Components
  /\ surfaces \subseteq Screens /\ captured \subseteq Screens
  /\ shown \subseteq Screens /\ doomed \subseteq Screens
  /\ activeLock \in LockStates
  /\ screens \subseteq Screens /\ supported \in BOOLEAN
  /\ compositor \in CompStates /\ wlError \in WlErrors

(***************************************************************************)
(* m_lockTarget, m_isLocking and m_awaitingLock have no initialiser.       *)
(***************************************************************************)
Init ==
  /\ target \in StartFlags /\ locking \in StartFlags /\ awaiting \in StartFlags
  /\ ready = FALSE /\ isLocked = FALSE /\ isSecure = FALSE
  /\ component = "null"
  /\ surfaces = {} /\ captured = {} /\ shown = {} /\ doomed = {}
  /\ activeLock = "none"
  /\ screens \in SUBSET Screens
  /\ HotPlug \/ screens = Screens
  /\ supported \in BOOLEAN
  /\ compositor = "unlocked" /\ wlError = "none"

Connected == wlError = "none"

----------------------------------------------------------------------------
(* SessionLock and LockManager *)

\* The request that ends a lock object is a protocol error when it does not
\* fit what the compositor has already sent for the object.
EndRequest(legal, error) ==
  \/ compositor \in legal /\ compositor' = "unlocked" /\ UNCHANGED wlError
  \/ compositor \notin legal /\ wlError' = error /\ UNCHANGED compositor

Destroy          == EndRequest({"asked", "refused"}, "invalid_destroy")
UnlockAndDestroy == EndRequest({"granted", "revoked"}, "invalid_unlock")

\* SessionLock::unlock under LockManager::attemptUnlock. clearLock() runs
\* before the signal that makes SessionLockQML read isSecure() again.
AttemptUnlock ==
  \/ activeLock = "none" /\ UNCHANGED wireVars
  \/ /\ activeLock # "none"
     /\ activeLock' = "none" /\ isSecure' = FALSE
     /\ \/ activeLock = "finished" /\ Destroy
        \/ activeLock # "finished" /\ UnlockAndDestroy

AttemptLock ==
  \/ activeLock # "none" /\ UNCHANGED wireVars
  \/ /\ activeLock = "none"
     /\ activeLock' = "requested" /\ compositor' = "asked"
     /\ UNCHANGED <<isSecure, wlError>>

\* ext_session_lock_v1_locked
LockedEvent ==
  /\ Connected
  /\ activeLock = "requested" /\ compositor \in {"granted", "revoked"}
  /\ activeLock' = "secure" /\ isSecure' = TRUE
  /\ UNCHANGED <<qmlVars, surfVars, screens, supported, compositor, wlError>>

\* ext_session_lock_v1_finished: the object stays with the manager
FinishedEvent ==
  /\ Connected
  /\ \/ activeLock = "requested" /\ compositor = "refused"
     \/ activeLock = "secure" /\ compositor = "revoked"
  /\ activeLock' = "finished" /\ isSecure' = FALSE
  /\ UNCHANGED <<qmlVars, surfVars, screens, supported, compositor, wlError>>

----------------------------------------------------------------------------
(* SessionLockQML *)

\* Mutants: the surfaces survive; m_isLocking is not reset.
DoUnlockKeepsSurfaces(caps, d) ==
  /\ target' = FALSE /\ ready' = FALSE /\ locking' = FALSE /\ awaiting' = FALSE
  /\ surfaces' = surfaces /\ captured' = caps /\ shown' = shown /\ doomed' = d
  /\ AttemptUnlock
  /\ isLocked' = FALSE

DoUnlockKeepsLocking(caps, d) ==
  /\ target' = FALSE /\ ready' = FALSE /\ locking' = locking /\ awaiting' = FALSE
  /\ surfaces' = {} /\ captured' = {} /\ shown' = {}
  /\ doomed' = d \cup ((surfaces \cap screens) \ caps)
  /\ AttemptUnlock
  /\ isLocked' = FALSE

\* A deleted surface whose screenshot is still under way can report it until
\* the event loop really deletes it: caps and d are the captured surfaces and
\* the deleted ones at the moment of the call.
DoUnlock(caps, d) ==
  /\ target' = FALSE /\ ready' = FALSE /\ locking' = FALSE /\ awaiting' = FALSE
  /\ surfaces' = {} /\ captured' = {} /\ shown' = {}
  /\ doomed' = d \cup ((surfaces \cap screens) \ caps)
  /\ AttemptUnlock
  /\ isLocked' = FALSE

\* Mutant: missing surfaces are not made when some exist.
UpdateSurfacesOnce(caps, d) ==
  /\ surfaces' = IF surfaces = {} THEN screens ELSE surfaces \cap screens
  /\ captured' = caps \cap screens
  /\ doomed' = d

\* updateSurfaces(false): drop the surfaces of gone outputs, make missing ones
UpdateSurfaces(caps, d) ==
  /\ surfaces' = screens
  /\ captured' = caps \cap screens
  /\ doomed' = d

\* The lock manager is bound, and updateSurfaces can make what is missing.
CanShow ==
  /\ supported
  /\ component # "null"
  /\ component = "good" \/ screens \subseteq surfaces

\* The body of realizeLockTarget once the re-entry test is passed, for lock
\* target t and b_allCapturesReady r. Waiting for a capture leaves m_isLocking
\* set (the scope guard is dismissed). A guard that finds m_awaitingLock runs
\* the function again, which repeats the branch just taken and changes nothing.
Realize(t, r, caps, d) ==
  \/ ~(t /\ CanShow) /\ DoUnlock(caps, d)
  \/ /\ t /\ CanShow
     /\ target' = TRUE
     /\ UpdateSurfaces(caps, d)
     /\ ready' = r
     /\ \/ /\ ~r
           /\ locking' = TRUE /\ shown' = shown \cap surfaces'
           /\ UNCHANGED <<awaiting, isLocked, wireVars>>
        \/ /\ r
           /\ AttemptLock
           /\ locking' = FALSE /\ awaiting' = FALSE
           /\ shown' = surfaces' /\ isLocked' = TRUE

RealizeLockTarget(t) ==
  \/ /\ locking
     /\ target' = t /\ awaiting' = TRUE
     /\ UNCHANGED <<locking, ready, isLocked, surfVars, wireVars>>
  \/ ~locking /\ Realize(t, ready, captured, doomed)

Lock ==
  /\ Connected /\ ~target
  /\ RealizeLockTarget(TRUE)
  /\ UNCHANGED <<component, screens, supported>>

Unlock ==
  /\ Connected /\ target
  /\ RealizeLockTarget(FALSE)
  /\ UNCHANGED <<component, screens, supported>>

\* Mutant: the lock is taken although unlock() came meanwhile.
OnScreencopyReadyAnyway(caps, d) ==
  /\ Realize(TRUE, TRUE, caps, d)
  /\ UNCHANGED <<component, screens, supported>>

\* isScreencopyReady() answers true for every surface, so one screenshot of
\* one surface counts as all of them.
OnScreencopyReady(caps, d) ==
  /\ Realize(target, TRUE, caps, d)
  /\ UNCHANGED <<component, screens, supported>>

ScreencopyReady(s) ==
  /\ Connected
  /\ s \in (surfaces \cap screens) \ captured
  /\ OnScreencopyReady(captured \cup {s}, doomed)

DoomedReady(s) ==
  /\ Connected
  /\ s \in doomed \cap screens
  /\ OnScreencopyReady(captured, doomed \ {s})

DeferredDelete ==
  /\ doomed # {}
  /\ doomed' = {}
  /\ UNCHANGED <<qmlVars, surfaces, captured, shown, wireVars, screens, supported>>

\* Mutant: the component can be replaced while a lock is held.
SetSurfaceComponentAnytime(c) ==
  /\ Connected
  /\ component' = c
  /\ UNCHANGED <<target, locking, awaiting, ready, isLocked,
                 surfVars, wireVars, screens, supported>>

SetSurfaceComponent(c) ==
  /\ Connected
  /\ activeLock = "none"
  /\ component' = c
  /\ UNCHANGED <<target, locking, awaiting, ready, isLocked,
                 surfVars, wireVars, screens, supported>>

----------------------------------------------------------------------------
(* Outside the process *)

\* onScreensChanged is connected to nothing: no handler runs. A new output is
\* a new QScreen, so it has no surface yet.
ScreenAdded(s) ==
  /\ HotPlug /\ Connected
  /\ s \notin screens \cup surfaces \cup doomed
  /\ screens' = screens \cup {s}
  /\ UNCHANGED <<qmlVars, surfVars, wireVars, supported>>

ScreenRemoved(s) ==
  /\ HotPlug /\ Connected
  /\ s \in screens
  /\ screens' = screens \ {s}
  /\ UNCHANGED <<qmlVars, surfVars, wireVars, supported>>

Compositor(from, to) ==
  /\ Connected
  /\ compositor = from /\ compositor' = to
  /\ UNCHANGED <<qmlVars, surfVars, activeLock, isSecure, wlError,
                 screens, supported>>

CompositorGrants  == Compositor("asked", "granted")
CompositorRefuses == Compositor("asked", "refused")
CompositorRevokes == Compositor("granted", "revoked")

----------------------------------------------------------------------------
Capture == \E s \in Screens : ScreencopyReady(s) \/ DoomedReady(s)
Plug    == \E s \in Screens : ScreenAdded(s) \/ ScreenRemoved(s)

Next ==
  \/ Lock \/ Unlock \/ Capture \/ DeferredDelete
  \/ \E c \in Components : SetSurfaceComponent(c)
  \/ LockedEvent \/ FinishedEvent
  \/ Plug
  \/ CompositorGrants \/ CompositorRefuses \/ CompositorRevokes

Spec == Init /\ [][Next]_vars

\* The event loop delivers what has arrived. The compositor and the user owe nothing, and
\* nothing bounds the time a screenshot takes.
LockFairness ==
  /\ WF_vars(DeferredDelete)
  /\ WF_vars(LockedEvent) /\ WF_vars(FinishedEvent)

----------------------------------------------------------------------------
(* Properties *)

\* What QML is told agrees with the process-wide manager: isLocked exactly
\* while a lock object exists, and then the lock is wanted, no lock operation
\* is pending and a capture has been seen.
LockedAgrees ==
  /\ isLocked <=> activeLock # "none"
  /\ isLocked => target /\ ~locking
  /\ isLocked <=> ready

\* isSecure is never shown to QML unless the compositor has granted the lock
\* of the object the manager still holds (it may be revoking it meanwhile).
SecureIsTruthful ==
  isSecure => isLocked /\ compositor \in {"granted", "revoked"}

\* The qCFatal of updateSurfaces cannot fire: a surface is visible only while
\* a lock object exists.
ShownHaveLock == shown # {} => activeLock # "none" /\ shown \subseteq surfaces

\* With nothing wanted and nothing pending no surface, no lock object and no
\* old capture is left over, so the next lock() starts from scratch.
IdleIsClean ==
  ~target /\ ~locking =>
    surfaces = {} /\ captured = {} /\ activeLock = "none" /\ ~ready

\* QML, the manager, the surfaces and the compositor agree on the lock in every state.
LockConsistent == TypeOK /\ LockedAgrees /\ SecureIsTruthful /\ ShownHaveLock /\ IdleIsClean

\* At the moment isLocked becomes true every connected output is covered by a
\* visible lock surface.
EngageCoversOutputs == [][~isLocked /\ isLocked' => screens \subseteq shown']_vars

\* A lock is requested from the compositor only if it is wanted at that very
\* moment: an unlock() made while a screenshot was awaited is not lost.
AskedOnlyIfWanted ==
  [][activeLock = "none" /\ activeLock' # "none" => target]_vars

\* Once engaged, the lock is given up by unlock() and by nothing else, unless
\* the surface component was replaced by an unusable one while lock() waited.
OnlyUnlockReleases ==
  [][isLocked /\ ~isLocked' /\ component # "bad" => Unlock]_vars

\* Refinement: the whole of it behaves as LockContract says.
Phase == IF isLocked THEN "locked" ELSE IF locking THEN "waiting" ELSE "idle"

Contract == INSTANCE LockContract WITH phase <- Phase, wanted <- target

\* Whatever outputs, screenshots and the compositor do, QML sees a lock that
\* follows LockContract.
ImplementsContract == Contract!ContractSpec

\* session_lock.cpp:13 warns never to destroy a lock object that was granted
\* without unlocking it first.
NeverDestroyedGranted == wlError # "invalid_destroy"
=============================================================================
