----------------------------- MODULE LockWindow -----------------------------
(***************************************************************************)
(* The windows of the session lock: LockSurfaceQML (the QML element with   *)
(* its window and its screenshot), WindowAttachedLock (which ties a window *)
(* to the lock object) and LockSurface (the protocol object of one         *)
(* output), from the calls of SessionLockQML to the deferred deletion.     *)
(*                                                                         *)
(* SessionLock models when SessionLockQML makes those calls; here they     *)
(* come in the orders it allows.                                           *)
(***************************************************************************)
EXTENDS Integers, Sequences, FiniteSets

CONSTANTS LockOutputs,   \* the outputs, as QScreen pointers
          NoOutput,
          WinSizes,      \* sizes the compositor configures
          MaxLockWins,   \* bound on the elements made
          MaxLocks,      \* bound on the lock objects
          MaxPlugs       \* bound on outputs that come and go

ASSUME LockWinAssumption ==
  /\ NoOutput \notin LockOutputs /\ IsFiniteSet(LockOutputs) /\ WinSizes \subseteq Nat \ {0}
  /\ MaxLockWins \in Nat /\ MaxLocks \in Nat /\ MaxPlugs \in Nat

VARIABLES
  outputs,   \* connected outputs
  bufsReady, \* WlBufferManager::isReady
  lockNow,   \* number of the lock object, 0 when there is none
  locksMade,
  lockWins,  \* the elements made, in order
  plugs,     \* outputs that have come or gone
  keyReused  \* a new QScreen has the address a held element is filed under

lockWinVars == <<outputs, bufsReady, lockNow, locksMade, lockWins, plugs, keyReused>>

\* life: "held" in m_surfaces, "doomed" by deleteLater, "gone"; key: the screen it is filed
\* under; screen: m_screen; at: the screen of the window; copy: its screenshot, "none" as
\* long as there is no ScreencopyQMLView; lock: the lock of its LockSurface, 0 without one;
\* on: the output of that; acked: m_configured; drawn: a buffer has been committed.
NewWindow(o) ==
  [life |-> "held", key |-> o, screen |-> o, at |-> o,
   copy |-> IF bufsReady THEN "asked" ELSE "none",
   lock |-> 0, on |-> NoOutput, acked |-> FALSE, size |-> 0, drawn |-> FALSE]

LockWinInit ==
  /\ outputs = LockOutputs /\ bufsReady \in BOOLEAN
  /\ lockNow = 0 /\ locksMade = 0 /\ lockWins = <<>> /\ plugs = 0
  /\ keyReused = FALSE

Held == {k \in DOMAIN lockWins : lockWins[k].life = "held"}
LiveWins == {k \in DOMAIN lockWins : lockWins[k].life # "gone"}
With(k, w) == lockWins' = [lockWins EXCEPT ![k] = w]

\* show() attaches the window to the lock that is active and makes a LockSurface on the
\* output the window is on.
ShownAs(w, lock) ==
  IF w.lock # 0 THEN w ELSE [w EXCEPT !.lock = lock, !.on = w.at]

\* updateSurfaces: elements of outputs that are gone are left to deleteLater, missing ones
\* are made, and all are shown when the lock has been taken, by this call of
\* realizeLockTarget or by an earlier one.
ShowOnScreens(show) ==
  LET pruned == [k \in DOMAIN lockWins |->
                   IF k \in Held /\ lockWins[k].key \notin outputs
                   THEN [lockWins[k] EXCEPT !.life = "doomed"] ELSE lockWins[k]]
      missing == {o \in outputs : \A k \in Held : lockWins[k].key # o}
      size == Len(lockWins)
  IN /\ lockNow # 0 => show
     /\ show /\ lockNow = 0 => locksMade < MaxLocks
     /\ locksMade' = IF show /\ lockNow = 0 THEN locksMade + 1 ELSE locksMade
     /\ lockNow' = IF show THEN locksMade' ELSE 0
     /\ size + Cardinality(missing) <= MaxLockWins
     /\ \E order \in [1 .. Cardinality(missing) -> missing] :
          /\ \A o \in missing : \E k \in DOMAIN order : order[k] = o
          /\ LET all == pruned \o [k \in DOMAIN order |-> NewWindow(order[k])]
             IN lockWins' = [k \in DOMAIN all |->
                               IF show /\ all[k].life = "held" THEN ShownAs(all[k], lockNow')
                               ELSE all[k]]
     /\ UNCHANGED <<outputs, bufsReady, plugs, keyReused>>

\* doUnlock: every element is left to deleteLater before the lock is let go.
WindowsUnlock ==
  /\ lockWins' = [k \in DOMAIN lockWins |->
                    IF k \in Held THEN [lockWins[k] EXCEPT !.life = "doomed"] ELSE lockWins[k]]
  /\ lockNow' = 0 /\ keyReused' = FALSE
  /\ UNCHANGED <<outputs, bufsReady, locksMade, plugs>>

\* The event loop deletes an element: its window is destroyed, and with it the LockSurface
\* it was given to, and the lock attached to the window.
WindowDeleted(k) ==
  /\ lockWins[k].life = "doomed"
  /\ With(k, [NewWindow(NoOutput) EXCEPT !.life = "gone", !.copy = "none"])
  /\ UNCHANGED <<outputs, bufsReady, lockNow, locksMade, plugs, keyReused>>

PlugLimit == plugs < MaxPlugs /\ plugs' = plugs + 1

\* An output goes, and the surface on it with it; Qt moves its windows to another one.
OutputGone(o) ==
  /\ PlugLimit /\ o \in outputs /\ outputs' = outputs \ {o}
  /\ \E next \in IF outputs' = {} THEN {NoOutput} ELSE outputs' :
       lockWins' = [k \in DOMAIN lockWins |->
         IF k \notin LiveWins THEN lockWins[k]
         ELSE [lockWins[k] EXCEPT !.screen = IF @ = o THEN NoOutput ELSE @,
                                  !.on = IF @ = o THEN NoOutput ELSE @,
                                  !.at = IF @ = o THEN next ELSE @]]
  /\ UNCHANGED <<bufsReady, lockNow, locksMade, keyReused>>

\* An output comes; its QScreen can have the address of one that was deleted.
OutputComes(o) ==
  /\ PlugLimit /\ o \notin outputs /\ outputs' = outputs \cup {o}
  /\ keyReused' = (keyReused \/ \E k \in Held : lockWins[k].key = o)
  /\ UNCHANGED <<bufsReady, lockNow, locksMade, lockWins>>

\* WlBufferManager::ready: elements made before it get their view, which captures the screen.
BufsReady ==
  /\ ~bufsReady /\ bufsReady' = TRUE
  /\ lockWins' = [k \in DOMAIN lockWins |->
       IF k \notin LiveWins THEN lockWins[k]
       ELSE [lockWins[k] EXCEPT !.copy = IF lockWins[k].screen = NoOutput THEN "idle"
                                         ELSE "asked"]]
  /\ UNCHANGED <<outputs, lockNow, locksMade, plugs, keyReused>>

ScreenshotArrives(k) ==
  /\ k \in LiveWins /\ lockWins[k].copy = "asked"
  /\ With(k, [lockWins[k] EXCEPT !.copy = "done"])
  /\ UNCHANGED <<outputs, bufsReady, lockNow, locksMade, plugs, keyReused>>

\* ext_session_lock_surface_v1_configure: acknowledged, then the window is resized.
Configure(k, s) ==
  /\ k \in LiveWins /\ lockWins[k].lock # 0 /\ lockWins[k].lock = lockNow
  /\ s # lockWins[k].size
  /\ With(k, [lockWins[k] EXCEPT !.acked = TRUE, !.size = s])
  /\ UNCHANGED <<outputs, bufsReady, lockNow, locksMade, plugs, keyReused>>

\* Mutant: a window counts as exposed once it is shown.
ExposedOnceShown(k) == lockWins[k].lock # 0

\* isExposed: Qt draws a window that is exposed.
IsExposed(k) == lockWins[k].lock # 0 /\ lockWins[k].acked

Draws(k) ==
  /\ k \in LiveWins /\ IsExposed(k) /\ ~lockWins[k].drawn
  /\ With(k, [lockWins[k] EXCEPT !.drawn = TRUE])
  /\ UNCHANGED <<outputs, bufsReady, lockNow, locksMade, plugs, keyReused>>

LockWinNext ==
  \/ \E show \in BOOLEAN : ShowOnScreens(show)
  \/ WindowsUnlock \/ BufsReady
  \/ \E k \in DOMAIN lockWins : WindowDeleted(k) \/ ScreenshotArrives(k) \/ Draws(k)
  \/ \E k \in DOMAIN lockWins, s \in WinSizes : Configure(k, s)
  \/ \E o \in LockOutputs : OutputGone(o) \/ OutputComes(o)

LockWinSpec == LockWinInit /\ [][LockWinNext]_lockWinVars

-----------------------------------------------------------------------------
(* No buffer is committed before the first configure is acknowledged, and  *)
(* its size is the configured one; a lock has at most one surface on an    *)
(* output, also while outputs come and go and deletions are deferred,      *)
(* unless a new output got the address of one that left, whose element is  *)
(* then taken for its own; and no element of an earlier lock is shown.     *)

ProtocolKept ==
  \A k \in LiveWins : LET w == lockWins[k] IN
    /\ w.drawn => w.acked /\ w.size > 0
OnePerOutput ==
  ~keyReused =>
    \A j, k \in LiveWins :
      lockNow # 0 /\ lockWins[j].lock = lockNow /\ lockWins[k].lock = lockNow
        /\ lockWins[j].on = lockWins[k].on /\ lockWins[j].on # NoOutput => j = k
LockWindowsSound ==
  /\ ProtocolKept /\ OnePerOutput
  /\ \A k \in Held : lockWins[k].lock \in {0, lockNow}
=============================================================================
