----------------------------- MODULE HyprSpaces -----------------------------
(***************************************************************************)
(* The workspaces and monitors the shell shows under Hyprland. Lines on    *)
(* the event socket tell that something changed; what it is comes with the *)
(* answer to a request, of which there is at most one of each kind, and a  *)
(* request made meanwhile is dropped. A workspace is an object: it keeps   *)
(* its toplevels, and monitors point at it.                                *)
(*                                                                         *)
(* The list of toplevels is in module Toplevels: here its signals arrive   *)
(* as calls, TopArrives for readyToplevelsChanged, TopMoves for            *)
(* workspaceIdChanged followed by windowMoved, TopLeaves for destroyed.    *)
(***************************************************************************)
EXTENDS Integers, SequencesExt

CONSTANTS SpaceIds,     \* ids of workspaces
          Monitors,     \* ids of monitors
          Tops,         \* toplevels
          NoTop,        \* no toplevel
          MaxSpaceSteps \* bound on what Hyprland, its user and the toplevels do

ASSUME SpacesAssumption == /\ SpaceIds \subseteq Nat \ {0}
                           /\ Monitors \subseteq Nat /\ NoTop \notin Tops
                           /\ IsFiniteSet(SpaceIds) /\ IsFiniteSet(Tops)

VARIABLES
  place,      \* Hyprland: the monitor of each workspace, -1 if it does not exist
  onto,       \* Hyprland: the workspace each monitor shows
  topOf,      \* workspaceId of each ready toplevel, 0 when it is not ready
  spaceSteps, \* steps of Hyprland so far
  hyLines,    \* lines on the event socket
  spacesAsk,  \* the one "workspaces" request and its answer
  monitorsAsk,\* the one "monitors" request and its answer
  spaces,     \* m_workspaces: id |-> [obj, mon, kids, act, last, urgent]
  byMonitor,  \* m_workspacesByMonitor
  monitors,   \* m_monitors: id |-> [list, act, want]
  objects,    \* number of HyprWorkspace objects made so far
  behind      \* history: a request was dropped behind an answer already made

hyprVars == <<place, onto, spaceSteps, topOf>>
modelVars == <<spaces, byMonitor, monitors, objects>>
spaceVars == <<hyprVars, hyLines, spacesAsk, monitorsAsk, modelVars, behind>>

Empty == [i \in {} |-> 0]
NoAsk == [is |-> "idle", of |-> Empty]
Existing == {i \in SpaceIds : place[i] # -1}
KnownIds == DOMAIN spaces

\* The constructor has asked for the monitors and then for the workspaces.
SpaceInit ==
  /\ place = [i \in SpaceIds |-> IF i \in Monitors THEN i ELSE -1]
  /\ onto = [m \in Monitors |-> m]
  /\ topOf = [t \in Tops |-> 0] /\ spaceSteps = 0 /\ hyLines = <<>>
  /\ spacesAsk = [NoAsk EXCEPT !.is = "asked"]
  /\ monitorsAsk = [NoAsk EXCEPT !.is = "asked"]
  /\ spaces = Empty /\ byMonitor = <<>> /\ monitors = Empty
  /\ objects = 0 /\ behind = FALSE

-----------------------------------------------------------------------------
(* Hyprland and its user *)

SpaceStep == spaceSteps < MaxSpaceSteps /\ spaceSteps' = spaceSteps + 1
Tell(k, i) == hyLines' = Append(hyLines, [kind |-> k, id |-> i])

\* A workspace is made on a monitor, which shows it.
SpaceMade(i, m) ==
  /\ SpaceStep /\ place[i] = -1
  /\ place' = [place EXCEPT ![i] = m] /\ onto' = [onto EXCEPT ![m] = i]
  /\ hyLines' = hyLines \o <<[kind |-> "createworkspace", id |-> i],
                             [kind |-> "workspacev2", id |-> i]>>
  /\ UNCHANGED <<topOf, spacesAsk, monitorsAsk, modelVars, behind>>

SpaceShown(i) ==
  /\ SpaceStep /\ i \in Existing /\ onto[place[i]] # i
  /\ onto' = [onto EXCEPT ![place[i]] = i]
  /\ Tell("workspacev2", i)
  /\ UNCHANGED <<place, topOf, spacesAsk, monitorsAsk, modelVars, behind>>

\* An empty workspace that no monitor shows is gone.
SpaceGone(i) ==
  /\ SpaceStep /\ i \in Existing /\ onto[place[i]] # i
  /\ place' = [place EXCEPT ![i] = -1]
  /\ Tell("destroyworkspace", i)
  /\ UNCHANGED <<onto, topOf, spacesAsk, monitorsAsk, modelVars, behind>>

SpaceMoved(i, m) ==
  /\ SpaceStep /\ i \in Existing /\ onto[place[i]] # i /\ place[i] # m
  /\ place' = [place EXCEPT ![i] = m]
  /\ Tell("moveworkspace", i)
  /\ UNCHANGED <<onto, topOf, spacesAsk, monitorsAsk, modelVars, behind>>

\* Lines about a window: it takes the focus, or asks for attention.
TopTold(k, t) ==
  /\ SpaceStep /\ topOf[t] # 0 /\ k \in {"activewindowv2", "urgent"}
  /\ Tell(k, t)
  /\ UNCHANGED <<place, onto, topOf, spacesAsk, monitorsAsk, modelVars, behind>>

SpacesAnswered ==
  /\ spacesAsk.is = "asked"
  /\ \E last \in Tops \cup {NoTop} :
       spacesAsk' = [is |-> "answered",
         of |-> [i \in Existing |->
                   [mon |-> place[i],
                    last |-> IF last # NoTop /\ topOf[last] = i THEN last ELSE NoTop]]]
  /\ UNCHANGED <<hyprVars, hyLines, monitorsAsk, modelVars, behind>>

MonitorsAnswered ==
  /\ monitorsAsk.is = "asked" /\ monitorsAsk' = [is |-> "answered", of |-> onto]
  /\ UNCHANGED <<hyprVars, hyLines, spacesAsk, modelVars, behind>>

-----------------------------------------------------------------------------
(* HyprWorkspace *)

\* setActiveToplevel: only a child becomes active, and the workspace is not urgent.
WithActive(sp, t) ==
  IF Contains(sp.kids, t)
  THEN [sp EXCEPT !.act = t, !.last = NoTop, !.urgent = FALSE] ELSE sp

Attached(sp, t) ==
  IF Contains(sp.kids, t) THEN sp
  ELSE LET more == [sp EXCEPT !.kids = Append(sp.kids, t)]
       IN IF sp.last = t THEN WithActive(more, t) ELSE more

\* Attached for each of ts in turn, in some order.
AttachedAll(sp, ts) ==
  LET more == ts \ ToSet(sp.kids)
      all == [sp EXCEPT !.kids = sp.kids \o SetToSeq(more)]
  IN IF sp.last \in more THEN WithActive(all, sp.last) ELSE all

\* Mutant: the workspace keeps the active toplevel it has lost.
DetachedKeepsActive(sp, t) == [sp EXCEPT !.kids = RemoveFirst(sp.kids, t)]

\* detachToplevel: the first child left becomes active, without a signal.
Detached(sp, t) ==
  LET act == IF sp.act = t THEN NoTop ELSE sp.act
      kids == RemoveFirst(sp.kids, t)
  IN IF Contains(sp.kids, t)
     THEN [sp EXCEPT !.kids = kids,
                     !.act = IF act = NoTop /\ kids # <<>> THEN kids[1] ELSE act]
     ELSE [sp EXCEPT !.act = act]

\* updateData; a workspace made by this answer starts without toplevels.
Updated(sp, data) ==
  LET told == [sp EXCEPT !.mon = data.mon, !.last = data.last]
  IN IF data.last = NoTop THEN told ELSE WithActive(told, data.last)

New(n) == [obj |-> n, mon |-> -1, kids |-> <<>>, act |-> NoTop, last |-> NoTop,
           urgent |-> FALSE]

-----------------------------------------------------------------------------
(* HyprMonitor; a pointer to a workspace is its id and the number of its object *)

Pointer(sps, i) == [id |-> i, obj |-> sps[i].obj]
Nowhere == [id |-> 0, obj |-> 0]
Alive(sps, p) == p.id \in DOMAIN sps /\ sps[p.id].obj = p.obj

NewMonitor(want) == [list |-> {}, act |-> Nowhere, want |-> want]

\* tryAssignActiveWorkspace
ActiveAssigned(sps, mon) ==
  [mon EXCEPT !.act = IF mon.want \in DOMAIN sps THEN Pointer(sps, mon.want)
                                                 ELSE Nowhere]

\* onWorkspacesChanged takes out the workspaces of other monitors and adds its own:
\* one that no longer exists stays, as a pointer to an object that is deleted.
Listed(sps, m, mon) ==
  LET mine == {Pointer(sps, i) : i \in {j \in DOMAIN sps : sps[j].mon = m}}
      others == {Pointer(sps, i) : i \in DOMAIN sps} \ mine
  IN ActiveAssigned(sps, [mon EXCEPT !.list = (@ \ others) \cup mine])

-----------------------------------------------------------------------------
(* The answers *)

\* The order of the answer's workspaces: by monitor, then by id.
Order(data) ==
  CHOOSE r \in [1..Cardinality(DOMAIN data) -> DOMAIN data] :
    \A k, l \in DOMAIN r : k < l =>
      \/ data[r[k]].mon < data[r[l]].mon
      \/ data[r[k]].mon = data[r[l]].mon /\ r[k] < r[l]

\* updateFromPayload: monitors are told only if the sorted list changed, which the
\* move of a workspace may leave as it was. A workspace that is deleted makes the
\* monitor that shows it look again (destroyed).
UpdateFromPayload ==
  /\ spacesAsk.is = "answered"
  /\ LET data == spacesAsk.of
         fresh == SetToSeq(DOMAIN data \ KnownIds)
         num(i) == objects + CHOOSE k \in DOMAIN fresh : fresh[k] = i
         sps == [i \in DOMAIN data |->
                   Updated(IF i \in KnownIds THEN spaces[i] ELSE New(num(i)), data[i])]
         order == Order(data)
         list == [k \in DOMAIN order |-> Pointer(sps, order[k])]
     IN /\ spaces' = sps /\ byMonitor' = list
        /\ objects' = objects + Len(fresh)
        /\ monitors' = [m \in DOMAIN monitors |->
             IF list # byMonitor THEN Listed(sps, m, monitors[m]) ELSE monitors[m]]
  /\ spacesAsk' = NoAsk
  /\ UNCHANGED <<hyprVars, hyLines, monitorsAsk, behind>>

\* processMonitorData clears the list before it looks for the monitors it knows:
\* every answer replaces all of them.
ProcessMonitorData ==
  /\ monitorsAsk.is = "answered"
  /\ monitors' = [m \in DOMAIN monitorsAsk.of |->
       Listed(spaces, m, NewMonitor(monitorsAsk.of[m]))]
  /\ monitorsAsk' = NoAsk
  /\ UNCHANGED <<hyprVars, hyLines, spacesAsk, spaces, byMonitor, objects, behind>>

\* An error: the payload is empty, which no parser takes.
SpacesFailed ==
  /\ \/ spacesAsk # NoAsk /\ spacesAsk' = NoAsk /\ UNCHANGED monitorsAsk
     \/ monitorsAsk # NoAsk /\ monitorsAsk' = NoAsk /\ UNCHANGED spacesAsk
  /\ behind' = TRUE
  /\ UNCHANGED <<hyprVars, hyLines, modelVars>>

-----------------------------------------------------------------------------
(* The lines of the event socket *)

\* queryWorkspaces
SpacesLine ==
  /\ hyLines # <<>>
  /\ Head(hyLines).kind \in {"createworkspace", "destroyworkspace", "moveworkspace"}
  /\ hyLines' = Tail(hyLines)
  /\ IF spacesAsk = NoAsk
     THEN spacesAsk' = [NoAsk EXCEPT !.is = "asked"] /\ UNCHANGED behind
     ELSE /\ UNCHANGED spacesAsk
          /\ behind' = (behind \/ spacesAsk.is = "answered")
  /\ UNCHANGED <<hyprVars, monitorsAsk, modelVars>>

\* onUserWorkspaceChange: a monitor looks for the id among the workspaces it lists.
\* Reading the id of one that is deleted yields anything.
Shows(mon, i) ==
  LET found == {p \in mon.list : Alive(spaces, p) => p.id = i}
      taken == {[mon EXCEPT !.act = p, !.want = i] : p \in found}
      gone == mon.act # Nowhere /\ ~Alive(spaces, mon.act)
  IN IF mon.act.id = i /\ ~gone THEN {mon}
     ELSE IF gone \/ ~\E p \in found : Alive(spaces, p) THEN taken \cup {mon}
     ELSE taken

UserLine ==
  /\ hyLines # <<>> /\ Head(hyLines).kind = "workspacev2"
  /\ hyLines' = Tail(hyLines)
  /\ LET i == Head(hyLines).id
     IN /\ spaces' = [j \in KnownIds |-> IF j = i THEN [spaces[j] EXCEPT !.urgent = FALSE]
                                             ELSE spaces[j]]
        /\ \E f \in [DOMAIN monitors ->
                       UNION {Shows(monitors[m], i) : m \in DOMAIN monitors}] :
             /\ \A m \in DOMAIN monitors : f[m] \in Shows(monitors[m], i)
             /\ monitors' = f
  /\ UNCHANGED <<hyprVars, spacesAsk, monitorsAsk, byMonitor, objects, behind>>

\* onAddressActivated and onAddressUrgent of every workspace.
TopLine ==
  /\ hyLines # <<>> /\ Head(hyLines).kind \in {"activewindowv2", "urgent"}
  /\ hyLines' = Tail(hyLines)
  /\ LET t == Head(hyLines).id
     IN spaces' = [i \in KnownIds |->
          IF Head(hyLines).kind = "activewindowv2" THEN WithActive(spaces[i], t)
          ELSE IF Contains(spaces[i].kids, t) THEN [spaces[i] EXCEPT !.urgent = TRUE]
          ELSE spaces[i]]
  /\ UNCHANGED <<hyprVars, spacesAsk, monitorsAsk, byMonitor, monitors, objects,
                 behind>>

\* queryMonitors, for a monitor that is added or removed.
MonitorsLine ==
  /\ SpaceStep
  /\ monitorsAsk' = IF monitorsAsk = NoAsk THEN [NoAsk EXCEPT !.is = "asked"]
                                           ELSE monitorsAsk
  /\ UNCHANGED <<place, onto, topOf, hyLines, spacesAsk, modelVars, behind>>

-----------------------------------------------------------------------------
(* The signals of the list of toplevels *)

\* onToplevelsChanged: every ready toplevel goes to its workspace, if it is known.
AttachAll(sps, of) ==
  [i \in DOMAIN sps |-> AttachedAll(sps[i], {t \in Tops : of[t] = i})]

\* A toplevel is ready; one whose window was announced before it gets its workspace
\* after the signal, and is attached to none.
TopArrives(t, i) ==
  /\ SpaceStep /\ topOf[t] = 0 /\ i \in Existing
  /\ topOf' = [topOf EXCEPT ![t] = i]
  /\ \/ spaces' = AttachAll(spaces, topOf')
     \/ spaces' = AttachAll(spaces, topOf)
  /\ UNCHANGED <<place, onto, hyLines, spacesAsk, monitorsAsk, byMonitor, monitors,
                 objects, behind>>

\* setWorkspaceId detaches it; onWindowMoved attaches it if the workspace is known.
TopMoves(t, i) ==
  /\ SpaceStep /\ topOf[t] \notin {0, i} /\ i \in Existing
  /\ topOf' = [topOf EXCEPT ![t] = i]
  /\ spaces' = [j \in KnownIds |-> IF j = i THEN Attached(Detached(spaces[j], t), t)
                              ELSE Detached(spaces[j], t)]
  /\ UNCHANGED <<place, onto, hyLines, spacesAsk, monitorsAsk, byMonitor, monitors,
                 objects, behind>>

TopLeaves(t) ==
  /\ SpaceStep /\ topOf[t] # 0
  /\ topOf' = [topOf EXCEPT ![t] = 0]
  /\ LET rest == AttachAll(spaces, topOf')
     IN spaces' = [j \in KnownIds |-> Detached(rest[j], t)]
  /\ UNCHANGED <<place, onto, hyLines, spacesAsk, monitorsAsk, byMonitor, monitors,
                 objects, behind>>

SpaceNext ==
  \/ \E i \in SpaceIds, m \in Monitors : SpaceMade(i, m) \/ SpaceMoved(i, m)
  \/ \E i \in SpaceIds : SpaceShown(i) \/ SpaceGone(i)
  \/ \E t \in Tops, k \in {"activewindowv2", "urgent"} : TopTold(k, t)
  \/ \E t \in Tops, i \in SpaceIds : TopArrives(t, i) \/ TopMoves(t, i)
  \/ \E t \in Tops : TopLeaves(t)
  \/ SpacesAnswered \/ MonitorsAnswered \/ SpacesFailed
  \/ UpdateFromPayload \/ ProcessMonitorData
  \/ SpacesLine \/ UserLine \/ TopLine \/ MonitorsLine

SpaceSpec == SpaceInit /\ [][SpaceNext]_spaceVars

-----------------------------------------------------------------------------
SpaceQuiet == /\ \A k \in DOMAIN hyLines : hyLines[k].kind = "workspacev2"
              /\ spacesAsk = NoAsk

(***************************************************************************)
(* A toplevel is a child of no workspace but its own, and the active       *)
(* toplevel of a workspace is one of its children, however moves, answers  *)
(* and closings interleave. Once everything is read, and no request was    *)
(* dropped behind an answer or failed, the model has the workspaces of     *)
(* Hyprland on their monitors. Every workspace is listed by exactly one    *)
(* monitor, and the one a monitor shows exists, unless the monitor still   *)
(* lists one that was deleted.                                             *)
(***************************************************************************)
SpacesAgree ==
  /\ \A i \in KnownIds :
       LET sp == spaces[i]
       IN /\ IsInjective(sp.kids)
          /\ \A t \in ToSet(sp.kids) : topOf[t] = i
          /\ sp.act # NoTop => Contains(sp.kids, sp.act)
  /\ SpaceQuiet /\ ~behind =>
       KnownIds = Existing /\ \A i \in KnownIds : spaces[i].mon = place[i]
  /\ \A i \in KnownIds : DOMAIN monitors # {} =>
       Cardinality({m \in DOMAIN monitors : Pointer(spaces, i) \in monitors[m].list}) = 1
  /\ \A m \in DOMAIN monitors :
       LET mon == monitors[m]
       IN mon.act = Nowhere \/ Alive(spaces, mon.act)
          \/ \E p \in mon.list : ~Alive(spaces, p)
=============================================================================
