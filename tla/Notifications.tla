--------------------------- MODULE Notifications ----------------------------
(***************************************************************************)
(* NotificationServer, its Notifications with their actions, and the name  *)
(* org.freedesktop.Notifications that another daemon may own.              *)
(*                                                                         *)
(* Of a notification the model keeps its actions and whether it is         *)
(* resident; texts, images and hints are left out. A method that emits a   *)
(* signal with work still to do is cut there: QML may call the others from *)
(* its handler, and what is left waits on a stack.                         *)
(***************************************************************************)
EXTENDS Naturals, Sequences, FiniteSets

CONSTANTS MaxNotes,      \* bound: ids handed out
          ActionLists,   \* sequences of action identifiers a client may send
          MaxCalls,      \* bound: methods that wait for QML at a time
          MaxOwners      \* bound: times another daemon takes the name

ASSUME NoteAssumption ==
  MaxNotes \in Nat /\ \A list \in ActionLists : list \in Seq(STRING)

VARIABLES
  curId,        \* m_curId
  held,         \* keys of m_notificationsMap
  rows,         \* ids of the notifications in m_model
  actions,      \* id -> identifiers of m_actions
  resident,     \* ids of the resident notifications
  closeAsked,        \* history: id -> the actions of its last valid request
  closes,       \* history: id -> NotificationClosed signals sent
  calls,        \* methods that wait for a handler of QML, the innermost last
  again,        \* history: ids QML closed while they were being closed
  isActive,     \* m_isActive
  noteWatched,      \* the name is watched by m_serviceWatcher
  noteOwner,        \* owner of the name: "none", "shell", "daemon"
  gone,         \* serviceUnregistered events posted to the shell
  owners        \* counts the daemons, for MaxOwners

noteVars == <<curId, held, rows, actions, resident, closeAsked, closes, calls, again, isActive, noteWatched, noteOwner,
              gone, owners>>
noteListVars == <<curId, held, rows, actions, resident, closeAsked, closes, calls, again>>
nameVars == <<isActive, noteWatched, noteOwner, gone, owners>>

NoteIds == 1..MaxNotes

Call(d, i) == [do |-> d, id |-> i]
Busy == calls # <<>>
Top == calls[Len(calls)]
Waiting == SubSeq(calls, 1, Len(calls) - 1)
Room == Len(calls) < MaxCalls

NoteInit ==
  /\ curId = 1
  /\ held = {} /\ rows = {} /\ resident = {}
  /\ actions = [i \in NoteIds |-> <<>>]
  /\ closeAsked = [i \in NoteIds |-> <<>>]
  /\ closes = [i \in NoteIds |-> 0]
  /\ calls = <<>> /\ again = {}
  /\ isActive = FALSE /\ noteWatched = FALSE
  /\ noteOwner \in {"none", "daemon"}
  /\ gone = 0
  /\ owners = 0

-----------------------------------------------------------------------------
(* Notifications. *)

\* updateProperties: the actions given replace the first ones; of m left over, the loop that
\* removes them skips every other one and stops early.
UpdatedActions(old, new) ==
  LET n == Len(new)
      m == IF Len(old) > n THEN Len(old) - n ELSE 0
      k == m \div 2
  IN  new \o [j \in 1..(m - k) |-> old[n + (IF j <= k THEN 2 * j ELSE j + k)]]

\* Notify(): an id that is not held is answered with a new notification, which QML hears of
\* before it is inserted.  A list of odd length (valid = FALSE) leaves the actions alone.
Notify(replaces, list, valid, keep) ==
  LET isUpdate == replaces \in held
      id == IF isUpdate THEN replaces ELSE curId
  IN  /\ ~Busy /\ (isUpdate \/ curId <= MaxNotes)
      /\ curId' = IF isUpdate THEN curId ELSE curId + 1
      /\ actions' = IF valid THEN [actions EXCEPT ![id] = UpdatedActions(@, list)] ELSE actions
      /\ closeAsked' = IF valid THEN [closeAsked EXCEPT ![id] = list] ELSE closeAsked
      /\ resident' = IF keep THEN resident \cup {id} ELSE resident \ {id}
      /\ calls' = IF isUpdate THEN calls ELSE Append(calls, Call("insert", id))
      /\ UNCHANGED <<held, rows, closes, again, nameVars>>

InsertNote ==
  /\ Busy /\ Top.do = "insert"
  /\ held' = held \cup {Top.id} /\ rows' = rows \cup {Top.id}
  /\ calls' = Waiting
  /\ UNCHANGED <<curId, actions, resident, closeAsked, closes, again, nameVars>>

\* deleteNotification of an id, with the calls that wait below it: it returns if it does not
\* find the id, and else emits closed() with the id still there.
Begins(id, below) ==
  /\ calls' = Append(below, Call("remove", id))
  /\ again' = IF \E i \in DOMAIN calls : calls[i].do \in {"remove", "drop"} /\ calls[i].id = id
              THEN again \cup {id} ELSE again
  /\ UNCHANGED <<curId, held, rows, actions, resident, closeAsked, closes, nameVars>>

\* Mutant: it does not look whether the id is still there.
DeleteUnchecked(id) == id < curId /\ Room /\ Begins(id, calls)

Delete(id) == id \in held /\ Room /\ Begins(id, calls)

\* closed() was told: the row goes, and the model tells that its values changed.
RemoveRow ==
  /\ Busy /\ Top.do = "remove"
  /\ rows' = rows \ {Top.id}
  /\ calls' = Append(Waiting, Call("drop", Top.id))
  /\ UNCHANGED <<curId, held, actions, resident, closeAsked, closes, again, nameVars>>

\* The id is taken out of the map and its sender told.
DropNote ==
  /\ Busy /\ Top.do = "drop"
  /\ held' = held \ {Top.id}
  /\ closes' = [closes EXCEPT ![Top.id] = @ + 1]
  /\ calls' = Waiting
  /\ UNCHANGED <<curId, rows, actions, resident, closeAsked, again, nameVars>>

\* CloseNotification() of a client; dismiss() and expire() of a delegate, which may outlive
\* its notification by an event; invoke() of an action, which dismisses a notification that
\* is not resident.
CloseNotification(id) == ~Busy /\ Delete(id)
Dismiss(id) == Delete(id)
Invoke(id) == actions[id] # <<>> /\ id \notin resident /\ Delete(id)

\* closeAllNotifications(): the rows go first; then the hash is walked while dismiss()
\* removes from it, which may skip entries.
CloseAll ==
  /\ Room
  /\ rows' = {}
  /\ calls' = Append(calls, Call("walk", 0))
  /\ UNCHANGED <<curId, held, actions, resident, closeAsked, closes, again, nameVars>>

Walk(id) ==
  /\ Busy /\ Top.do \in {"walk", "next"}
  /\ id \in held /\ Room
  /\ Begins(id, Append(Waiting, Call("next", 0)))

WalkEnds ==
  /\ Busy /\ (Top.do = "next" \/ (Top.do = "walk" /\ held = {}))
  /\ calls' = Waiting
  /\ UNCHANGED <<curId, held, rows, actions, resident, closeAsked, closes, again, nameVars>>

-----------------------------------------------------------------------------
(* The name on the bus. *)

Registered == IF noteOwner = "none" THEN "shell" ELSE noteOwner        \* tryRegister

\* setIsActive(true): the name is watched before it is tried for.
SetActive ==
  /\ ~isActive
  /\ isActive' = TRUE
  /\ noteWatched' = TRUE
  /\ noteOwner' = Registered
  /\ UNCHANGED <<noteListVars, gone, owners>>

\* setIsActive(false).  Our own departure is no longer watched.
SetInactive ==
  /\ isActive
  /\ isActive' = FALSE
  /\ noteWatched' = FALSE
  /\ noteOwner' = IF noteOwner = "shell" THEN "none" ELSE noteOwner
  /\ UNCHANGED <<noteListVars, gone, owners>>

\* onServiceUnregistered, static: it does not look at isActive.
ServiceUnregistered ==
  /\ ~Busy /\ gone > 0
  /\ gone' = gone - 1
  /\ noteOwner' = Registered
  /\ UNCHANGED <<noteListVars, isActive, noteWatched, owners>>

DaemonLeaves ==
  /\ noteOwner = "daemon"
  /\ noteOwner' = "none"
  /\ gone' = IF noteWatched THEN gone + 1 ELSE gone
  /\ UNCHANGED <<noteListVars, isActive, noteWatched, owners>>

ServerFreed ==
  /\ noteOwner = "none" /\ owners < MaxOwners
  /\ owners' = owners + 1
  /\ noteOwner' = "daemon"
  /\ UNCHANGED <<noteListVars, isActive, noteWatched, gone>>

NoteNext ==
  \/ /\ noteOwner = "shell"
     /\ \/ \E replaces \in 0..MaxNotes, list \in ActionLists, valid, keep \in BOOLEAN :
             Notify(replaces, list, valid, keep)
        \/ \E id \in NoteIds : CloseNotification(id)
  \/ \E id \in NoteIds : Dismiss(id) \/ Invoke(id) \/ Walk(id)
  \/ InsertNote \/ RemoveRow \/ DropNote \/ CloseAll \/ WalkEnds
  \/ SetActive \/ SetInactive \/ ServiceUnregistered \/ DaemonLeaves \/ ServerFreed

NoteSpec == NoteInit /\ [][NoteNext]_noteVars

-----------------------------------------------------------------------------
Arriving(id) == \E i \in DOMAIN calls : calls[i] = Call("insert", id)

(* Every id ever handed out is either still held, or about to be, or was    *)
(* reported closed, exactly once unless QML closed it again from a handler  *)
(* of its own closing; only held notifications are listed, and the first   *)
(* actions of each are those of the last valid request.  When no event of   *)
(* the name is under way and the server is active, the name has an owner.   *)
NoteAccounts ==
  /\ rows \subseteq held /\ held \subseteq 1..(curId - 1)
  /\ \A id \in 1..(curId - 1) :
       /\ id \in held \/ Arriving(id) \/ closes[id] > 0
       /\ id \notin again => closes[id] = IF id \in held \/ Arriving(id) THEN 0 ELSE 1
  /\ \A id \in held : SubSeq(actions[id], 1, Len(closeAsked[id])) = closeAsked[id]
  /\ isActive /\ gone = 0 => noteOwner # "none"
=============================================================================
