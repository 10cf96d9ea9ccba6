------------------------------ MODULE DBusMenu ------------------------------
(***************************************************************************)
(* The menu of a tray item (DBusMenuModel) and the pages that show it      *)
(* (ScopedDBusMenuView, always on the root), against an application that   *)
(* changes its menu while requests are under way.                          *)
(*                                                                         *)
(* The root of the menu is 0.  An id stays under one parent (ParentOf), so *)
(* a menu is the set of its ids; the order of siblings, the row signals    *)
(* and the drawing properties are left out.  Of the properties of an item  *)
(* the model keeps whether it is enabled, which is so unless the           *)
(* application says otherwise, and that others can change.                 *)
(***************************************************************************)
EXTENDS Integers, Sequences, FiniteSets

CONSTANTS Ids,         \* ids of the items, without the root
          ParentOf,    \* Ids -> Ids \cup {0}
          MenuViews,   \* pages of the popup
          MaxChanges,  \* bound: changes the application makes to its menu
          MaxAsks      \* bound: AboutToShow calls of addRef() at a time

VARIABLES
  app,           \* ids of the application's menu
  appEnabled,    \* Ids -> whether the application has the item enabled
  menuItems,     \* m_items without the root
  isEnabled,     \* Ids -> isEnabled of the DBusMenuModelItem
  updating,      \* m_isUpdating: {} or the request in flight, {<<parent, depth>>}
  sent,          \* the application has yet to handle that request
  ifaceValid,    \* m_interface->isValid()
  unregistering, \* m_isUnregistering
  refcount,      \* m_refcount
  views,         \* MenuViews -> "closed", "pending" (m_isPending), "waiting", "loaded"
  asks,          \* AboutToShow calls of addRef() without answer
  menuInbox,     \* messages of the application, in the order in which they are dispatched
  delayed,       \* parents of LayoutUpdated signals waiting for their zero timer
  known,         \* history: parents whose children were loaded, no refresh dropped or failed since
  changes        \* counts the changes, for MaxChanges

menuVars == <<app, appEnabled, menuItems, isEnabled, updating, sent, ifaceValid, unregistering,
              refcount, views, asks, menuInbox, delayed, known, changes>>
treeVars == <<menuItems, isEnabled>>
menuBusVars  == <<menuInbox, delayed>>
viewVars == <<refcount, views, asks>>
appVars  == <<app, appEnabled, changes>>

Unlimited == -1

Kids(ids, p) == {i \in ids : ParentOf[i] = p}

\* The ids below p, at any depth.
ClosedUnder(p, S) == \A i \in Ids : ParentOf[i] \in S \cup {p} => i \in S
Under(p) == {i \in Ids : \A S \in SUBSET Ids : ClosedUnder(p, S) => i \in S}

\* The ids are a tree below the root.
ASSUME TreeAssumption ==
  /\ 0 \notin Ids /\ ParentOf \in [Ids -> Ids \cup {0}]
  /\ \A p \in Ids : p \notin Under(p)
ASSUME ViewsAssumption == IsFiniteSet(MenuViews)

\* The ids whose presence a layout of p with this depth tells, and the parents it loads.
Region(p, depth) == IF depth = Unlimited THEN Under(p) ELSE Kids(Ids, p)
Loads(p, depth) == IF depth = Unlimited THEN {p} \cup Under(p) ELSE {p}

MenuInit ==
  /\ app = {i \in Ids : ParentOf[i] = 0}
  /\ appEnabled = [i \in Ids |-> TRUE]
  /\ menuItems = {}
  /\ isEnabled = [i \in Ids |-> TRUE]
  /\ updating = {<<0, 1>>}                    \* updateLayout(0, 1) of the constructor
  /\ sent = TRUE
  /\ ifaceValid = TRUE
  /\ unregistering = FALSE
  /\ refcount = 0
  /\ views = [v \in MenuViews |-> "closed"]
  /\ asks = 0
  /\ menuInbox = <<>> /\ delayed = <<>>
  /\ known = {}
  /\ changes = 0

-----------------------------------------------------------------------------
(* The application. *)

MayChange ==
  /\ ifaceValid
  /\ changes < MaxChanges
  /\ changes' = changes + 1
  /\ UNCHANGED <<treeVars, updating, sent, ifaceValid, unregistering, viewVars, delayed, known>>

AppAdds(i) ==
  /\ i \notin app
  /\ ParentOf[i] \in app \cup {0}
  /\ MayChange
  /\ app' = app \cup {i}
  /\ menuInbox' = Append(menuInbox, [kind |-> "layout", parent |-> ParentOf[i]])
  /\ UNCHANGED appEnabled

AppRemoves(i) ==
  /\ i \in app
  /\ MayChange
  /\ app' = app \ ({i} \cup Under(i))
  /\ menuInbox' = Append(menuInbox, [kind |-> "layout", parent |-> ParentOf[i]])
  /\ UNCHANGED appEnabled

\* ItemsPropertiesUpdated carries the one property that changed.
AppSets(i, key) ==
  /\ i \in app
  /\ MayChange
  /\ appEnabled' = IF key = "enabled" THEN [appEnabled EXCEPT ![i] = ~@] ELSE appEnabled
  /\ menuInbox' = Append(menuInbox, [kind |-> "props", id |-> i, key |-> key, value |-> appEnabled'[i]])
  /\ UNCHANGED app

\* GetLayout is answered with what the menu is now; an unknown parent is an error.
AppAnswers ==
  /\ ifaceValid /\ sent
  /\ sent' = FALSE
  /\ menuInbox' = Append(menuInbox, [kind |-> "reply",
                             error |-> \A u \in updating : u[1] \notin app \cup {0},
                             ids |-> app, props |-> appEnabled])
  /\ UNCHANGED <<appVars, treeVars, updating, ifaceValid, unregistering, viewVars, delayed, known>>

Failed == [kind |-> "reply", error |-> TRUE, ids |-> {}, props |-> appEnabled]

\* The application leaves the bus: a pending call fails.
AppLeaves ==
  /\ ifaceValid
  /\ ifaceValid' = FALSE
  /\ sent' = FALSE
  /\ menuInbox' = IF sent THEN Append(menuInbox, Failed) ELSE menuInbox
  /\ UNCHANGED <<appVars, treeVars, updating, unregistering, viewVars, delayed, known>>

\* The 500 ms of setTimeout() pass before the answer: QtDBus makes an error of its own.
TimesOut ==
  /\ ifaceValid /\ sent
  /\ sent' = FALSE
  /\ menuInbox' = Append(menuInbox, Failed)
  /\ UNCHANGED <<appVars, treeVars, updating, ifaceValid, unregistering, viewVars, delayed, known>>

-----------------------------------------------------------------------------
(* DBusMenuModel. *)

\* A refresh asked for while another is in flight is dropped.
UpdateLayout(p, depth) ==
  IF updating # {} \/ unregistering \/ ~ifaceValid
  THEN UNCHANGED <<updating, sent>> /\ known' = known \ Loads(p, depth)
  ELSE updating' = {<<p, depth>>} /\ sent' = TRUE /\ UNCHANGED known

\* handleUpdatePayload without removed names: what is not sent goes back to its default.
Payload(key, value) == key = "enabled" => value

\* A signal is dispatched.  That of a new layout only posts an event, with a zero timer.
TakeMenuMessage ==
  /\ menuInbox # <<>>
  /\ menuInbox' = Tail(menuInbox)
  /\ LET m == Head(menuInbox)
     IN  /\ m.kind # "reply"
         /\ delayed' = IF m.kind = "layout" THEN Append(delayed, m.parent) ELSE delayed
         /\ isEnabled' = IF m.kind = "props" /\ ~unregistering /\ m.id \in menuItems
                         THEN [isEnabled EXCEPT ![m.id] = Payload(m.key, m.value)]
                         ELSE isEnabled
  /\ UNCHANGED <<appVars, menuItems, updating, sent, ifaceValid, unregistering, viewVars, known>>

\* Mutant: an item goes without those below it.
MergedLeavesChildren(ids, p, depth) ==
  (menuItems \ (Region(p, depth) \ ids)) \cup (Region(p, depth) \cap ids)

\* updateLayoutRecursively and removeRecursively: in the region of the request the
\* items become those of the layout; an item that goes takes all below it along.
Merged(ids, p, depth) ==
  LET region == Region(p, depth)
      gone   == region \ ids
  IN  (menuItems \ (gone \cup UNION {Under(g) : g \in gone})) \cup (region \cap ids)

\* The finished() slot of updateLayout.  With an invalid interface m_isUpdating stays set.
LayoutReply ==
  /\ menuInbox # <<>>
  /\ menuInbox' = Tail(menuInbox)
  /\ LET r == Head(menuInbox)
         u == CHOOSE x \in updating : TRUE
         p == u[1]
         depth == u[2]
     IN  /\ r.kind = "reply"
         /\ updating' = IF ifaceValid THEN {} ELSE updating
         /\ \/ ~ifaceValid /\ UNCHANGED <<treeVars, known>>
            \/ /\ ifaceValid
               /\ r.error \/ p \notin menuItems \cup {0}
               /\ known' = known \ Loads(p, depth)
               /\ UNCHANGED treeVars
            \/ /\ ifaceValid
               /\ ~r.error /\ p \in menuItems \cup {0}
               /\ menuItems' = Merged(r.ids, p, depth)
               /\ isEnabled' = [i \in Ids |-> IF i \in Region(p, depth) \cap r.ids
                                              THEN r.props[i] ELSE isEnabled[i]]
               /\ known' = (known \cup Loads(p, depth)) \cap (menuItems' \cup {0})
  /\ UNCHANGED <<appVars, sent, ifaceValid, unregistering, viewVars, delayed>>

\* onLayoutUpdated and onDelayedLayoutUpdated.  The event is behind the messages that had
\* arrived with the signal; which of those still under way come before it, nothing says.
DelayedLayoutUpdated ==
  /\ delayed # <<>>
  /\ delayed' = Tail(delayed)
  /\ UpdateLayout(Head(delayed), Unlimited)
  /\ UNCHANGED <<appVars, treeVars, ifaceValid, unregistering, viewVars, menuInbox>>

\* The watcher of the tray sees the application leave.
PrepareMenuForUnregistration ==
  /\ ~ifaceValid /\ ~unregistering
  /\ unregistering' = TRUE
  /\ UNCHANGED <<appVars, treeVars, updating, sent, ifaceValid, viewVars, menuBusVars, known>>

-----------------------------------------------------------------------------
(* ScopedDBusMenuView, on the root: setModel() and setModelIndex() at creation. *)

ViewOpens(v) ==
  /\ views[v] = "closed"
  /\ asks < MaxAsks
  /\ refcount' = refcount + 1
  /\ asks' = IF refcount = 0 /\ ~unregistering THEN asks + 1 ELSE asks
  /\ views' = [views EXCEPT ![v] = "pending"]
  /\ UNCHANGED <<appVars, treeVars, updating, sent, ifaceValid, unregistering, menuBusVars, known>>

\* Only the first level stays.
CollapseToRoot == Kids(menuItems, 0)

ViewCloses(v) ==
  /\ views[v] # "closed"
  /\ refcount' = refcount - 1
  /\ views' = [views EXCEPT ![v] = "closed"]
  /\ menuItems' = IF refcount = 1 THEN CollapseToRoot ELSE menuItems
  /\ known' = IF refcount = 1 THEN known \cap {0} ELSE known
  /\ UNCHANGED <<appVars, isEnabled, updating, sent, ifaceValid, unregistering, asks, menuBusVars>>

\* prepareToShow(0, 1) of addRef is answered, with any outcome.
RefAnswered ==
  /\ asks > 0
  /\ asks' = asks - 1
  /\ IF unregistering THEN UNCHANGED <<updating, sent, known>> ELSE UpdateLayout(0, 1)
  /\ UNCHANGED <<appVars, treeVars, ifaceValid, unregistering, refcount, views, menuBusVars>>

\* prepareToShowWithCallback of a view is answered; an error counts as "update needed",
\* and then the view waits for layoutUpdated(), which nothing emits.
ViewAnswered(v) ==
  /\ views[v] = "pending"
  /\ ~unregistering
  /\ UpdateLayout(0, Unlimited)
  /\ \E shouldUpdate \in BOOLEAN :
        views' = [views EXCEPT ![v] = IF shouldUpdate THEN "waiting" ELSE "loaded"]
  /\ UNCHANGED <<appVars, treeVars, ifaceValid, unregistering, refcount, asks, menuBusVars>>

MenuNext ==
  \/ \E i \in Ids : AppAdds(i) \/ AppRemoves(i) \/ \E key \in {"enabled", "other"} : AppSets(i, key)
  \/ AppAnswers \/ AppLeaves \/ TimesOut
  \/ TakeMenuMessage \/ LayoutReply \/ DelayedLayoutUpdated \/ PrepareMenuForUnregistration
  \/ \E v \in MenuViews : ViewOpens(v) \/ ViewCloses(v) \/ ViewAnswered(v)
  \/ RefAnswered

MenuSpec == MenuInit /\ [][MenuNext]_menuVars

-----------------------------------------------------------------------------
MenuTypeOK ==
  /\ app \subseteq Ids /\ menuItems \subseteq Ids
  /\ appEnabled \in [Ids -> BOOLEAN] /\ isEnabled \in [Ids -> BOOLEAN]
  /\ updating \subseteq (Ids \cup {0}) \X {1, Unlimited}
  /\ refcount \in Nat
  /\ views \in [MenuViews -> {"closed", "pending", "waiting", "loaded"}]

\* Nothing is on its way that could still change the model.
MenuQuiet == /\ ifaceValid /\ ~unregistering /\ updating = {} /\ asks = 0
             /\ menuInbox = <<>> /\ delayed = <<>>
             /\ \A v \in MenuViews : views[v] # "pending"

(* The model is a tree (no item outlives its parent), its references are   *)
(* the views that show it, and once nothing is on its way, the children of *)
(* every loaded parent are the application's: a LayoutUpdated dropped      *)
(* because a request for the same part was in flight is covered by the     *)
(* answer to it.                                                           *)
MenuAgrees ==
  /\ MenuTypeOK
  /\ \A i \in menuItems : ParentOf[i] \in menuItems \cup {0}
  /\ refcount = Cardinality({v \in MenuViews : views[v] # "closed"})
  /\ MenuQuiet => \A p \in known \cap (app \cup {0}) : Kids(menuItems, p) = Kids(app, p)
=============================================================================
