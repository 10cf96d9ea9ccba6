------------------------------ MODULE Toplevels ------------------------------
(***************************************************************************)
(* The list of open windows the shell shows under Hyprland, put together   *)
(* from three channels that nothing orders among themselves: Wayland (the  *)
(* wlr and ext toplevel handles, and the address of the window each stands *)
(* for), the event socket of Hyprland (windows opened, moved, focused) and *)
(* the answers to its "clients" request.                                   *)
(*                                                                         *)
(* A window keeps one name here, its handles and its address being three   *)
(* ways to say it; an address is not used again after its window closes.   *)
(* The shell has connected before the first window is announced.           *)
(***************************************************************************)
EXTENDS Integers, SequencesExt

CONSTANTS Windows,      \* addresses of windows
          Spaces,       \* ids of workspaces
          Searches,     \* the titles a search string may match: sets of windows
          NoWindow,     \* no window: no active entry in the list, no address
          Leftovers,    \* what the memory of a new instance may hold: addresses, or none
          MaxTopSteps   \* bound on what the user and Hyprland do

ASSUME TopAssumption == /\ NoWindow \notin Windows
                        /\ Spaces \subseteq Nat \ {0}
                        /\ Searches \subseteq SUBSET Windows
                        /\ Leftovers \subseteq Windows \cup {NoWindow}

VARIABLES
  home,       \* Hyprland: the workspace of each window, 0 when it is not open
  focused,    \* Hyprland: the window that has, or was the last to have, the focus
  inFocus,    \* Hyprland: whether it still has it
  topSteps,   \* steps of the user and of Hyprland so far
  topEvents,  \* lines on the event socket
  wlQueue,    \* Wayland events for the shell
  mapAsks,    \* mapping requests on their way to Hyprland
  clients,    \* the one "clients" request and its answer
  instances,  \* m_allTopLevels: windows that have a ToplevelInstance
  leftover,   \* what lies in the m_address of each, which no constructor sets,
              \* until an address is set
  addresses,  \* m_addresses: wlr handles whose address is known
  extWaiting, \* m_pendingMappings: ext handles whose wlr handle is not known
  extOf,      \* wlr handles that know their ext handle
  wid,        \* m_workspaceId of each instance
  opening,    \* m_pendingAssignments: address |-> workspaceId
  announced,      \* m_readyToplevels
  items,      \* m_filteredToplevels
  search,     \* m_searchQuery, as the windows it matches
  activeTop,  \* m_activeToplevel
  itemsSeen,  \* what QML read of items at the last itemsChanged
  following,  \* instances connected to waylandExtHandleChanged
  extSeen,    \* windows whose waylandHandle QML has read as not null
  outrun      \* history: windows whose last move no event and no answer told

\* HyprlandToplevelMappingManager; ToplevelInstance; ToplevelModel.
mappingVars == <<addresses, extWaiting, extOf>>
instanceVars == <<leftover, wid, following, extSeen>>
listVars == <<instances, opening, announced, items, search, activeTop, itemsSeen>>
shellTops == <<mappingVars, instanceVars, listVars>>
topVars == <<home, focused, inFocus, topSteps, topEvents, wlQueue, mapAsks, clients,
             shellTops, outrun>>

Open == {w \in Windows : home[w] # 0}
Ready == ToSet(announced)
Nothing == [w \in {} |-> 0]
WithOpening(w, s) == [v \in DOMAIN opening \cup {w} |-> IF v = w THEN s ELSE opening[v]]
Idle == [is |-> "idle", of |-> Nothing]

TopInit ==
  /\ home = [w \in Windows |-> 0] /\ focused = NoWindow /\ inFocus = FALSE /\ topSteps = 0
  /\ topEvents = <<>> /\ wlQueue = <<>> /\ mapAsks = <<>> /\ clients = Idle
  /\ instances = {} /\ addresses = {} /\ extWaiting = {} /\ extOf = {}
  /\ leftover = [w \in Windows |-> NoWindow]
  /\ wid = [w \in Windows |-> -1] /\ opening = Nothing
  /\ announced = <<>> /\ items = <<>> /\ search = Windows
  /\ activeTop = NoWindow /\ itemsSeen = {} /\ following = {} /\ extSeen = {}
  /\ outrun = {}

-----------------------------------------------------------------------------
(* Hyprland and its user *)

Line(k, w, s) == [kind |-> k, win |-> w, space |-> s]
Msg(k, w) == [kind |-> k, win |-> w]
TopStep == topSteps < MaxTopSteps /\ topSteps' = topSteps + 1

\* A window opens once; its two handles are announced in either order.
WindowOpens(w, s) ==
  /\ TopStep /\ home[w] = 0 /\ wid[w] = -1
  /\ w \notin instances /\ ~\E i \in DOMAIN wlQueue : wlQueue[i].win = w
  /\ home' = [home EXCEPT ![w] = s]
  /\ topEvents' = Append(topEvents, Line("openwindow", w, s))
  /\ \/ wlQueue' = wlQueue \o <<Msg("wlr", w), Msg("ext", w)>>
     \/ wlQueue' = wlQueue \o <<Msg("ext", w), Msg("wlr", w)>>
  /\ UNCHANGED <<focused, inFocus, mapAsks, clients, shellTops, outrun>>

WindowMoves(w, s) ==
  /\ TopStep /\ w \in Open /\ home[w] # s
  /\ home' = [home EXCEPT ![w] = s]
  /\ topEvents' = Append(topEvents, Line("movewindowv2", w, s))
  /\ UNCHANGED <<focused, inFocus, wlQueue, mapAsks, clients, shellTops, outrun>>

WindowFocused(w) ==
  /\ TopStep /\ w \in Open /\ ~(inFocus /\ w = focused)
  /\ focused' = w /\ inFocus' = TRUE
  /\ topEvents' = Append(topEvents, Line("activewindowv2", w, 0))
  /\ UNCHANGED <<home, wlQueue, mapAsks, clients, shellTops, outrun>>

\* No window has the focus: an empty workspace is shown, or a layer of the shell takes it.
FocusLeaves ==
  /\ TopStep /\ inFocus
  /\ inFocus' = FALSE
  /\ topEvents' = Append(topEvents, Line("activewindowv2", NoWindow, 0))
  /\ UNCHANGED <<home, focused, wlQueue, mapAsks, clients, shellTops, outrun>>

\* Both handles of the window are closed, and it has the focus no longer.
WindowCloses(w) ==
  /\ TopStep /\ w \in Open
  /\ home' = [home EXCEPT ![w] = 0]
  /\ inFocus' = (inFocus /\ focused # w)
  /\ topEvents' = IF inFocus /\ focused = w
                  THEN Append(topEvents, Line("activewindowv2", NoWindow, 0))
                  ELSE topEvents
  /\ wlQueue' = wlQueue \o <<Msg("extClosed", w), Msg("closed", w)>>
  /\ UNCHANGED <<focused, mapAsks, clients, shellTops, outrun>>

\* The address of a window that is still open, or "failed", which the shell ignores.
MapAnswered ==
  /\ mapAsks # <<>>
  /\ mapAsks' = Tail(mapAsks)
  /\ LET ask == Head(mapAsks)
     IN wlQueue' = IF ask.win \in Open THEN Append(wlQueue, ask) ELSE wlQueue
  /\ UNCHANGED <<home, focused, inFocus, topSteps, topEvents, clients, shellTops, outrun>>

ClientsAnswered ==
  /\ clients.is = "asked"
  /\ clients' = [is |-> "answered", of |-> [w \in Open |-> home[w]]]
  /\ UNCHANGED <<home, focused, inFocus, topSteps, topEvents, wlQueue, mapAsks, shellTops,
                 outrun>>

-----------------------------------------------------------------------------
(* Wayland: the managers and the mapping *)

\* queryHyprClients: one request at a time; one made meanwhile is dropped.
QueryHyprClients == clients' = IF clients = Idle THEN [Idle EXCEPT !.is = "asked"] ELSE clients

\* Those of the list that match, in its order.
Filtered(list, q) ==
  LET found == ToSet(list) \cap q
  IN CHOOSE r \in [1..Cardinality(found) -> found] :
       \A i, j \in DOMAIN r : i < j =>
         \E k, l \in DOMAIN list : k < l /\ list[k] = r[i] /\ list[l] = r[j]

\* The list changes to r; QML reads items again if the filtered list changed.
ListBecomes(r) ==
  /\ announced' = r
  /\ items' = Filtered(r, search)
  /\ itemsSeen' = IF items' = items THEN itemsSeen ELSE ToSet(items')

\* m_address of the instance of w: set with the address, and until then what lay there.
AddressOf(w) == IF w \in addresses THEN w ELSE leftover[w]

\* Instances whose memory held their own address: they take it for known, and never
\* become ready.
Garbled == {w \in Windows : leftover[w] = w}

\* onToplevelReady and onWlExtToplevelReady of the mapping manager.
AskAddress(kind, w) == mapAsks' = Append(mapAsks, Msg(kind, w))

ToplevelReady ==
  /\ wlQueue # <<>> /\ Head(wlQueue).kind = "wlr"
  /\ LET w == Head(wlQueue).win
     IN /\ instances' = instances \cup {w}
        /\ \E a \in Leftovers : leftover' = [leftover EXCEPT ![w] = a]
        /\ AskAddress("address", w)
  /\ wlQueue' = Tail(wlQueue)
  /\ QueryHyprClients
  /\ UNCHANGED <<home, focused, inFocus, topSteps, topEvents, addresses, extWaiting, extOf,
                 wid, opening, announced, items, search, activeTop, itemsSeen,
                 following, extSeen, outrun>>

ExtToplevelReady ==
  /\ wlQueue # <<>> /\ Head(wlQueue).kind = "ext"
  /\ AskAddress("extAddress", Head(wlQueue).win)
  /\ wlQueue' = Tail(wlQueue)
  /\ UNCHANGED <<home, focused, inFocus, topSteps, topEvents, clients, shellTops, outrun>>

\* handlePendingAssignments, with the handle of w known: every pending window that has a
\* handle gets the workspace that waits for it.
PendingAssigned(w) ==
  LET assigned == DOMAIN opening \cap (addresses \cup {w})
  IN /\ wid' = [v \in Windows |-> IF v \in assigned /\ opening[v] # -1 THEN opening[v] ELSE wid[v]]
     /\ opening' = [v \in DOMAIN opening \ assigned |-> opening[v]]

\* toplevelAddressed: handlePendingAssignments is the first slot; when it knows the window,
\* setAddress makes the instance ready and cuts it off from the mapping, so that
\* onHyprAddress does not run. Both return early if m_address is the address already.
InstanceReady(w) ==
  /\ ListBecomes(Append(announced, w))
  /\ following' = IF w \in DOMAIN opening THEN following ELSE following \cup {w}

AssignAddressWlr ==
  /\ wlQueue # <<>> /\ Head(wlQueue).kind = "address"
  /\ LET w == Head(wlQueue).win
         hasExt == w \in extOf \cup extWaiting
     IN /\ addresses' = addresses \cup {w}
        /\ extWaiting' = extWaiting \ {w}
        /\ extOf' = IF hasExt THEN extOf \cup {w} ELSE extOf
        /\ extSeen' = IF hasExt /\ w \notin Garbled THEN extSeen \cup {w} ELSE extSeen
        /\ PendingAssigned(w)
        /\ leftover' = IF w \in Garbled THEN leftover ELSE [leftover EXCEPT ![w] = NoWindow]
        /\ IF w \in Garbled THEN UNCHANGED <<announced, items, itemsSeen, following>>
                            ELSE InstanceReady(w)
  /\ wlQueue' = Tail(wlQueue)
  /\ UNCHANGED <<home, focused, inFocus, topSteps, topEvents, mapAsks, clients, instances,
                 search, activeTop, outrun>>

AssignAddressWlExt ==
  /\ wlQueue # <<>> /\ Head(wlQueue).kind = "extAddress"
  /\ LET w == Head(wlQueue).win
     IN IF w \in addresses
        THEN /\ extOf' = extOf \cup {w}
             /\ extSeen' = IF w \in following THEN extSeen \cup {w} ELSE extSeen
             /\ UNCHANGED extWaiting
        ELSE /\ extWaiting' = extWaiting \cup {w}
             /\ UNCHANGED <<extOf, extSeen>>
  /\ wlQueue' = Tail(wlQueue)
  /\ UNCHANGED <<home, focused, inFocus, topSteps, topEvents, mapAsks, clients, instances,
                 addresses, leftover, wid, opening, announced, items, search, activeTop, itemsSeen,
                 following, outrun>>

ExtClosed ==
  /\ wlQueue # <<>> /\ Head(wlQueue).kind = "extClosed"
  /\ LET w == Head(wlQueue).win
     IN extWaiting' = extWaiting \ {w} /\ extOf' = extOf \ {w} /\ extSeen' = extSeen \ {w}
  /\ wlQueue' = Tail(wlQueue)
  /\ UNCHANGED <<home, focused, inFocus, topSteps, topEvents, mapAsks, clients, instances,
                 addresses, leftover, wid, opening, announced, items, search, activeTop, itemsSeen,
                 following, outrun>>

\* onToplevelClosed: an instance that is ready leaves every list and is deleted; one
\* that is not stays in m_allTopLevels. removeInstance takes the window out of the
\* filtered list before it compares, so QML is not told.
ToplevelClosed ==
  /\ wlQueue # <<>> /\ Head(wlQueue).kind = "closed"
  /\ LET w == Head(wlQueue).win
     IN /\ addresses' = addresses \ {w}
        /\ IF w \in Ready
           THEN /\ announced' = RemoveFirst(announced, w) /\ items' = RemoveFirst(items, w)
                /\ instances' = instances \ {w}
                /\ activeTop' = IF activeTop = w THEN NoWindow ELSE activeTop
           ELSE UNCHANGED <<announced, items, instances, activeTop>>
        /\ wid' = [wid EXCEPT ![w] = 0]
        /\ outrun' = outrun \ {w}
        /\ following' = following \ {w}
  /\ wlQueue' = Tail(wlQueue)
  /\ QueryHyprClients
  /\ UNCHANGED <<home, focused, inFocus, topSteps, topEvents, mapAsks, extWaiting, extOf,
                 leftover, opening, search, itemsSeen, extSeen>>

-----------------------------------------------------------------------------
(* The event socket and the clients request *)

\* Mutant: a window that was announced before it is ready forgets its workspace.
OnHyprWindowOpenedForgets ==
  /\ topEvents # <<>> /\ Head(topEvents).kind = "openwindow"
  /\ LET e == Head(topEvents)
     IN /\ wid' = IF e.win \in Ready THEN [wid EXCEPT ![e.win] = e.space] ELSE wid
        /\ opening' = IF e.win \in Ready THEN opening ELSE WithOpening(e.win, -1)
  /\ topEvents' = Tail(topEvents)
  /\ UNCHANGED <<home, focused, inFocus, topSteps, wlQueue, mapAsks, clients, instances,
                 addresses, extWaiting, extOf, leftover, announced, items, search, activeTop,
                 itemsSeen, following, extSeen, outrun>>

OnHyprWindowOpened ==
  /\ topEvents # <<>> /\ Head(topEvents).kind = "openwindow"
  /\ LET e == Head(topEvents)
     IN IF e.win \in Ready
        THEN wid' = [wid EXCEPT ![e.win] = e.space] /\ UNCHANGED opening
        ELSE opening' = WithOpening(e.win, e.space) /\ UNCHANGED wid
  /\ topEvents' = Tail(topEvents)
  /\ UNCHANGED <<home, focused, inFocus, topSteps, wlQueue, mapAsks, clients, instances,
                 addresses, extWaiting, extOf, leftover, announced, items, search, activeTop,
                 itemsSeen, following, extSeen, outrun>>

\* A move of a window that is not ready yet is ignored.
OnWindowMoveWorkspace ==
  /\ topEvents # <<>> /\ Head(topEvents).kind = "movewindowv2"
  /\ LET e == Head(topEvents)
     IN IF e.win \in Ready
        THEN wid' = [wid EXCEPT ![e.win] = e.space] /\ outrun' = outrun \ {e.win}
        ELSE outrun' = outrun \cup {e.win} /\ UNCHANGED wid
  /\ topEvents' = Tail(topEvents)
  /\ UNCHANGED <<home, focused, inFocus, topSteps, wlQueue, mapAsks, clients, instances,
                 addresses, extWaiting, extOf, leftover, opening, announced, items, search,
                 activeTop, itemsSeen, following, extSeen>>

ToFront(list, w) == IF Contains(list, w) THEN InsertAt(RemoveFirst(list, w), 1, w) ELSE list

\* The active window goes to the front of both lists, without a signal; one that is
\* not ready leaves no window active, and becoming ready does not make it active.
OnAddressActivated ==
  /\ topEvents # <<>> /\ Head(topEvents).kind = "activewindowv2"
  /\ LET w == Head(topEvents).win
     IN /\ w # NoWindow
        /\ activeTop' = IF w \in Ready THEN w ELSE NoWindow
        /\ announced' = ToFront(announced, w)
        /\ items' = ToFront(items, w)
  /\ topEvents' = Tail(topEvents)
  /\ UNCHANGED <<home, focused, inFocus, topSteps, wlQueue, mapAsks, clients, instances,
                 addresses, extWaiting, extOf, wid, leftover, opening, search, itemsSeen,
                 following, extSeen, outrun>>

\* A line without an address is no number: dispatchEvent drops it.
DropActivation ==
  /\ topEvents # <<>> /\ Head(topEvents).kind = "activewindowv2" /\ Head(topEvents).win = NoWindow
  /\ topEvents' = Tail(topEvents)
  /\ UNCHANGED <<home, focused, inFocus, topSteps, wlQueue, mapAsks, clients, shellTops, outrun>>

\* A move of w whose event is still to come.
MoveUnderWay(w) == \E i \in DOMAIN topEvents :
                     topEvents[i].win = w /\ topEvents[i].kind # "activewindowv2"

\* The instances an answer finds: for every address the first that has it, whoever it is.
Holders(addr) == {v \in instances : AddressOf(v) = addr}
FoundFor(told) == {f \in SUBSET instances :
                     /\ \A v \in f : AddressOf(v) \in told
                     /\ \A addr \in told : Holders(addr) # {} => \E v \in f : f \cap Holders(addr) = {v}}

\* handleHyprClientsPayload: the instance found for the address of a window gets its
\* workspace; addresses without one wait for their handle. The answer may be older than
\* events already applied, which it undoes.
HandleHyprClientsPayload ==
  /\ clients.is = "answered"
  /\ LET told == clients.of
         late == {w \in DOMAIN told \ DOMAIN opening : Holders(w) = {}}
     IN \E found \in FoundFor(DOMAIN told) :
        /\ wid' = [v \in Windows |-> IF v \in found THEN told[AddressOf(v)] ELSE wid[v]]
        /\ opening' = [w \in DOMAIN opening \cup late |-> IF w \in late THEN -1 ELSE opening[w]]
        /\ outrun' = (outrun \ (found \cap addresses))
             \cup {w \in found \cap addresses : told[w] # home[w] /\ ~MoveUnderWay(w)}
  /\ clients' = Idle
  /\ UNCHANGED <<home, focused, inFocus, topSteps, topEvents, wlQueue, mapAsks, instances,
                 addresses, extWaiting, extOf, leftover, announced, items, search, activeTop,
                 itemsSeen, following, extSeen>>

\* The socket reports an error: the payload is empty, the request is forgotten.
ClientsFailed ==
  /\ clients # Idle /\ clients' = Idle
  /\ UNCHANGED <<home, focused, inFocus, topSteps, topEvents, wlQueue, mapAsks, shellTops,
                 outrun>>

SetSearchQuery(q) ==
  /\ TopStep /\ q # search
  /\ search' = q
  /\ items' = Filtered(announced, q)
  /\ itemsSeen' = IF items' = items THEN itemsSeen ELSE ToSet(items')
  /\ UNCHANGED <<home, focused, inFocus, topEvents, wlQueue, mapAsks, clients, instances,
                 addresses, extWaiting, extOf, leftover, wid, opening, announced, activeTop,
                 following, extSeen, outrun>>

TopNext ==
  \/ \E w \in Windows, s \in Spaces : WindowOpens(w, s) \/ WindowMoves(w, s)
  \/ \E w \in Windows : WindowFocused(w) \/ WindowCloses(w)
  \/ FocusLeaves
  \/ \E q \in Searches : SetSearchQuery(q)
  \/ MapAnswered \/ ClientsAnswered \/ ClientsFailed
  \/ ToplevelReady \/ ExtToplevelReady \/ AssignAddressWlr \/ AssignAddressWlExt
  \/ ExtClosed \/ ToplevelClosed
  \/ OnHyprWindowOpened \/ OnWindowMoveWorkspace \/ OnAddressActivated \/ DropActivation
  \/ HandleHyprClientsPayload

TopSpec == TopInit /\ [][TopNext]_topVars

-----------------------------------------------------------------------------
TopQuiet == /\ topEvents = <<>> /\ wlQueue = <<>> /\ mapAsks = <<>>
            /\ clients = Idle

(***************************************************************************)
(* Whatever the order in which the three channels are read, once they are  *)
(* empty the list holds every open window once, each with the handle of    *)
(* the other protocol and on the workspace Hyprland has it on, unless its  *)
(* last move was told before it was ready or undone by an older answer, or *)
(* its instance was made where its own address was left in memory; the     *)
(* active entry, if any, is the window that has, or was the last to have,  *)
(* the focus. At every moment the filtered list is the filter of the full  *)
(* one, QML misses no entry of it, and it has the ext handle of every      *)
(* entry that follows its changes.                                         *)
(***************************************************************************)
ToplevelsAgree ==
  /\ IsInjective(announced) /\ items = Filtered(announced, search)
  /\ ToSet(items) \subseteq itemsSeen
  /\ Ready \subseteq instances /\ Ready = addresses \ Garbled
  /\ Ready \cap following \cap extOf \subseteq extSeen
  /\ TopQuiet => /\ Ready = Open \ Garbled
                 /\ Open \subseteq extOf
                 /\ \A w \in Open \ (outrun \cup Garbled) : wid[w] = home[w]
                 /\ activeTop \in {NoWindow, focused}
=============================================================================
