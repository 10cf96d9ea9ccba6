----------------------------- MODULE SystemTray -----------------------------
(***************************************************************************)
(* The system tray: StatusNotifierWatcher, which keeps the list of items   *)
(* for every host on the bus, and StatusNotifierHost, which shows them.    *)
(* Both live in this process and talk to each other through the bus, so    *)
(* that the host can follow the watcher of another shell as well.          *)
(***************************************************************************)
EXTENDS Naturals, Sequences, SequencesExt, FiniteSets

CONSTANTS
  Services,       \* bus names of applications
  Items,          \* item ids, each "service/path"
  ServiceOf,      \* the service of an item
  ServicePrefix,  \* pairs of services whose first name is a prefix of the second
  ItemPrefix,     \* the same of item ids
  MenuItems,      \* items that have a menu
  HostServices,   \* services that register as a host
  MaxTraffic      \* bound: the environment acts while fewer messages are on their way

ASSUME ServiceOfAssumption == ServiceOf \in [Items -> Services] /\ IsFiniteSet(Items)
ASSUME SubsetAssumption == MenuItems \subseteq Items /\ HostServices \subseteq Services
\* No bus name has a "/" in it, so that an id that starts with another is of the same service.
ASSUME PrefixAssumption ==
  /\ ServicePrefix \subseteq Services \X Services /\ ItemPrefix \subseteq Items \X Items
  /\ \A i, j \in Items : <<i, j>> \in ItemPrefix => ServiceOf[i] = ServiceOf[j]

VARIABLES
  alive,      \* services with an owner on the bus
  owner,      \* of org.kde.StatusNotifierWatcher: "us", "other", "none"
  otherItems, \* items of the other shell's watcher
  asked,      \* a read of the other watcher's list is under way
  handed,     \* history: the name went from one of the other shells to the next
  items,      \* StatusNotifierWatcher::m_items
  hosts,      \* StatusNotifierWatcher::m_hosts without our own
  watches,    \* services m_serviceWatcher of the watcher watches
  hostItems,  \* keys of StatusNotifierHost::m_items, which SystemTrayQML shows
  inbox,      \* messages to this process, in the order they are dispatched
  outbox,     \* messages of this process the bus has not taken yet
  matched,    \* services whose match rule the bus has
  crashed,    \* a null menu handle was dereferenced
  missed      \* history: left between serviceOwner() and the match rule

envVars == <<alive, owner, otherItems, asked, handed>>
ourVars == <<items, hosts, watches, hostItems>>
busVars == <<inbox, outbox, matched>>
trayVars == <<envVars, ourVars, busVars, crashed, missed>>

Msg(type, of) == [type |-> type, of |-> of]
NoArg == {}
Waiting(type, of) == Contains(inbox, Msg(type, of))
ItemsOf(s) == {i \in Items : ServiceOf[i] = s}

\* item.startsWith(service), and name.startsWith(item)
StartsWithService(i, s) == ServiceOf[i] = s \/ <<s, ServiceOf[i]>> \in ServicePrefix
StartsWithItem(i, j)    == i = j \/ <<j, i>> \in ItemPrefix

(***************************************************************************)
(* The first process of the session owns the name; this one may find it    *)
(* taken, and then reads the list it finds there.                          *)
(***************************************************************************)
Init ==
  /\ alive \in SUBSET Services
  /\ \/ owner = "us" /\ otherItems = {} /\ asked = FALSE
     \/ owner = "other" /\ asked = TRUE /\ otherItems \in SUBSET {i \in Items : ServiceOf[i] \in alive}
  /\ handed = FALSE
  /\ items = <<>> /\ hosts = {} /\ watches = {} /\ hostItems = {}
  /\ inbox = <<>> /\ outbox = <<>> /\ matched = {}
  /\ crashed = FALSE /\ missed = {}

-----------------------------------------------------------------------------
(***************************************************************************)
(* The rest of the bus.                                                    *)
(***************************************************************************)
Room == Len(inbox) + Len(outbox) < MaxTraffic

AppStarts(s) ==
  /\ Room /\ s \notin alive /\ alive' = alive \cup {s}
  /\ UNCHANGED <<owner, otherItems, asked, handed, ourVars, busVars, crashed, missed>>

\* The calls go to the process that owns the watcher's name now.
AppCalls(i) ==
  /\ Room /\ ServiceOf[i] \in alive
  /\ \/ owner = "us" /\ inbox' = Append(inbox, Msg("call", i)) /\ UNCHANGED otherItems
     \/ /\ owner = "other" /\ i \notin otherItems
        /\ otherItems' = otherItems \cup {i} /\ inbox' = Append(inbox, Msg("reg", i))
  /\ UNCHANGED <<alive, owner, asked, handed, ourVars, outbox, matched, crashed, missed>>

AppCallsHost(s) ==
  /\ Room /\ s \in alive \cap HostServices /\ owner = "us"
  /\ inbox' = Append(inbox, Msg("host", s))
  /\ UNCHANGED <<envVars, ourVars, outbox, matched, crashed, missed>>

\* The bus tells whoever has a match rule; another watcher drops the items at once.
AppExits(s) ==
  /\ Room /\ s \in alive /\ alive' = alive \ {s}
  /\ LET dropped == otherItems \cap ItemsOf(s)
     IN /\ otherItems' = otherItems \ dropped
        /\ inbox' = inbox \o (IF s \in matched THEN <<Msg("gone", s)>> ELSE <<>>)
                          \o SetToSeq({Msg("unreg", i) : i \in dropped})
  /\ missed' = missed \cup ({s} \cap (watches \ matched))
  /\ UNCHANGED <<owner, asked, handed, ourVars, outbox, matched, crashed>>

OtherReplies ==
  /\ asked /\ asked' = FALSE
  /\ inbox' = Append(inbox, Msg("list", otherItems))
  /\ UNCHANGED <<alive, owner, otherItems, handed, ourVars, outbox, matched, crashed, missed>>

\* A pending read ends with an error, which the host only logs.
OtherExits ==
  /\ Room /\ owner = "other" /\ owner' = "none" /\ otherItems' = {} /\ asked' = FALSE
  /\ handed' = FALSE
  /\ inbox' = Append(inbox, Msg("lost", NoArg))
  /\ UNCHANGED <<alive, ourVars, outbox, matched, crashed, missed>>

\* The next in the queue for the name has it at once: QDBusServiceWatcher tells of a name
\* that gets an owner or loses the last one, not of this. Its list is empty at first.
OtherHandsOver ==
  /\ Room /\ owner = "other" /\ otherItems' = {} /\ asked' = FALSE
  /\ handed' = TRUE
  /\ UNCHANGED <<alive, owner, ourVars, busVars, crashed, missed>>

\* A third shell can be faster than tryRegister().
OtherStarts ==
  /\ Room /\ owner = "none" /\ owner' = "other"
  /\ inbox' = Append(inbox, Msg("new", NoArg))
  /\ UNCHANGED <<alive, otherItems, asked, handed, ourVars, outbox, matched, crashed, missed>>

\* The bus takes what this process has sent: match rules, and signals, which
\* come back to the host.
BusTakes ==
  /\ outbox # <<>> /\ outbox' = Tail(outbox)
  /\ LET m == Head(outbox)
     IN \/ m.type = "watch" /\ matched' = matched \cup {m.of} /\ UNCHANGED inbox
        \/ m.type = "unwatch" /\ matched' = matched \ {m.of} /\ UNCHANGED inbox
        \/ m.type \in {"reg", "unreg"} /\ inbox' = Append(inbox, m) /\ UNCHANGED matched
  /\ UNCHANGED <<envVars, ourVars, crashed, missed>>

-----------------------------------------------------------------------------
(***************************************************************************)
(* StatusNotifierWatcher                                                   *)
(***************************************************************************)
Take(type, of) ==
  /\ inbox # <<>> /\ Head(inbox) = Msg(type, of)
  /\ inbox' = Tail(inbox)

\* addWatchedService: the match rule is sent, not awaited.
Watch(s, signals) ==
  /\ watches' = watches \cup {s}
  /\ outbox' = outbox \o (IF s \in watches THEN <<>> ELSE <<Msg("watch", s)>>) \o signals

\* Mutant: the service of an item is not watched.
HandleCallUnwatched(i) ==
  /\ Take("call", i)
  /\ IF Contains(items, i) \/ ServiceOf[i] \notin alive
     THEN UNCHANGED <<items, outbox>>
     ELSE items' = Append(items, i) /\ outbox' = Append(outbox, Msg("reg", i))
  /\ UNCHANGED <<envVars, hosts, watches, hostItems, matched, crashed, missed>>

\* RegisterStatusNotifierItem
HandleCall(i) ==
  LET s == ServiceOf[i]
  IN /\ Take("call", i)
     /\ IF Contains(items, i) \/ s \notin alive
        THEN UNCHANGED <<items, watches, outbox>>
        ELSE /\ Watch(s, <<Msg("reg", i)>>)
             /\ items' = Append(items, i)
     /\ UNCHANGED <<envVars, hosts, hostItems, matched, crashed, missed>>

\* RegisterStatusNotifierHost
HandleHost(s) ==
  /\ Take("host", s)
  /\ IF s \in hosts \/ s \notin alive
     THEN UNCHANGED <<hosts, watches, outbox>>
     ELSE /\ Watch(s, <<>>)
          /\ hosts' = hosts \cup {s}
  /\ UNCHANGED <<envVars, items, hostItems, matched, crashed, missed>>

\* StatusNotifierHost::prepareForUnregistration: any item of the hash whose id
\* starts with the name; its menu handle is used without a check.
PrepareForUnregistration(s) ==
  LET named == {i \in hostItems : StartsWithService(i, s)}
  IN \/ named = {} /\ UNCHANGED crashed
     \/ \E i \in named : crashed' = (i \notin MenuItems)

\* Mutant: the host is not told.
UnregisterSilently(s) ==
  LET k == SelectInSeq(items, LAMBDA i : StartsWithService(i, s))
  IN /\ items' = IF k # 0 THEN RemoveAt(items, k) ELSE items
     /\ outbox' = Append(outbox, Msg("unwatch", s))
     /\ UNCHANGED <<hosts, crashed>>

\* The branches of onServiceUnregistered: the first item with that prefix,
\* or else the host of that name.
Unregister(s) ==
  LET k == SelectInSeq(items, LAMBDA i : StartsWithService(i, s))
  IN \/ /\ k # 0
        /\ PrepareForUnregistration(s)
        /\ items' = RemoveAt(items, k)
        /\ outbox' = outbox \o <<Msg("unreg", items[k]), Msg("unwatch", s)>>
        /\ UNCHANGED hosts
     \/ /\ k = 0
        /\ hosts' = hosts \ {s}
        /\ outbox' = Append(outbox, Msg("unwatch", s))
        /\ UNCHANGED <<items, crashed>>

\* onServiceUnregistered of a service; a late signal of a rule that was
\* removed meanwhile is not delivered.
HandleGone(s) ==
  /\ Take("gone", s)
  /\ IF s \in watches
     THEN /\ Unregister(s)
          /\ watches' = watches \ {s}
          /\ missed' = missed \ {s}
     ELSE UNCHANGED <<items, hosts, outbox, watches, crashed, missed>>
  /\ UNCHANGED <<envVars, hostItems, matched>>

\* Mutant: nobody tries to get the name.
TryRegisterNot == inbox' = Tail(inbox) /\ UNCHANGED owner

\* tryRegister
TryRegister ==
  IF owner = "none" THEN owner' = "us" /\ inbox' = Append(Tail(inbox), Msg("new", NoArg))
                    ELSE inbox' = Tail(inbox) /\ UNCHANGED owner

\* Mutant: the host keeps the items of the watcher that left.
HandleLostKeepsItems ==
  /\ inbox # <<>> /\ Head(inbox) = Msg("lost", NoArg)
  /\ TryRegister
  /\ UNCHANGED <<alive, otherItems, asked, handed, ourVars, outbox, matched, crashed, missed>>

\* The name of the watcher was lost by another process: our watcher tries to
\* get it, our host drops what it shows.
HandleLost ==
  /\ inbox # <<>> /\ Head(inbox) = Msg("lost", NoArg)
  /\ TryRegister
  /\ hostItems' = {}
  /\ UNCHANGED <<alive, otherItems, asked, handed, items, hosts, watches, outbox, matched, crashed, missed>>

-----------------------------------------------------------------------------
(***************************************************************************)
(* StatusNotifierHost                                                      *)
(***************************************************************************)
\* onItemRegistered: an item whose service has left is not valid.
Shown(is) == hostItems \cup {i \in is : ServiceOf[i] \in alive}

HandleReg(i) ==
  /\ Take("reg", i)
  /\ hostItems' = Shown({i})
  /\ UNCHANGED <<envVars, items, hosts, watches, outbox, matched, crashed, missed>>

\* onItemUnregistered: any item of the hash whose id starts with that one.
HandleUnreg(i) ==
  /\ Take("unreg", i)
  /\ LET named == {j \in hostItems : StartsWithItem(j, i)}
     IN \/ named = {} /\ UNCHANGED hostItems
        \/ \E j \in named : hostItems' = hostItems \ {j}
  /\ UNCHANGED <<envVars, items, hosts, watches, outbox, matched, crashed, missed>>

\* connectToWatcher. Our own watcher answers inside the call, and the answer
\* is queued: it may come before or after any message that is on its way.
HandleNew ==
  /\ inbox # <<>> /\ Head(inbox) = Msg("new", NoArg)
  /\ asked' = (owner = "other")
  /\ IF owner = "us"
     THEN \E k \in 1 .. Len(inbox) :
            inbox' = InsertAt(Tail(inbox), k, Msg("list", ToSet(items)))
     ELSE inbox' = Tail(inbox)
  /\ UNCHANGED <<alive, owner, otherItems, handed, ourVars, outbox, matched, crashed, missed>>

HandleList(is) ==
  /\ Take("list", is)
  /\ hostItems' = Shown(is)
  /\ UNCHANGED <<envVars, items, hosts, watches, outbox, matched, crashed, missed>>

-----------------------------------------------------------------------------
Handle ==
  /\ ~crashed
  /\ \/ \E i \in Items : HandleCall(i) \/ HandleReg(i) \/ HandleUnreg(i)
     \/ \E s \in Services : HandleHost(s) \/ HandleGone(s)
     \/ \E is \in SUBSET Items : HandleList(is)
     \/ HandleLost \/ HandleNew

Bus ==
  /\ ~crashed
  /\ BusTakes \/ OtherReplies

Environment ==
  /\ ~crashed
  /\ \/ \E s \in Services : AppStarts(s) \/ AppExits(s) \/ AppCallsHost(s)
     \/ \E i \in Items : AppCalls(i)
     \/ OtherExits \/ OtherHandsOver \/ OtherStarts

Next == Handle \/ Bus \/ Environment

Spec == Init /\ [][Next]_trayVars

-----------------------------------------------------------------------------
Messages ==
  [type : {"call", "reg", "unreg"}, of : Items] \cup [type : {"host"}, of : HostServices]
    \cup [type : {"gone"}, of : Services]
    \cup [type : {"lost", "new"}, of : {NoArg}] \cup [type : {"list"}, of : SUBSET Items]
Requests ==
  [type : {"reg", "unreg"}, of : Items] \cup [type : {"watch", "unwatch"}, of : Services]

\* Types, and that no item is in the list twice.
TypeOK ==
  /\ alive \subseteq Services /\ owner \in {"us", "other", "none"}
  /\ otherItems \subseteq Items /\ asked \in BOOLEAN /\ handed \in BOOLEAN
  /\ ToSet(items) \subseteq Items /\ Cardinality(ToSet(items)) = Len(items)
  /\ hosts \subseteq HostServices /\ watches \subseteq Services /\ hostItems \subseteq Items
  /\ ToSet(inbox) \subseteq Messages /\ ToSet(outbox) \subseteq Requests
  /\ matched \subseteq Services /\ crashed \in BOOLEAN /\ missed \subseteq Services

\* Services with one entry, whose name is no prefix of another and has none.
Plain(s) ==
  /\ Cardinality(ItemsOf(s)) + Cardinality({s} \cap HostServices) <= 1
  /\ \A t \in Services : <<s, t>> \notin ServicePrefix /\ <<t, s>> \notin ServicePrefix

Quiet == ~crashed /\ inbox = <<>> /\ outbox = <<>> /\ ~asked
Listed == IF owner = "us" THEN ToSet(items) ELSE otherItems

\* When nothing is on its way, the host shows nothing the current watcher does
\* not list, whoever owns the watcher's name, unless another shell handed it on.
NothingUnlisted ==
  Quiet /\ ~handed => \A i \in hostItems \ Listed : \E j \in Items : <<i, j>> \in ItemPrefix \/ <<j, i>> \in ItemPrefix

\* When nothing is on its way, every listed item of a plain service is shown,
\* whichever came first, the read of the list or the signals.
PlainShown ==
  Quiet => \A i \in Listed : Plain(ServiceOf[i]) /\ ServiceOf[i] \notin missed => i \in hostItems

\* The watcher, its items and the host of the shell agree, as far as the bus has told them.
TrayConsistent == TypeOK /\ NothingUnlisted /\ PlainShown

\* An entry of a plain service that has left is about to be removed: the bus
\* has told us, unless the service left before it had our match rule.
DepartureNoticed ==
  ~crashed => \A s \in Services \ (alive \cup missed) :
    Plain(s) /\ (s \in hosts \/ ItemsOf(s) \cap ToSet(items) # {}) => Waiting("gone", s)

\* An item that is still shown although its plain service has left will be
\* taken away by a message that is on its way, again unless the name was handed on.
ShownGhostsLeave ==
  ~crashed /\ ~handed => \A i \in hostItems : LET s == ServiceOf[i] IN
    Plain(s) /\ s \notin alive \cup missed =>
      \/ Waiting("gone", s) \/ Waiting("unreg", i) \/ Waiting("lost", NoArg)
      \/ Contains(outbox, Msg("unreg", i))

\* When nobody owns the watcher's name, tryRegister is about to run.
LossNoticed == ~crashed /\ owner = "none" => Waiting("lost", NoArg)
=============================================================================
