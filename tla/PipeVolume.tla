----------------------------- MODULE PipeVolume -----------------------------
(***************************************************************************)
(* Volumes over PipeWire: a sound card (Device) whose routes the daemon    *)
(* lists on request, and the nodes that play or record through them        *)
(* (Node, NodeAudioData), which show a volume and let QML change it, on    *)
(* the route when the device knows it and on the node itself otherwise.    *)
(*                                                                         *)
(* The channels of a node move together, so one volume stands for the      *)
(* list; node n uses route n of the one device.  Visual volumes are small  *)
(* numbers and their cubes are what the daemon is sent.  One call of       *)
(* Core::onPoll handles any number of messages.                            *)
(***************************************************************************)
EXTENDS Integers, SequencesExt

CONSTANTS AudioNodes,    \* the nodes of the device, each on a route of its own
          Visuals,       \* volumes QML sets
          Loudest,       \* the daemon clamps to this visual volume
          VolumeStep,    \* step the daemon reports, or -1
          MaxVolSteps    \* bound on the calls of QML and the changes by others

ASSUME VolumeAssumption ==
  /\ IsFiniteSet(AudioNodes) /\ Visuals \subseteq Int /\ Loudest \in Nat /\ MaxVolSteps \in Nat
  /\ VolumeStep \in Nat \cup {-1}

VARIABLES
  levels,   \* the daemon's routes: node |-> [volume, muted]
  own,      \* its nodes' own levels
  offered,  \* the routes of the card's profile
  requests, \* to the daemon
  replies,  \* to the shell
  polling,  \* the shell is inside Core::onPoll
  device,   \* Device: [routes, staging, responded, waiting]
  audio,    \* NodeAudioData of each node
  volSteps

volVars == <<levels, own, offered, requests, replies, polling, device, audio, volSteps>>
daemonSide == <<levels, own, offered>>

Unknown == -1                  \* an empty QList of volumes
Cubed(v) == v * v * v
Visual(l) == CHOOSE v \in 0 .. l : Cubed(v) = l
LowerOf(a, b) == IF a < b THEN a ELSE b
Distance(a, b) == IF a < b THEN b - a ELSE a - b
Msg2(k, n, level) == [kind |-> k, of |-> n, level |-> level]
NoLevel == [volume |-> Unknown, muted |-> FALSE]

\* NodeAudioData and Device when they are made.
NewAudio == [routed |-> FALSE, volume |-> Unknown, muted |-> FALSE, step |-> -1,
             server |-> Unknown, sent |-> Unknown, queued |-> Unknown]
NewDevice == [routes |-> << >>, staging |-> {}, responded |-> FALSE, waiting |-> FALSE]

VolInit ==
  /\ levels = [n \in AudioNodes |-> [volume |-> 1, muted |-> FALSE]]
  /\ own = [n \in AudioNodes |-> [volume |-> 1, muted |-> FALSE]]
  /\ offered = AudioNodes
  /\ requests = <<>> /\ polling = FALSE /\ volSteps = 0
  /\ replies = <<Msg2("info", "", NoLevel)>>
               \o [k \in 1 .. Cardinality(AudioNodes) |->
                     Msg2("nodeInfo", SetToSeq(AudioNodes)[k], NoLevel)]
  /\ device = NewDevice /\ audio = [n \in AudioNodes |-> NewAudio]

-----------------------------------------------------------------------------
(* The daemon *)

\* What a request makes of a level; a field it does not name stays.
Applied(level, change) ==
  [volume |-> IF change.volume = Unknown THEN level.volume
              ELSE LowerOf(change.volume, Cubed(Loudest)),
   muted |-> IF change.volume = Unknown THEN change.muted ELSE level.muted]

\* It answers in order; a change that changes nothing may go without an info.
DaemonTakes ==
  /\ requests # <<>> /\ requests' = Tail(requests)
  /\ LET m == Head(requests)
         n == m.of
     IN CASE m.kind = "enumRoutes" ->
               /\ replies' = replies \o [k \in 1 .. Cardinality(offered) |->
                    LET r == SetToSeq(offered)[k] IN Msg2("param", r, levels[r])]
               /\ UNCHANGED daemonSide
          [] m.kind = "enumNode" ->
               /\ replies' = Append(replies, Msg2("nodeParam", n, own[n]))
               /\ UNCHANGED daemonSide
          [] m.kind = "route" ->
               /\ levels' = IF n \in offered THEN [levels EXCEPT ![n] = Applied(@, m.level)]
                            ELSE levels
               /\ replies' \in {Append(replies, Msg2("info", "", NoLevel))}
                               \cup IF levels' = levels THEN {replies} ELSE {}
               /\ UNCHANGED <<own, offered>>
          [] m.kind = "node" ->
               /\ own' = [own EXCEPT ![n] = Applied(@, m.level)]
               /\ replies' = Append(replies, Msg2("nodeInfo", n, NoLevel))
               /\ UNCHANGED <<levels, offered>>
  /\ UNCHANGED <<polling, device, audio, volSteps>>

VolStep == volSteps < MaxVolSteps /\ volSteps' = volSteps + 1

\* Another program turns or mutes a route, or chooses a profile with other routes.
Changes == [volume : {Cubed(v) : v \in Visuals \cap Nat}, muted : {FALSE}]
           \cup [volume : {Unknown}, muted : BOOLEAN]
OtherTurns(n, change) ==
  /\ VolStep /\ n \in offered /\ Applied(levels[n], change) # levels[n]
  /\ levels' = [levels EXCEPT ![n] = Applied(@, change)]
  /\ replies' = Append(replies, Msg2("info", "", NoLevel))
  /\ UNCHANGED <<own, offered, requests, polling, device, audio>>

OtherProfile(s) ==
  /\ VolStep /\ s # offered
  /\ offered' = s
  /\ replies' = Append(replies, Msg2("info", "", NoLevel))
  /\ UNCHANGED <<levels, own, requests, polling, device, audio>>

-----------------------------------------------------------------------------
(* The shell *)

WithRoute(routes, n, level) ==
  [k \in DOMAIN routes \cup {n} |-> IF k = n THEN level ELSE routes[k]]

UsesDevice(a, d, n) == a[n].routed /\ n \in DOMAIN d.routes

\* updateVolumeProps, with the volume as QML sees it.
WithProps(a, n, level) ==
  [a EXCEPT ![n] = [@ EXCEPT !.volume = Visual(level.volume), !.muted = level.muted,
                             !.server = Visual(level.volume), !.step = VolumeStep]]

\* onDeviceReady of every node: a volume set while the device was waited for is sent
\* unless it is the one just answered.  setRouteProps refuses an unknown route.
Overdue(n) == audio[n].queued # Unknown /\ audio[n].queued # audio[n].sent
SentQueued ==
  [n \in AudioNodes |->
     LET a == audio[n] IN
     [a EXCEPT !.queued = Unknown,
               !.sent = IF Overdue(n) THEN a.queued ELSE @,
               !.volume = IF Overdue(n) THEN a.queued ELSE @]]
QueuedRequests ==
  LET late == SetToSeq({n \in AudioNodes : Overdue(n) /\ n \in DOMAIN device.routes})
  IN [k \in DOMAIN late |->
        Msg2("route", late[k], [volume |-> Cubed(audio[late[k]].queued), muted |-> FALSE])]

\* Mutant: the route is looked at before the queue is sent.
RouteParamReadyLast(n, level) ==
  LET ready == ~device.responded /\ device.waiting
      now == [device EXCEPT !.responded = TRUE, !.waiting = IF ready THEN FALSE ELSE @,
                            !.staging = @ \cup {n}, !.routes = WithRoute(@, n, level)]
      seen == IF UsesDevice(audio, now, n) THEN WithProps(audio, n, level) ELSE audio
  IN /\ device' = now
     /\ requests' = IF ready THEN requests \o QueuedRequests ELSE requests
     /\ audio' = IF ready
                 THEN [m \in AudioNodes |->
                         [seen[m] EXCEPT !.queued = Unknown,
                                         !.sent = IF Overdue(m) THEN audio[m].queued ELSE @,
                                         !.volume = IF Overdue(m) THEN audio[m].queued ELSE @]]
                 ELSE seen

\* Device::on_param: the first answer ends the wait before its route is looked at.
RouteParam(n, level) ==
  LET ready == ~device.responded /\ device.waiting
      was == IF ready THEN SentQueued ELSE audio
      now == [device EXCEPT !.responded = TRUE,
                            !.waiting = IF ready THEN FALSE ELSE @,
                            !.staging = @ \cup {n},
                            !.routes = WithRoute(@, n, level)]
  IN /\ device' = now
     /\ requests' = IF ready THEN requests \o QueuedRequests ELSE requests
     /\ audio' = IF UsesDevice(was, now, n) THEN WithProps(was, n, level) ELSE was

\* Device::on_info: the routes are asked for again.
RoutesChanged ==
  /\ device' = [device EXCEPT !.staging = {}, !.responded = FALSE]
  /\ requests' = Append(requests, Msg2("enumRoutes", "", NoLevel))
  /\ UNCHANGED audio

\* Node::on_info: the node learns its route, takes the volume of the device if it has one,
\* and asks for its own.
NodeInfo(n) ==
  LET routed == [audio EXCEPT ![n].routed = TRUE]
  IN /\ audio' = IF n \in DOMAIN device.routes
                 THEN WithProps(routed, n, device.routes[n]) ELSE routed
     /\ requests' = Append(requests, Msg2("enumNode", n, NoLevel))
     /\ UNCHANGED device

NodeParam(n, level) ==
  /\ audio' = IF UsesDevice(audio, device, n) THEN audio ELSE WithProps(audio, n, level)
  /\ UNCHANGED <<requests, device>>

ShellTakes ==
  /\ replies # <<>> /\ replies' = Tail(replies) /\ polling' = TRUE
  /\ LET m == Head(replies)
     IN \/ m.kind = "info" /\ RoutesChanged
        \/ m.kind = "param" /\ RouteParam(m.of, m.level)
        \/ m.kind = "nodeInfo" /\ NodeInfo(m.of)
        \/ m.kind = "nodeParam" /\ NodeParam(m.of, m.level)
  /\ UNCHANGED <<daemonSide, volSteps>>

\* Core::polled, onCorePolled: the routes that were not listed go.
Polled ==
  /\ polling /\ polling' = FALSE
  /\ device' = IF device.staging = {} THEN device
               ELSE [device EXCEPT !.routes =
                       [n \in DOMAIN @ \cap device.staging |-> @[n]]]
  /\ UNCHANGED <<daemonSide, requests, replies, audio, volSteps>>

\* A change on a route is sent if it differs by a step from what the daemon has.
Significant(a, v) ==
  \/ a.server = Unknown \/ a.step = -1
  \/ v = 0 \/ Distance(v, a.server) >= a.step

\* NodeAudioData::setVolumes
SetVolumes(n, value) ==
  LET a == audio[n]
      v == IF value < 0 THEN 0 ELSE value
      routed == UsesDevice(audio, device, n)
      direct == routed /\ ~device.waiting /\ Significant(a, v)
      ask(k) == Append(requests, Msg2(k, n, [volume |-> Cubed(v), muted |-> FALSE]))
  IN /\ VolStep /\ ~polling
     /\ a.volume # Unknown /\ v # a.volume
     /\ requests' = IF direct THEN ask("route") ELSE IF ~routed THEN ask("node") ELSE requests
     /\ device' = IF direct THEN [device EXCEPT !.waiting = TRUE] ELSE device
     /\ audio' = [audio EXCEPT ![n] =
                    [a EXCEPT !.volume = v,
                              !.sent = IF direct THEN v ELSE @,
                              !.queued = IF routed /\ device.waiting THEN v ELSE @]]
     /\ UNCHANGED <<daemonSide, replies, polling>>

\* NodeAudioData::setMuted
SetMuted(n) ==
  LET m == ~audio[n].muted
      k == IF UsesDevice(audio, device, n) THEN "route" ELSE "node"
  IN /\ VolStep /\ ~polling
     /\ requests' = Append(requests, Msg2(k, n, [volume |-> Unknown, muted |-> m]))
     /\ audio' = [audio EXCEPT ![n].muted = m]
     /\ UNCHANGED <<daemonSide, replies, polling, device>>

VolNext ==
  \/ DaemonTakes \/ ShellTakes \/ Polled
  \/ \E n \in AudioNodes : \E change \in Changes : OtherTurns(n, change)
  \/ \E n \in AudioNodes : SetMuted(n) \/ \E v \in Visuals : SetVolumes(n, v)
  \/ \E s \in SUBSET AudioNodes : OtherProfile(s)

VolSpec == VolInit /\ [][VolNext]_volVars

-----------------------------------------------------------------------------
(* When nothing is on its way and no answer of the device is awaited, what *)
(* a node with a route of the card shows is what the route has, up to a    *)
(* change below the step that is not sent, and the device's routes are the *)
(* card's.  The order of ready and props in on_param, the queue of         *)
(* volumes and the pruning at each poll decide it.                         *)

VolQuiet == requests = <<>> /\ replies = <<>> /\ ~polling
VolumesAgree ==
  VolQuiet /\ ~device.waiting =>
    \A n \in offered \cap DOMAIN device.routes :
      audio[n].routed =>
        /\ audio[n].muted = levels[n].muted
        /\ \/ audio[n].volume = Visual(levels[n].volume)
           \/ /\ audio[n].volume # 0
              /\ Distance(audio[n].volume, Visual(levels[n].volume)) < VolumeStep
=============================================================================
