------------------------------ MODULE PipeWire ------------------------------
(***************************************************************************)
(* The PipeWire client: the connection and how it is made again (Core,     *)
(* Globals), the nodes the registry announces (Registry), the default node *)
(* the metadata names (DefaultTracker), and the two things QML sees of     *)
(* them, the default (QMLPipewireGlobal) and the sorted lists              *)
(* (PipewireModel).                                                        *)
(*                                                                         *)
(* One of the four defaults, which are treated alike and apart. A node     *)
(* keeps its id for life and the name says its class; the daemon sends     *)
(* what it has when a client connects and what changes from then on, in    *)
(* order.                                                                  *)
(***************************************************************************)
EXTENDS Integers, SequencesExt

CONSTANTS NodeNames,    \* names of nodes
          ClassOf,      \* name |-> its media class: {"sink"}, {"source"} or both
          NoName,       \* the default is not set
          TrackedTypes, \* values QML gives trackedTypes
          MaxNodeIds,   \* bound on the nodes made
          MaxPipeSteps  \* bound on the steps of the daemon and of QML

ASSUME PipeAssumption ==
  /\ ClassOf \in [NodeNames -> (SUBSET {"sink", "source"}) \ {{}}]
  /\ NoName \notin NodeNames
  /\ TrackedTypes \subseteq SUBSET {"sink", "source"}
  /\ MaxNodeIds \in Nat /\ MaxPipeSteps \in Nat

VARIABLES
  daemon,      \* the PipeWire daemon runs
  nodesThere,  \* its nodes: id |-> name
  defaultThere,\* the default its metadata names
  idsUsed, pipeSteps,
  wire,        \* messages to the client
  listening,   \* whether the daemon tells this client of the default: "no", "asked",
               \* "yes", or "cut" when the connection is dead
  pwLinked,    \* Core::isValid
  fatalQueued, \* m_fatalErrorQueued
  watching,    \* the runtime directory is watched
  socketDir,   \* m_runtimeDir: "there", "missing", or "remote" if PIPEWIRE_REMOTE is set
  nodes,       \* m_nodes: id |-> name
  defaultName, \* name of the default
  defaultNode, \* its node, an id or 0, kept alive by the tracker
  shownDefault,\* the node of the PwQMLNode that QML has for it, or 0
  dying,      \* nodes of such objects between deleteLater and their deletion
  tracked,     \* m_trackedTypes
  sinks, sources, \* the lists of PipewireModel
  segfault     \* the shell has used a null pointer or a deleted object, and died of it

daemonVars == <<daemon, nodesThere, defaultThere, idsUsed>>
\* Globals and Registry; DefaultTracker; QMLPipewireGlobal; PipewireModel.
globalVars == <<pwLinked, fatalQueued, watching, socketDir>>
trackerVars == <<defaultName, defaultNode>>
shownVars == <<shownDefault, dying>>
sortedVars == <<tracked, sinks, sources>>
clientVars == <<globalVars, nodes, trackerVars, shownVars, sortedVars, segfault>>
pipeVars == <<daemonVars, pipeSteps, wire, listening, clientVars>>

NoNodes == [i \in {} |-> NoName]
Node(k, i, n) == [kind |-> k, id |-> i, name |-> n]
WithNode(ns, i, n) == [j \in DOMAIN ns \cup {i} |-> IF j = i THEN n ELSE ns[j]]

\* The first connection: all that the daemon has, metadata first or last.
Greeting ==
  LET list == SetToSeq(DOMAIN nodesThere)
      all == [k \in DOMAIN list |-> Node("node", list[k], nodesThere[list[k]])]
      meta == <<Node("metadata", 0, NoName)>>
  IN {meta \o all, all \o meta}

\* The daemon runs, or the shell starts before it.
PipeInit ==
  /\ daemon \in BOOLEAN /\ nodesThere = NoNodes /\ defaultThere = NoName
  /\ idsUsed = 0 /\ pipeSteps = 0
  /\ wire = IF daemon THEN <<Node("metadata", 0, NoName)>> ELSE <<>>
  /\ listening = "no" /\ pwLinked = daemon /\ fatalQueued = FALSE
  /\ socketDir \in {"there", "missing", "remote"}
  /\ watching = (~daemon /\ socketDir = "there")
  /\ nodes = NoNodes /\ defaultName = NoName /\ defaultNode = 0
  /\ shownDefault = 0 /\ dying = {} /\ tracked = {}
  /\ sinks = <<>> /\ sources = <<>> /\ segfault = FALSE

-----------------------------------------------------------------------------
(* The daemon *)

PipeStep == pipeSteps < MaxPipeSteps /\ pipeSteps' = pipeSteps + 1
Send(m) == wire' = IF pwLinked /\ listening # "cut" THEN Append(wire, m) ELSE wire

NodeMade(n) ==
  /\ PipeStep /\ daemon /\ idsUsed < MaxNodeIds
  /\ \A i \in DOMAIN nodesThere : nodesThere[i] # n
  /\ idsUsed' = idsUsed + 1
  /\ nodesThere' = WithNode(nodesThere, idsUsed', n)
  /\ Send(Node("node", idsUsed', n))
  /\ UNCHANGED <<daemon, defaultThere, listening, clientVars>>

NodeGone(i) ==
  /\ PipeStep /\ daemon
  /\ nodesThere' = [j \in DOMAIN nodesThere \ {i} |-> nodesThere[j]]
  /\ Send(Node("gone", i, NoName))
  /\ UNCHANGED <<daemon, defaultThere, idsUsed, listening, clientVars>>

DefaultSet(n) ==
  /\ PipeStep /\ daemon /\ n # defaultThere
  /\ defaultThere' = n
  /\ IF listening = "yes" THEN Send(Node("default", 0, n)) ELSE UNCHANGED wire
  /\ UNCHANGED <<daemon, nodesThere, idsUsed, listening, clientVars>>

\* The metadata is bound: its properties follow.
MetadataBound ==
  /\ listening = "asked" /\ daemon /\ listening' = "yes"
  /\ Send(Node("default", 0, defaultThere))
  /\ UNCHANGED <<daemonVars, pipeSteps, clientVars>>

\* on_error: the daemon dies, or reports an error other than ENOENT about an object.
PipeFails ==
  /\ PipeStep /\ pwLinked
  /\ \/ daemon' = FALSE /\ nodesThere' = NoNodes /\ wire' = <<>> /\ listening' = "cut"
     \/ UNCHANGED <<daemon, nodesThere, wire, listening>>
  /\ fatalQueued' = TRUE
  /\ UNCHANGED <<defaultThere, idsUsed, pwLinked, watching, socketDir, nodes, trackerVars,
                 shownVars, sortedVars, segfault>>

DaemonStarts ==
  /\ PipeStep /\ ~daemon /\ daemon' = TRUE
  /\ UNCHANGED <<nodesThere, defaultThere, idsUsed, wire, listening, clientVars>>

-----------------------------------------------------------------------------
(* DefaultTracker and QMLPipewireGlobal *)

NodeNamed(ns, n) == IF \E i \in DOMAIN ns : ns[i] = n
                    THEN CHOOSE i \in DOMAIN ns : ns[i] = n ELSE 0

\* setDefault: QML gets a new object, the old one is deleted when control returns to the
\* event loop.
ShowDefault(i) ==
  /\ shownDefault' = i
  /\ dying' = IF shownDefault \in {0, i} THEN dying ELSE dying \cup {shownDefault}

\* setDefaultNode, which setDefault follows.
DefaultBecomes(i) == defaultNode' = i /\ ShowDefault(i)

EventLoop ==
  /\ dying # {} /\ dying' = {}
  /\ UNCHANGED <<daemonVars, pipeSteps, wire, listening, globalVars, nodes, trackerVars,
                 shownDefault, sortedVars, segfault>>

-----------------------------------------------------------------------------
(* PipewireModel *)

Include(n, types) == ClassOf[n] \subseteq types
Sorted(ids) == CHOOSE list \in [1..Cardinality(ids) -> ids] :
                 \A j, k \in DOMAIN list : j < k => list[j] > list[k]

\* insertSorted: before the first smaller id, or last.
SortedIndex(list, i) ==
  CHOOSE k \in 1..(Len(list) + 1) :
    /\ \A j \in 1..(k - 1) : list[j] >= i
    /\ k <= Len(list) => list[k] < i
Inserted(list, i) == IF Contains(list, i) THEN list ELSE InsertAt(list, SortedIndex(list, i), i)

ModelAdds(i, n) ==
  LET fits == tracked # {} /\ Include(n, tracked)
  IN /\ sinks' = IF fits /\ "sink" \in ClassOf[n] THEN Inserted(sinks, i) ELSE sinks
     /\ sources' = IF fits /\ "source" \in ClassOf[n] THEN Inserted(sources, i) ELSE sources

\* None empties the lists; otherwise each node is added or taken out.
SetTrackedTypes(types) ==
  /\ PipeStep /\ types # tracked /\ tracked' = types
  /\ LET fitting(c) == {i \in DOMAIN nodes : types # {} /\ c \in ClassOf[nodes[i]]
                                             /\ Include(nodes[i], types)}
     IN sinks' = Sorted(fitting("sink")) /\ sources' = Sorted(fitting("source"))
  /\ UNCHANGED <<daemonVars, wire, listening, globalVars, nodes, trackerVars, shownVars,
                 segfault>>

-----------------------------------------------------------------------------
(* Registry *)

\* on_global of the metadata: the tracker binds it.
OnMetadata ==
  /\ wire # <<>> /\ Head(wire).kind = "metadata" /\ wire' = Tail(wire)
  /\ listening' = "asked"
  /\ UNCHANGED <<daemonVars, pipeSteps, clientVars>>

\* on_global of a node: it becomes the default if the default has its name and no node.
OnNode ==
  /\ wire # <<>> /\ Head(wire).kind = "node" /\ wire' = Tail(wire)
  /\ LET i == Head(wire).id
         n == Head(wire).name
     IN /\ nodes' = WithNode(nodes, i, n)
        /\ IF defaultNode = 0 /\ n = defaultName THEN DefaultBecomes(i)
           ELSE UNCHANGED <<defaultNode, shownDefault, dying>>
        /\ ModelAdds(i, n)
  /\ UNCHANGED <<daemonVars, pipeSteps, listening, globalVars, defaultName, tracked,
                 segfault>>

\* The nodes in ids tell those who hold them that they go. The object QML has for the
\* default, or one not deleted yet, clears the default and then calls deleteLater on what
\* is now a null pointer. The object of a list is deleted inside its own signal and
\* written to when the signal returns (undefined: nothing comes of it, or a crash).
Destroyed(ids) ==
  LET nulls == ids \cap ({shownDefault} \cup dying)
      freed == ids \cap (Range(sinks) \cup Range(sources))
  IN segfault' \in IF nulls # {} THEN {TRUE} ELSE IF freed # {} THEN BOOLEAN ELSE {FALSE}

\* on_global_remove
OnNodeGone ==
  /\ wire # <<>> /\ Head(wire).kind = "gone" /\ wire' = Tail(wire)
  /\ LET i == Head(wire).id
         known == {i} \cap DOMAIN nodes
     IN /\ nodes' = [j \in DOMAIN nodes \ {i} |-> nodes[j]]
        /\ sinks' = RemoveFirst(sinks, i) /\ sources' = RemoveFirst(sources, i)
        /\ Destroyed(known)
  /\ UNCHANGED <<daemonVars, pipeSteps, listening, globalVars, trackerVars, shownVars,
                 tracked>>

\* Mutant: a default whose node is not known yet leaves the node it had.
OnDefaultKeepsNode ==
  /\ wire # <<>> /\ Head(wire).kind = "default" /\ wire' = Tail(wire)
  /\ defaultName' = Head(wire).name
  /\ LET i == NodeNamed(nodes, defaultName')
     IN IF i # 0 THEN DefaultBecomes(i) ELSE UNCHANGED <<defaultNode, shownDefault, dying>>
  /\ UNCHANGED <<daemonVars, pipeSteps, listening, globalVars, nodes, sortedVars,
                 segfault>>

\* onMetadataProperty
OnDefault ==
  /\ wire # <<>> /\ Head(wire).kind = "default" /\ wire' = Tail(wire)
  /\ defaultName' = Head(wire).name
  /\ DefaultBecomes(NodeNamed(nodes, defaultName'))
  /\ UNCHANGED <<daemonVars, pipeSteps, listening, globalVars, nodes, sortedVars,
                 segfault>>

-----------------------------------------------------------------------------
(* Globals *)

\* A new registry: the daemon announces everything again.
RegistryInit == listening' = "no" /\ wire' \in Greeting

Connects == pwLinked' = TRUE /\ watching' = FALSE /\ RegistryInit

\* The connection is shut down. A directory watch waits for the next, where there is a
\* directory; of a remote daemon not even a first attempt is made.
BeginReconnect ==
  IF daemon /\ socketDir # "remote" THEN Connects
  ELSE /\ pwLinked' = FALSE /\ watching' = (socketDir = "there")
       /\ wire' = <<>> /\ listening' = "no"

DefaultsReset == defaultName' = NoName /\ defaultNode' = 0 /\ shownDefault' = 0

\* The nodes go; the object QML had for the default outlives it until the event loop, and
\* hears its node go.
RegistryReset ==
  /\ nodes' = NoNodes /\ sinks' = <<>> /\ sources' = <<>>
  /\ Destroyed(DOMAIN nodes) /\ dying' = {}

OnFatalError ==
  /\ fatalQueued /\ fatalQueued' = FALSE
  /\ DefaultsReset /\ RegistryReset /\ BeginReconnect
  /\ UNCHANGED <<daemonVars, pipeSteps, socketDir, tracked>>

\* onRuntimeDirChanged: the socket of the daemon has appeared.
OnRuntimeDirChanged ==
  /\ watching /\ daemon
  /\ Connects
  /\ UNCHANGED <<daemonVars, pipeSteps, fatalQueued, socketDir, nodes, trackerVars, shownVars,
                 sortedVars, segfault>>

PipeNext ==
  /\ ~segfault
  /\ \/ \E n \in NodeNames : NodeMade(n)
     \/ \E i \in DOMAIN nodesThere : NodeGone(i)
     \/ \E n \in NodeNames \cup {NoName} : DefaultSet(n)
     \/ \E t \in TrackedTypes : SetTrackedTypes(t)
     \/ MetadataBound \/ PipeFails \/ DaemonStarts \/ EventLoop
     \/ OnMetadata \/ OnNode \/ OnNodeGone \/ OnDefault
     \/ OnFatalError \/ OnRuntimeDirChanged

PipeSpec == PipeInit /\ [][PipeNext]_pipeVars

-----------------------------------------------------------------------------
(***************************************************************************)
(* Until the shell crashes: the lists hold exactly the known nodes of the  *)
(* types they track, each once and sorted; what QML shows as the default   *)
(* is the tracker's node, a known one with the default's name. Once all    *)
(* messages are read the nodes and the default are the daemon's, also      *)
(* after a reconnection and whichever of a node and the metadata that      *)
(* names it came first. Without a connection the directory of the socket   *)
(* is watched, if there is one and no remote is named.                     *)
(***************************************************************************)
PipeAgrees ==
  LET fitting(c) == {i \in DOMAIN nodes : tracked # {} /\ c \in ClassOf[nodes[i]]
                                          /\ Include(nodes[i], tracked)}
  IN ~segfault =>
     /\ sinks = Sorted(fitting("sink")) /\ sources = Sorted(fitting("source"))
     /\ shownDefault = defaultNode /\ defaultNode = NodeNamed(nodes, defaultName)
     /\ watching <=> ~pwLinked /\ socketDir = "there"
     /\ pwLinked /\ ~fatalQueued /\ wire = <<>> =>
          /\ nodes = nodesThere
          /\ listening = "yes" => defaultName = defaultThere
=============================================================================
