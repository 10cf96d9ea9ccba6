-------------------------------- MODULE Pam --------------------------------
(***************************************************************************)
(* The PAM service: PamContext (the QML element), PamConversation (one     *)
(* authentication attempt, its pipes and its socket notifier) and          *)
(* PamProcess (the forked child that runs the PAM stack).                  *)
(*                                                                         *)
(* The GUI thread and the children interleave. Inside the GUI thread a     *)
(* handler may emit signals whose QML handlers run before it goes on and   *)
(* call back into PamContext: sig is what is still to be delivered in the  *)
(* current event, "start" stands for the rest of startConversation, and no *)
(* other event of the GUI thread runs before all of it is done.            *)
(***************************************************************************)
EXTENDS Naturals, Sequences

CONSTANTS
  MaxConv,     \* bound: conversations started in one behaviour
  MaxMsgs,     \* bound: messages the PAM stack sends in one conversation
  Infos,       \* texts that ask for no answer
  Codes,       \* what the child can report before it exits
  Outcomes,    \* what can happen when a conversation is started
  Crashes      \* whether a child can die without reporting

ASSUME MaxConvAssumption == MaxConv \in Nat \ {0}
ASSUME MaxMsgsAssumption == MaxMsgs \in Nat
ASSUME InfosAssumption   == "prompt" \notin Infos /\ "nothing" \notin Infos
\* A message and an exit code are told apart by the byte that precedes them.
ASSUME CodesAssumption   ==
  /\ Codes \subseteq {"Success", "Failed", "MaxTries", "error"}
  /\ Codes \cap (Infos \cup {"prompt"}) = {}
ASSUME OutcomesAssumption ==
  Outcomes \subseteq {"ok", "invalid_config", "pipe_failed", "fork_failed"}
ASSUME CrashesAssumption == Crashes \in BOOLEAN

VARIABLES
  initialized,  \* m_isInitialized
  targetActive, \* m_targetActive
  current,      \* m_conversation, 0 for null
  used,         \* conversations created so far
  message,      \* b_message
  required,     \* b_isResponseRequired
  sig,          \* signals of the current event still to be delivered to QML
  reaping,      \* conversation whose onMessage goes on when they are, 0 for none
  deleted,      \* conversations in deleteLater()
  pid,          \* m_childPid of each conversation
  child,        \* the forked process of each conversation
  left,         \* messages each PAM stack may still send
  last,         \* what each PAM stack sent last
  toMain,       \* the pipe from each child
  answers,      \* answers in the pipe to each child
  stray,        \* kill() or waitpid() was called on something that is not
                \* an own child still to be waited for
  reports       \* how often completed() was emitted, or is about to be, for each conversation

ctxVars  == <<initialized, targetActive, current, used, message, required>>
procVars == <<pid, child, left, last, toMain, answers>>
pamVars  == <<ctxVars, procVars, sig, reaping, deleted, stray, reports>>

Convs == 1 .. MaxConv
Texts == Infos \cup {"prompt"}
Results == {"Success", "Failed", "MaxTries", "Error"}
Signals == {"active", "message", "required", "received", "error"} \cup Results
Due == Signals \cup {"start"}

PamTypeOK ==
  /\ initialized \in BOOLEAN /\ targetActive \in BOOLEAN
  /\ current \in 0 .. used /\ used \in 0 .. MaxConv
  /\ message \in Texts \cup {"nothing"} /\ required \in BOOLEAN
  /\ sig \in Seq(Due) /\ reaping \in 0 .. used
  /\ deleted \subseteq 1 .. used
  /\ pid \in [Convs -> {"none", "child", "minus1"}]
  /\ child \in [Convs -> {"none", "running", "reading", "exited", "reaped"}]
  /\ left \in [Convs -> 0 .. MaxMsgs]
  /\ last \in [Convs -> Texts \cup {"nothing", "again"}]
  /\ toMain \in [Convs -> Seq(Texts \cup Codes)]
  /\ answers \in [Convs -> Nat]
  /\ stray \in BOOLEAN
  /\ reports \in [Convs -> Nat]

PamInit ==
  /\ initialized = FALSE /\ targetActive = FALSE
  /\ current = 0 /\ used = 0 /\ message = "nothing" /\ required = FALSE
  /\ sig = <<>> /\ reaping = 0 /\ deleted = {} /\ stray = FALSE
  /\ pid = [c \in Convs |-> "none"] /\ child = [c \in Convs |-> "none"]
  /\ left = [c \in Convs |-> MaxMsgs] /\ last = [c \in Convs |-> "nothing"]
  /\ toMain = [c \in Convs |-> <<>>] /\ answers = [c \in Convs |-> 0]
  /\ reports = [c \in Convs |-> 0]

\* The GUI thread takes the next event.
Idle == sig = <<>> /\ reaping = 0

----------------------------------------------------------------------------
(* PamContext: effects *)

\* Mutant: the context still wants a conversation.
AbortConversationKeepsWish(c) ==
  /\ current' = 0
  /\ deleted' = deleted \cup {c}
  /\ message' = "nothing"
  /\ UNCHANGED <<initialized, targetActive, required>>

\* abortConversation, for the conversation that was current.  Its QML is told of
\* isActive, then of the text, which no call can tell apart from one reset at once.
AbortConversation(c) ==
  /\ targetActive' = FALSE
  /\ current' = 0
  /\ deleted' = deleted \cup {c}
  /\ message' = "nothing"
  /\ UNCHANGED <<initialized, required>>

AbortTells == IF message = "nothing" THEN <<"active">> ELSE <<"active", "message">>

\* Mutant: abortConversation does not disconnect.
ListeningAlways(c) == TRUE

\* The signals of a conversation reach the context until abortConversation
\* disconnects them.
Listening(c) == c = current

\* onCompleted and onError: what the context emits for a code
Report(code) == IF code = "error" THEN <<"error", "Error">> ELSE <<code>>

\* completed or error of conversation c, when rest is still to be delivered
Finish(c, code, rest) ==
  \/ /\ Listening(c)
     /\ AbortConversation(c)
     /\ sig' = AbortTells \o Report(code) \o rest
     /\ reports' = [reports EXCEPT ![c] = @ + 1]
  \/ /\ ~Listening(c)
     /\ sig' = rest
     /\ UNCHANGED <<ctxVars, deleted, reports>>

\* Mutant: kill() without waitpid().
KillChildNoWait(c) ==
  \/ pid[c] = "none" /\ UNCHANGED <<procVars, stray>>
  \/ /\ pid[c] # "none"
     /\ pid' = [pid EXCEPT ![c] = "none"]
     /\ child' = [child EXCEPT ![c] = "zombie"]
     /\ UNCHANGED <<left, last, toMain, answers, stray>>

\* PamConversation::abort: kill() and waitpid() the child, if there is one
KillChild(c) ==
  \/ pid[c] = "none" /\ UNCHANGED <<procVars, stray>>
  \/ /\ pid[c] # "none"
     /\ pid' = [pid EXCEPT ![c] = "none"]
     /\ stray' = (stray \/ pid[c] = "minus1" \/ child[c] \in {"none", "reaped"})
     /\ child' = [child EXCEPT ![c] = IF @ = "none" THEN @ ELSE "reaped"]
     /\ UNCHANGED <<left, last, toMain, answers>>

\* onInternalError says nothing when the child has been waited for
InternalError(c, rest) ==
  /\ KillChild(c)
  /\ \/ pid[c] # "none" /\ Finish(c, "error", rest) /\ UNCHANGED used
     \/ /\ pid[c] = "none" /\ sig' = rest
        /\ UNCHANGED <<ctxVars, deleted, reports>>

\* startConversation up to isActiveChanged. What it tells QML before that, that no answer
\* is required any more, finds a context that ignores every call.
StartConversation(rest) ==
  /\ initialized' = TRUE /\ required' = FALSE
  /\ UNCHANGED <<message, procVars, deleted, reports>>
  /\ \/ /\ "invalid_config" \in Outcomes
        /\ targetActive' = FALSE /\ sig' = rest
        /\ UNCHANGED <<current, used>>
     \/ /\ Outcomes \ {"invalid_config"} # {} /\ used < MaxConv
        /\ used' = used + 1
        /\ targetActive' = TRUE /\ current' = used + 1
        /\ sig' = <<"active", "start">> \o rest

\* m_conversation is the one that was made, and has no process.
StartsOwn == current # 0 /\ pid[current] = "none"

\* The rest of it, PamConversation::start. A failed fork() returns -1, which it takes for
\* a child: the notifier then watches descriptor 0.
StartProcess ==
  /\ sig # <<>> /\ Head(sig) = "start" /\ StartsOwn
  /\ UNCHANGED <<used, reaping, stray>>
  /\ \E o \in Outcomes \ {"invalid_config"} :
       \/ /\ o = "pipe_failed"
          /\ Finish(current, "error", Tail(sig))
          /\ UNCHANGED procVars
       \/ /\ o \in {"ok", "fork_failed"}
          /\ sig' = Tail(sig)
          /\ pid' = [pid EXCEPT ![current] = IF o = "ok" THEN "child" ELSE "minus1"]
          /\ child' = [child EXCEPT ![current] = IF o = "ok" THEN "running" ELSE "none"]
          /\ UNCHANGED <<ctxVars, left, last, toMain, answers, deleted, reports>>

\* A handler of isActiveChanged has aborted the conversation that is being started: there
\* is none to start, which is a null pointer, or it has started one, which is then
\* started again.  The model ends there.
Misstarted == sig # <<>> /\ Head(sig) = "start" /\ ~StartsOwn

----------------------------------------------------------------------------
(* PamContext: calls from QML, with rest still to be delivered *)

Start(rest) ==
  /\ ~targetActive /\ current = 0
  /\ UNCHANGED <<reaping, stray>>
  /\ \/ /\ ~initialized
        /\ targetActive' = TRUE /\ sig' = rest
        /\ UNCHANGED <<initialized, current, used, message, required, procVars,
                       deleted, reports>>
     \/ initialized /\ StartConversation(rest)

Abort(rest) ==
  /\ targetActive /\ current # 0
  /\ AbortConversation(current)
  /\ sig' = AbortTells \o rest
  /\ UNCHANGED <<used, procVars, reaping, stray, reports>>

\* respond does not reset isResponseRequired. The write fails when the child
\* has closed its end.
Respond(rest) ==
  /\ current # 0 /\ required
  /\ UNCHANGED reaping
  /\ \/ /\ child[current] \in {"running", "reading"}
        /\ answers' = [answers EXCEPT ![current] = @ + 1]
        /\ sig' = rest
        /\ UNCHANGED <<ctxVars, pid, child, left, last, toMain, deleted, stray,
                       reports>>
     \/ /\ child[current] \notin {"running", "reading"}
        /\ InternalError(current, rest)

\* componentComplete
ComponentComplete ==
  /\ Idle /\ ~initialized
  /\ UNCHANGED <<reaping, stray>>
  /\ \/ targetActive /\ StartConversation(<<>>)
     \/ /\ ~targetActive /\ initialized' = TRUE
        /\ UNCHANGED <<targetActive, current, used, message, required, procVars,
                       sig, deleted, reports>>

----------------------------------------------------------------------------
(* PamConversation: events of the GUI thread *)

\* Mutant: the property group tells QML nothing.
OnTextSilent(c, text) ==
  /\ UNCHANGED <<initialized, targetActive, current, used, pid, child, left,
                 last, answers, reaping, deleted, stray, reports>>
  /\ \/ /\ Listening(c)
        /\ message' = text /\ required' = (text = "prompt") /\ sig' = <<"received">>
     \/ ~Listening(c) /\ UNCHANGED <<message, required, sig>>

\* onMessage of a text: the property group first tells QML that an answer is
\* required (if that is news), then pamMessageReceived follows.
OnText(c, text) ==
  /\ UNCHANGED <<initialized, targetActive, current, used, pid, child, left,
                 last, answers, reaping, deleted, stray, reports>>
  /\ \/ /\ Listening(c)
        /\ message' = text /\ required' = (text = "prompt")
        /\ sig' = (IF text = "prompt" /\ ~required THEN <<"required">> ELSE <<>>)
                  \o <<"received">>
     \/ ~Listening(c) /\ UNCHANGED <<message, required, sig>>

\* onMessage of an exit code: the signal comes first
OnExitCode(c, code) ==
  /\ Finish(c, code, <<>>)
  /\ reaping' = c
  /\ UNCHANGED <<used, pid, child, left, last, answers, stray>>

\* Mutant: m_childPid survives the child.
WaitForChildKeepsPid(c) ==
  /\ sig = <<>> /\ c = reaping
  /\ reaping' = 0
  /\ child' = [child EXCEPT ![c] = "reaped"]
  /\ UNCHANGED <<ctxVars, pid, left, last, toMain, answers, sig, deleted, stray, reports>>

\* and waitpid when its handlers are done.
WaitForChild(c) ==
  /\ sig = <<>> /\ c = reaping
  /\ reaping' = 0
  /\ pid' = [pid EXCEPT ![c] = "none"]
  /\ child' = [child EXCEPT ![c] = "reaped"]
  /\ stray' = (stray \/ pid[c] = "none")
  /\ UNCHANGED <<ctxVars, left, last, toMain, answers, sig, deleted, reports>>

\* Conversations whose object still exists
Alive(c) == c = current \/ c \in deleted

OnMessage(c) ==
  /\ Idle /\ Alive(c) /\ toMain[c] # <<>>
  /\ toMain' = [toMain EXCEPT ![c] = Tail(@)]
  /\ \/ Head(toMain[c]) \in Texts /\ OnText(c, Head(toMain[c]))
     \/ Head(toMain[c]) \in Codes /\ OnExitCode(c, Head(toMain[c]))

\* onMessage when the pipe is at its end, or descriptor 0 after a failed fork
OnEof(c) ==
  /\ Idle /\ Alive(c) /\ toMain[c] = <<>> /\ pid[c] # "none"
  /\ UNCHANGED reaping
  /\ child[c] = "exited" \/ pid[c] = "minus1"
  /\ InternalError(c, <<>>)

\* ~PamConversation
ConversationDeleted(c) ==
  /\ Idle /\ c \in deleted
  /\ deleted' = deleted \ {c}
  /\ KillChild(c)
  /\ UNCHANGED <<ctxVars, sig, reaping, reports>>

----------------------------------------------------------------------------
(* PamProcess: the child *)

ChildSays(c, text, next) ==
  /\ child[c] = "running" /\ left[c] > 0
  /\ left' = [left EXCEPT ![c] = @ - 1]
  /\ toMain' = [toMain EXCEPT ![c] = Append(@, text)]
  /\ child' = [child EXCEPT ![c] = next]
  /\ last' = [last EXCEPT ![c] =
                IF text = "prompt" /\ @ \in {"prompt", "again"} THEN "again" ELSE text]
  /\ UNCHANGED <<ctxVars, pid, answers, sig, reaping, deleted, stray, reports>>

ChildInforms(c) == \E text \in Infos : ChildSays(c, text, "running")
ChildPrompts(c) == ChildSays(c, "prompt", "reading")

ChildReads(c) ==
  /\ child[c] = "reading" /\ answers[c] > 0
  /\ answers' = [answers EXCEPT ![c] = @ - 1]
  /\ child' = [child EXCEPT ![c] = "running"]
  /\ UNCHANGED <<ctxVars, pid, left, last, toMain, sig, reaping, deleted, stray, reports>>

\* exec returns and sendCode writes
ChildExits(c) ==
  /\ child[c] = "running"
  /\ child' = [child EXCEPT ![c] = "exited"]
  /\ \E code \in Codes : toMain' = [toMain EXCEPT ![c] = Append(@, code)]
  /\ UNCHANGED <<ctxVars, pid, left, last, answers, sig, reaping, deleted, stray, reports>>

ChildCrashes(c) ==
  /\ Crashes /\ child[c] \in {"running", "reading"}
  /\ child' = [child EXCEPT ![c] = "exited"]
  /\ UNCHANGED <<ctxVars, pid, left, last, toMain, answers, sig, reaping, deleted, stray,
                 reports>>

ChildWorks(c) == ChildInforms(c) \/ ChildPrompts(c) \/ ChildReads(c) \/ ChildExits(c)

----------------------------------------------------------------------------
(* Any QML around a PamContext *)

QmlCall(rest) == Start(rest) \/ Abort(rest) \/ Respond(rest)

UserEvent == Idle /\ QmlCall(<<>>)

\* A handler returns, or there is none.
Ignore ==
  /\ sig # <<>> /\ Head(sig) \in Signals
  /\ sig' = Tail(sig)
  /\ UNCHANGED <<ctxVars, procVars, reaping, deleted, stray, reports>>

\* The handler of a signal calls back, once or several times.
Deliver ==
  /\ sig # <<>> /\ Head(sig) \in Signals
  /\ QmlCall(sig) \/ QmlCall(Tail(sig)) \/ Ignore

ConvEvent(c) == OnMessage(c) \/ WaitForChild(c) \/ OnEof(c) \/ ConversationDeleted(c)

PamNext ==
  \/ ComponentComplete \/ UserEvent \/ Deliver \/ StartProcess
  \/ \E c \in Convs : ConvEvent(c) \/ ChildWorks(c) \/ ChildCrashes(c)

PamSpec == PamInit /\ [][PamNext]_pamVars

\* Handlers return, and the event loop serves readable pipes and deferred deletions.
PamFairness ==
  /\ WF_pamVars(Ignore) /\ WF_pamVars(StartProcess)
  /\ \A c \in Convs : /\ WF_pamVars(OnMessage(c)) /\ WF_pamVars(OnEof(c))
                      /\ WF_pamVars(WaitForChild(c)) /\ WF_pamVars(ConversationDeleted(c))

FairPamSpec == PamSpec /\ PamFairness

----------------------------------------------------------------------------
(* Properties *)

\* Once the element is complete, the wish to run and the conversation agree:
\* no failure path leaves the context neither running nor startable.
TargetMatchesActive == initialized => (targetActive <=> current # 0)

\* kill() and waitpid() are called only on an own child that has not been
\* waited for before.
NoStrayKill == ~stray

\* A conversation object that is gone leaves no process behind.
NoOrphan ==
  \A c \in 1 .. used : ~Alive(c) => child[c] \in {"none", "reaped"}

\* A conversation reports its end at most once, and not while it still runs.
ReportedOnce ==
  \A c \in Convs : reports[c] <= 1 /\ (c = current => reports[c] = 0)

\* The context agrees with its conversation, a conversation with its process, and what it
\* reports with what it does.
PamConsistent == PamTypeOK /\ TargetMatchesActive /\ NoOrphan /\ ReportedOnce

\* A conversation that was aborted or has ended reports nothing any more.
AbortSilences == [][\A c \in deleted : reports'[c] = reports[c]]_pamVars

\* An aborted or finished conversation's child is eventually waited for, unless a handler
\* has undone a start.
ChildrenReaped ==
  \A c \in Convs : (c \in deleted) ~> (child[c] \in {"none", "reaped"} \/ Misstarted)
=============================================================================
