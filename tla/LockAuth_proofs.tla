--------------------------- MODULE LockAuth_proofs ---------------------------
(***************************************************************************)
(* Proofs about Pam, for every number of conversations and messages and    *)
(* any QML around the element; then about LockAuth: it is one of these     *)
(* QMLs, so what holds of the PAM service holds around it, and it answers  *)
(* prompts the way the service needs, for every number of attempts.        *)
(***************************************************************************)
EXTENDS LockAuth, SequenceTheorems, TLAPS

-----------------------------------------------------------------------------
(* The inductive invariant, in three parts *)

\* The context: its conversation is the one it wants, is not in deleteLater()
\* as well and has reported nothing yet; conversations to come are blank.
ContextInv ==
  /\ initialized \in BOOLEAN /\ targetActive \in BOOLEAN
  /\ current \in 0 .. used /\ used \in 0 .. MaxConv
  /\ message \in Texts \cup {"nothing"} /\ required \in BOOLEAN
  /\ sig \in Seq(Due)
  /\ deleted \subseteq 1 .. used
  /\ reports \in [Convs -> Nat]
  /\ TargetMatchesActive /\ ReportedOnce
  /\ current \notin deleted /\ (~initialized => current = 0)
  /\ \A c \in Convs : c > used => reports[c] = 0

\* The pid a conversation keeps fits its child, and conversations to come have
\* neither.
PidFits ==
  \A c \in Convs :
    /\ pid[c] = "none" => child[c] \in {"none", "reaped"}
    /\ pid[c] = "child" => child[c] \in {"running", "reading", "exited"}
    /\ pid[c] = "minus1" => child[c] = "none"
    /\ c > used => /\ pid[c] = "none" /\ child[c] = "none"
                   /\ toMain[c] = <<>> /\ answers[c] = 0

\* The processes and their pipes.
ProcessInv ==
  /\ pid \in [Convs -> {"none", "child", "minus1"}]
  /\ child \in [Convs -> {"none", "running", "reading", "exited", "reaped"}]
  /\ left \in [Convs -> 0 .. MaxMsgs]
  /\ last \in [Convs -> Texts \cup {"nothing", "again"}]
  /\ toMain \in [Convs -> Seq(Texts \cup Codes)]
  /\ answers \in [Convs -> Nat]
  /\ stray \in BOOLEAN
  /\ PidFits

\* A conversation that is gone has no pid: the destructor waits for the child.
DeadHaveNoPid == \A c \in 1 .. used : ~Alive(c) => pid[c] = "none"

PamInv == ContextInv /\ ProcessInv /\ DeadHaveNoPid

\* What onMessage waits for is a conversation that was made.
ReapingKnown == reaping \in 0 .. used

USE MaxConvAssumption, MaxMsgsAssumption

\* The invariant gives the properties of the run.
LEMMA PamInvGives == PamInv /\ ReapingKnown => PamConsistent
<1> SUFFICES ASSUME PamInv, ReapingKnown PROVE PamConsistent
  OBVIOUS
<1>1. PamTypeOK
  BY DEF PamInv, ContextInv, ProcessInv, PidFits, ReapingKnown, PamTypeOK
<1>2. NoOrphan
  BY DEF PamInv, ContextInv, ProcessInv, PidFits, DeadHaveNoPid, NoOrphan, Convs
<1> QED BY <1>1, <1>2 DEF PamInv, ContextInv, PamConsistent

\* Before componentComplete there is nothing.
LEMMA InitPamInv == PamInit => PamInv /\ ReapingKnown
<1> SUFFICES ASSUME PamInit PROVE PamInv /\ ReapingKnown
  OBVIOUS
<1>1. ContextInv
  <2>1. sig \in Seq(Due) /\ reports \in [Convs -> Nat]
    BY DEF PamInit
  <2>2. TargetMatchesActive /\ ReportedOnce
    BY DEF PamInit, TargetMatchesActive, ReportedOnce
  <2>3. /\ initialized = FALSE /\ targetActive = FALSE /\ required = FALSE
        /\ current = 0 /\ used = 0 /\ message = "nothing" /\ deleted = {}
        /\ \A c \in Convs : reports[c] = 0
    BY DEF PamInit
  <2>4. current \in 0 .. used /\ used \in 0 .. MaxConv /\ deleted \subseteq 1 .. used
    BY <2>3
  <2> QED BY <2>1, <2>2, <2>3, <2>4 DEF ContextInv
<1>2. ProcessInv
  <2>1. /\ pid \in [Convs -> {"none", "child", "minus1"}]
        /\ child \in [Convs -> {"none", "running", "reading", "exited", "reaped"}]
        /\ left \in [Convs -> 0 .. MaxMsgs]
        /\ last \in [Convs -> Texts \cup {"nothing", "again"}]
    BY DEF PamInit
  <2>2. toMain \in [Convs -> Seq(Texts \cup Codes)]
    BY DEF PamInit
  <2>3. answers \in [Convs -> Nat] /\ stray \in BOOLEAN
    BY DEF PamInit
  <2> QED BY <2>1, <2>2, <2>3 DEF PamInit, ProcessInv, PidFits
<1>3. DeadHaveNoPid /\ ReapingKnown
  BY DEF PamInit, DeadHaveNoPid, ReapingKnown
<1> QED BY <1>1, <1>2, <1>3 DEF PamInv

-----------------------------------------------------------------------------
(* Effects shared by the handlers *)

\* A context that is left alone, and the conversations it keeps alive.
LEMMA SameContext ==
  ASSUME ContextInv, UNCHANGED <<ctxVars, deleted, reports>>, sig' \in Seq(Due)
  PROVE  ContextInv' /\ \A d \in Convs : Alive(d) => Alive(d)'
<1>1. TargetMatchesActive' /\ ReportedOnce'
  BY DEF ContextInv, ctxVars, TargetMatchesActive, ReportedOnce
<1>2. \A d \in Convs : Alive(d) => Alive(d)'
  BY DEF ctxVars, Alive
<1> QED BY <1>1, <1>2 DEF ContextInv, ctxVars

\* Processes that are left alone.
LEMMA SameProcesses ==
  ASSUME ProcessInv, UNCHANGED <<procVars, stray, used>>
  PROVE  ProcessInv' /\ \A d \in Convs : pid[d] = "none" => pid'[d] = "none"
BY DEF ProcessInv, PidFits, procVars

\* What the context emits when a conversation is over are signals.
LEMMA TellsAreDue ==
  ASSUME NEW code \in Codes \cup {"error"}, NEW rest \in Seq(Due)
  PROVE  /\ AbortTells \o Report(code) \o rest \in Seq(Due)
         /\ AbortTells \o rest \in Seq(Due)
<1>1. code \in {"Success", "Failed", "MaxTries", "error"}
  BY CodesAssumption
<1>2. Report(code) \in Seq(Due)
  <2>1. CASE code = "error"
    <3>1. Report(code) = <<"error", "Error">>
      BY <2>1 DEF Report
    <3> QED BY <3>1 DEF Due, Signals, Results
  <2>2. CASE code # "error"
    <3>1. Report(code) = <<code>> /\ code \in Due
      BY <1>1, <2>2 DEF Report, Due, Signals, Results
    <3> QED BY <3>1
  <2> QED BY <2>1, <2>2
<1>3. AbortTells \in Seq(Due)
  <2>1. <<"active">> \in Seq(Due) /\ <<"active", "message">> \in Seq(Due)
    BY DEF Due, Signals
  <2> QED BY <2>1 DEF AbortTells
<1>4. AbortTells \o Report(code) \in Seq(Due)
  BY <1>2, <1>3, ConcatProperties
<1> QED BY <1>3, <1>4, ConcatProperties

\* The effect of abortConversation on a context that is otherwise left alone.
LEMMA AbortOK ==
  ASSUME ContextInv, NEW c \in Convs, c = current, AbortConversation(c),
         UNCHANGED used, sig' \in Seq(Due),
         \/ UNCHANGED reports
         \/ reports' = [reports EXCEPT ![c] = @ + 1]
  PROVE  ContextInv' /\ \A d \in Convs : Alive(d) => Alive(d)'
<1>1. /\ reports' \in [Convs -> Nat] /\ ReportedOnce'
      /\ \A d \in Convs : d > used => reports'[d] = 0
  BY DEF ContextInv, AbortConversation, ReportedOnce, Convs
<1>2. TargetMatchesActive'
  BY DEF ContextInv, AbortConversation, TargetMatchesActive
<1>3. deleted' \subseteq 1 .. used' /\ current' \notin deleted'
  BY DEF ContextInv, AbortConversation, Convs
<1>4. \A d \in Convs : Alive(d) => Alive(d)'
  BY DEF Alive, AbortConversation
<1>5. /\ initialized' \in BOOLEAN /\ targetActive' \in BOOLEAN /\ required' \in BOOLEAN
      /\ message' \in Texts \cup {"nothing"} /\ current' = 0
  BY DEF ContextInv, AbortConversation
<1>6. current' \in 0 .. used' /\ used' \in 0 .. MaxConv
  BY <1>5 DEF ContextInv
<1> QED BY <1>1, <1>2, <1>3, <1>4, <1>5, <1>6 DEF ContextInv

\* completed or error of a conversation, heard by the context or not.
LEMMA FinishOK ==
  ASSUME ContextInv, NEW c \in Convs, NEW code \in Codes \cup {"error"},
         NEW rest \in Seq(Due), Finish(c, code, rest), UNCHANGED used
  PROVE  ContextInv' /\ \A d \in Convs : Alive(d) => Alive(d)'
<1>1. CASE Listening(c)
  BY <1>1, TellsAreDue, AbortOK DEF Finish, Listening
<1>2. CASE ~Listening(c)
  BY <1>2, SameContext DEF Finish
<1> QED BY <1>1, <1>2

\* The effect of PamConversation::abort on the processes.
LEMMA KillOK ==
  ASSUME ProcessInv, NEW c \in Convs, KillChild(c), UNCHANGED used
  PROVE  /\ ProcessInv' /\ pid'[c] = "none"
         /\ \A d \in Convs : pid[d] = "none" => pid'[d] = "none"
<1>1. CASE pid[c] = "none"
  BY <1>1 DEF KillChild, ProcessInv, PidFits, procVars
<1>2. CASE pid[c] # "none"
  <2>1. /\ pid' = [pid EXCEPT ![c] = "none"]
        /\ child' = [child EXCEPT ![c] = IF @ = "none" THEN @ ELSE "reaped"]
        /\ stray' \in BOOLEAN
        /\ UNCHANGED <<left, last, toMain, answers>>
    BY <1>2 DEF KillChild, ProcessInv, PidFits
  <2> QED BY <2>1 DEF ProcessInv, PidFits
<1> QED BY <1>1, <1>2

\* A step that ends the life of no conversation but one without a pid, and
\* brings no pid back, keeps the dead without one.
LEMMA DeadOK ==
  ASSUME DeadHaveNoPid, used \in 0 .. MaxConv, UNCHANGED used,
         \A d \in Convs : Alive(d) => Alive(d)' \/ pid'[d] = "none",
         \A d \in Convs : pid[d] = "none" => pid'[d] = "none"
  PROVE  DeadHaveNoPid'
BY DEF DeadHaveNoPid, Convs

\* onInternalError: the child is waited for and, if that was news, reported.
LEMMA InternalErrorOK ==
  ASSUME PamInv, NEW c \in Convs, NEW rest \in Seq(Due),
         InternalError(c, rest)
  PROVE  PamInv'
<1>0. UNCHANGED used
  BY DEF InternalError, ctxVars
<1>1. /\ ProcessInv' /\ pid'[c] = "none"
      /\ \A d \in Convs : pid[d] = "none" => pid'[d] = "none"
  BY <1>0, KillOK DEF InternalError, PamInv
<1>2. ContextInv' /\ \A d \in Convs : Alive(d) => Alive(d)'
  <2>1. CASE pid[c] # "none"
    BY <1>0, <2>1, FinishOK DEF InternalError, PamInv
  <2>2. CASE pid[c] = "none"
    BY <2>2, SameContext DEF InternalError, PamInv
  <2> QED BY <2>1, <2>2
<1>3. DeadHaveNoPid'
  BY <1>0, <1>1, <1>2, DeadOK DEF PamInv, ContextInv
<1> QED BY <1>1, <1>2, <1>3 DEF PamInv

\* startConversation, called when there is no conversation: it fails before one
\* is made, or makes one that has no process yet.
LEMMA StartConversationOK ==
  ASSUME PamInv, NEW rest \in Seq(Due), StartConversation(rest),
         current = 0, UNCHANGED stray
  PROVE  PamInv'
<1>0. /\ ContextInv /\ ProcessInv /\ DeadHaveNoPid /\ used \in 0 .. MaxConv
      /\ initialized' = TRUE /\ required' = FALSE /\ deleted \subseteq 1 .. used
      /\ UNCHANGED <<message, procVars, deleted, reports>>
  BY DEF PamInv, ContextInv, StartConversation
<1> DEFINE n == used + 1
<1>1. CASE targetActive' = FALSE /\ sig' = rest /\ UNCHANGED <<current, used>>
  <2>1. ProcessInv' /\ \A d \in Convs : pid[d] = "none" => pid'[d] = "none"
    BY <1>0, <1>1, SameProcesses
  <2>2. \A d \in Convs : Alive(d) => Alive(d)'
    BY <1>0, <1>1 DEF Alive
  <2>3. DeadHaveNoPid'
    BY <1>0, <1>1, <2>1, <2>2, DeadOK
  <2>4. TargetMatchesActive' /\ ReportedOnce'
    BY <1>0, <1>1 DEF ContextInv, TargetMatchesActive, ReportedOnce
  <2>5. ContextInv'
    BY <1>0, <1>1, <2>4 DEF ContextInv
  <2> QED BY <2>1, <2>3, <2>5 DEF PamInv
<1>2. CASE /\ used < MaxConv /\ used' = n /\ targetActive' = TRUE /\ current' = n
           /\ sig' = <<"active", "start">> \o rest
  <2>1. n \in Convs /\ n \in Nat /\ \A d \in Convs : d > used' => d > used /\ d # n
    BY <1>0, <1>2 DEF Convs
  <2>2. ProcessInv'
    BY <1>0, <2>1 DEF ProcessInv, PidFits, procVars
  <2>3. sig' \in Seq(Due)
    <3>1. <<"active", "start">> \in Seq(Due)
      BY DEF Due, Signals
    <3> QED BY <1>2, <3>1, ConcatProperties
  <2>4. ReportedOnce' /\ \A d \in Convs : d > used' => reports'[d] = 0
    BY <1>0, <1>2, <2>1 DEF ContextInv, ReportedOnce
  <2>5. TargetMatchesActive'
    BY <1>0, <1>2 DEF TargetMatchesActive
  <2>6. deleted' \subseteq 1 .. used' /\ current' \notin deleted'
        /\ used' \in 0 .. MaxConv /\ current' \in 0 .. used'
    BY <1>0, <1>2
  <2>7. ContextInv'
    BY <1>0, <1>2, <2>3, <2>4, <2>5, <2>6 DEF ContextInv
  <2>8. DeadHaveNoPid'
    <3> SUFFICES ASSUME NEW d \in 1 .. used', ~Alive(d)' PROVE pid'[d] = "none"
      BY DEF DeadHaveNoPid
    <3>1. d # n /\ d \in Convs /\ d \in 1 .. used /\ ~Alive(d)
      BY <1>0, <1>2 DEF Alive, Convs
    <3> QED BY <1>0, <3>1 DEF DeadHaveNoPid, procVars
  <2> QED BY <2>2, <2>7, <2>8 DEF PamInv
<1>3. CASE StartConversation(rest)
  BY <1>0, <1>1, <1>2 DEF StartConversation
<1> QED BY <1>3

\* The rest of it: the conversation ends at once, runs, or takes -1 for a child.
LEMMA StartProcessOK ==
  ASSUME PamInv, StartProcess
  PROVE  PamInv'
<1>0. /\ ContextInv /\ ProcessInv /\ DeadHaveNoPid /\ current \in Convs /\ current <= used
      /\ UNCHANGED <<used, stray>> /\ Tail(sig) \in Seq(Due)
  BY HeadTailProperties DEF PamInv, ContextInv, StartProcess, StartsOwn, Convs
<1>1. CASE Finish(current, "error", Tail(sig)) /\ UNCHANGED procVars
  <2>1. ContextInv' /\ \A d \in Convs : Alive(d) => Alive(d)'
    BY <1>0, <1>1, FinishOK
  <2>2. ProcessInv' /\ \A d \in Convs : pid[d] = "none" => pid'[d] = "none"
    BY <1>0, <1>1, SameProcesses
  <2>3. DeadHaveNoPid'
    BY <1>0, <2>1, <2>2, DeadOK DEF ContextInv
  <2> QED BY <2>1, <2>2, <2>3 DEF PamInv
<1>2. CASE /\ sig' = Tail(sig)
           /\ \/ /\ pid' = [pid EXCEPT ![current] = "child"]
                 /\ child' = [child EXCEPT ![current] = "running"]
              \/ /\ pid' = [pid EXCEPT ![current] = "minus1"]
                 /\ child' = [child EXCEPT ![current] = "none"]
           /\ UNCHANGED <<ctxVars, left, last, toMain, answers, deleted, reports>>
  <2>1. ContextInv' /\ \A d \in Convs : Alive(d) => Alive(d)'
    BY <1>0, <1>2, SameContext
  <2>2. /\ pid' \in [Convs -> {"none", "child", "minus1"}]
        /\ child' \in [Convs -> {"none", "running", "reading", "exited", "reaped"}]
        /\ \/ pid'[current] = "child" /\ child'[current] = "running"
           \/ pid'[current] = "minus1" /\ child'[current] = "none"
        /\ \A d \in Convs : d # current => pid'[d] = pid[d] /\ child'[d] = child[d]
    <3>1. /\ pid \in [Convs -> {"none", "child", "minus1"}]
          /\ child \in [Convs -> {"none", "running", "reading", "exited", "reaped"}]
      BY <1>0 DEF ProcessInv
    <3> QED BY <1>0, <1>2, <3>1
  <2>3. \A d \in Convs : d > used => d # current
    BY <1>0 DEF ContextInv, Convs
  <2>4. ProcessInv'
    BY <1>0, <1>2, <2>2, <2>3 DEF ProcessInv, PidFits
  <2>5. DeadHaveNoPid'
    <3> SUFFICES ASSUME NEW d \in 1 .. used', ~Alive(d)' PROVE pid'[d] = "none"
      BY DEF DeadHaveNoPid
    <3>1. d \in 1 .. used /\ d \in Convs /\ ~Alive(d) /\ d # current
      BY <1>0, <1>2 DEF Alive, Convs, ctxVars, ContextInv
    <3> QED BY <1>0, <2>2, <3>1 DEF DeadHaveNoPid
  <2> QED BY <2>1, <2>4, <2>5 DEF PamInv
<1> QED BY <1>1, <1>2 DEF StartProcess
-----------------------------------------------------------------------------
(* Calls of the QML *)

LEMMA StartOK ==
  ASSUME PamInv, NEW rest \in Seq(Due), Start(rest)
  PROVE  PamInv'
<1>1. CASE initialized
  BY <1>1, StartConversationOK DEF Start
<1>2. CASE ~initialized
  <2>1. /\ targetActive' = TRUE /\ sig' = rest
        /\ UNCHANGED <<initialized, current, used, message, required, procVars,
                       stray, deleted, reports>>
    BY <1>2 DEF Start
  <2>2. ProcessInv' /\ \A d \in Convs : pid[d] = "none" => pid'[d] = "none"
    BY <2>1, SameProcesses DEF PamInv
  <2>3. \A d \in Convs : Alive(d) => Alive(d)'
    BY <2>1 DEF Alive
  <2>4. DeadHaveNoPid'
    BY <2>1, <2>2, <2>3, DeadOK DEF PamInv, ContextInv
  <2>5. TargetMatchesActive' /\ ReportedOnce'
    BY <1>2, <2>1 DEF PamInv, ContextInv, TargetMatchesActive, ReportedOnce
  <2>6. ContextInv'
    BY <2>1, <2>5 DEF PamInv, ContextInv
  <2> QED BY <2>2, <2>4, <2>6 DEF PamInv
<1> QED BY <1>1, <1>2

LEMMA PamAbortOK ==
  ASSUME PamInv, NEW rest \in Seq(Due), Abort(rest)
  PROVE  PamInv'
<1>0. sig' \in Seq(Due)
  <2>1. "error" \in Codes \cup {"error"} /\ sig' = AbortTells \o rest
    BY DEF Abort
  <2> QED BY <2>1, TellsAreDue
<1>1. /\ current \in Convs /\ AbortConversation(current) /\ sig' \in Seq(Due)
      /\ UNCHANGED <<used, procVars, stray, reports>>
  BY <1>0 DEF Abort, PamInv, ContextInv, Convs
<1>2. ContextInv' /\ \A d \in Convs : Alive(d) => Alive(d)'
  BY <1>1, AbortOK DEF PamInv
<1>3. ProcessInv' /\ \A d \in Convs : pid[d] = "none" => pid'[d] = "none"
  BY <1>1, SameProcesses DEF PamInv
<1>4. DeadHaveNoPid'
  BY <1>1, <1>2, <1>3, DeadOK DEF PamInv, ContextInv
<1> QED BY <1>2, <1>3, <1>4 DEF PamInv

LEMMA RespondOK ==
  ASSUME PamInv, NEW rest \in Seq(Due), Respond(rest)
  PROVE  PamInv'
<1>1. current \in Convs
  BY DEF Respond, PamInv, ContextInv, Convs
<1>2. CASE child[current] \notin {"running", "reading"}
  BY <1>1, <1>2, InternalErrorOK DEF Respond
<1>3. CASE child[current] \in {"running", "reading"}
  <2>1. /\ answers' = [answers EXCEPT ![current] = @ + 1] /\ sig' = rest
        /\ UNCHANGED <<ctxVars, pid, child, left, last, toMain, deleted, stray,
                       reports>>
    BY <1>3 DEF Respond
  <2>2. ContextInv' /\ \A d \in Convs : Alive(d) => Alive(d)'
    BY <2>1, SameContext DEF PamInv
  <2>3. current <= used /\ UNCHANGED used
    BY <2>1 DEF PamInv, ContextInv, ctxVars
  <2>4. answers' \in [Convs -> Nat] /\ \A d \in Convs : d > used => answers'[d] = answers[d]
    <3>1. \A d \in Convs : d > used => d # current
      BY <2>3 DEF PamInv, ContextInv, Convs
    <3> QED BY <1>1, <2>1, <3>1 DEF PamInv, ProcessInv
  <2>6. PidFits'
    BY <2>1, <2>3, <2>4 DEF PamInv, ProcessInv, PidFits
  <2>7. ProcessInv'
    BY <2>1, <2>4, <2>6 DEF PamInv, ProcessInv
  <2>5. DeadHaveNoPid'
    BY <2>1, <2>2, <2>3, DeadOK DEF PamInv, ContextInv
  <2> QED BY <2>2, <2>7, <2>5 DEF PamInv
<1> QED BY <1>2, <1>3

LEMMA QmlCallOK ==
  ASSUME PamInv, NEW rest \in Seq(Due), QmlCall(rest)
  PROVE  PamInv'
BY StartOK, PamAbortOK, RespondOK DEF QmlCall

LEMMA ComponentCompleteOK ==
  ASSUME PamInv, ComponentComplete
  PROVE  PamInv'
<1>0. current = 0 /\ ~initialized /\ sig = <<>> /\ UNCHANGED stray
  BY DEF ComponentComplete, Idle, PamInv, ContextInv
<1>1. CASE targetActive
  <2>1. <<>> \in Seq(Due)
    OBVIOUS
  <2> QED BY <1>0, <1>1, <2>1, StartConversationOK DEF ComponentComplete
<1>2. CASE ~targetActive
  <2>1. /\ initialized' = TRUE
        /\ UNCHANGED <<targetActive, current, used, message, required, procVars,
                       sig, deleted, reports>>
    BY <1>2 DEF ComponentComplete
  <2>2. ProcessInv' /\ \A d \in Convs : pid[d] = "none" => pid'[d] = "none"
    BY <1>0, <2>1, SameProcesses DEF PamInv
  <2>3. \A d \in Convs : Alive(d) => Alive(d)'
    BY <2>1 DEF Alive
  <2>4. DeadHaveNoPid'
    BY <2>1, <2>2, <2>3, DeadOK DEF PamInv, ContextInv
  <2>5. TargetMatchesActive' /\ ReportedOnce'
    BY <1>0, <1>2, <2>1 DEF PamInv, ContextInv, TargetMatchesActive, ReportedOnce
  <2>6. ContextInv'
    BY <2>1, <2>5 DEF PamInv, ContextInv
  <2> QED BY <2>2, <2>4, <2>6 DEF PamInv
<1> QED BY <1>1, <1>2

-----------------------------------------------------------------------------
(* Events of a conversation, and the child *)

\* A text is taken from the pipe. Nothing but message, required, sig and the
\* pipe changes.
LEMMA TextOK ==
  ASSUME PamInv, NEW c \in Convs, OnMessage(c), Head(toMain[c]) \in Texts,
         OnText(c, Head(toMain[c]))
  PROVE  PamInv'
<1>0. /\ UNCHANGED <<initialized, targetActive, current, used, pid, child, left,
                     last, answers, deleted, stray, reports>>
      /\ toMain' = [toMain EXCEPT ![c] = Tail(@)]
      /\ sig = <<>> /\ toMain[c] # <<>>
      /\ sig' \in {<<>>, <<"received">>, <<"required">> \o <<"received">>}
      /\ message' \in Texts \cup {"nothing"} /\ required' \in BOOLEAN
  <2>1. /\ UNCHANGED <<initialized, targetActive, current, used, pid, child, left,
                       last, answers, deleted, stray, reports>>
        /\ toMain' = [toMain EXCEPT ![c] = Tail(@)]
        /\ sig = <<>> /\ toMain[c] # <<>>
    BY DEF OnMessage, OnText, Idle
  <2>2. CASE Listening(c)
    <3>1. /\ message' = Head(toMain[c]) /\ required' \in BOOLEAN
          /\ \/ sig' = <<"required">> \o <<"received">>
             \/ sig' = <<>> \o <<"received">>
      BY <2>2 DEF OnText
    <3>2. <<>> \o <<"received">> = <<"received">>
      OBVIOUS
    <3> QED BY <2>1, <3>1, <3>2
  <2>3. CASE ~Listening(c)
    BY <2>1, <2>3 DEF OnText, PamInv, ContextInv
  <2> QED BY <2>2, <2>3
<1>1. sig' \in Seq(Due)
  <2>1. /\ <<>> \in Seq(Due) /\ <<"received">> \in Seq(Due)
        /\ <<"required">> \in Seq(Due)
    BY DEF Due, Signals
  <2>2. <<"required">> \o <<"received">> \in Seq(Due)
    BY <2>1, ConcatProperties
  <2> QED BY <1>0, <2>1, <2>2
<1>2. TargetMatchesActive' /\ ReportedOnce'
  BY <1>0 DEF PamInv, ContextInv, TargetMatchesActive, ReportedOnce
<1>3. ContextInv'
  BY <1>0, <1>1, <1>2 DEF PamInv, ContextInv
<1>4. toMain' \in [Convs -> Seq(Texts \cup Codes)]
      /\ \A d \in Convs : toMain[d] = <<>> => toMain'[d] = <<>>
  BY <1>0, HeadTailProperties DEF PamInv, ProcessInv, PidFits
<1>5. ProcessInv'
  BY <1>0, <1>4 DEF PamInv, ProcessInv, PidFits
<1>6. DeadHaveNoPid'
  BY <1>0 DEF PamInv, DeadHaveNoPid, Alive
<1> QED BY <1>3, <1>5, <1>6 DEF PamInv

\* An exit code is taken from the pipe: the context is told.
LEMMA ExitCodeOK ==
  ASSUME PamInv, NEW c \in Convs, OnMessage(c), Head(toMain[c]) \in Codes,
         OnExitCode(c, Head(toMain[c]))
  PROVE  PamInv'
<1>0. /\ Finish(c, Head(toMain[c]), <<>>)
      /\ UNCHANGED <<used, pid, child, left, last, answers, stray>>
      /\ toMain' = [toMain EXCEPT ![c] = Tail(@)] /\ toMain[c] # <<>>
  BY DEF OnMessage, OnExitCode
<1>1. ContextInv' /\ \A d \in Convs : Alive(d) => Alive(d)'
  <2>1. <<>> \in Seq(Due)
    OBVIOUS
  <2> QED BY <1>0, <2>1, FinishOK DEF PamInv
<1>2. /\ toMain' \in [Convs -> Seq(Texts \cup Codes)]
      /\ \A d \in Convs : toMain[d] = <<>> => toMain'[d] = <<>>
  BY <1>0, HeadTailProperties DEF PamInv, ProcessInv
<1>3. ProcessInv'
  <2>1. UNCHANGED <<used, pid, child, answers>> /\ PidFits
    BY <1>0 DEF PamInv, ProcessInv
  <2>2. PidFits'
    BY <1>2, <2>1 DEF PidFits
  <2> QED BY <1>0, <1>2, <2>2 DEF PamInv, ProcessInv
<1>4. DeadHaveNoPid'
  BY <1>0, <1>1, DeadOK DEF PamInv, ContextInv
<1> QED BY <1>1, <1>3, <1>4 DEF PamInv

\* And the child waited for.
LEMMA WaitForChildOK ==
  ASSUME PamInv, ReapingKnown, NEW c \in Convs, WaitForChild(c)
  PROVE  PamInv'
<1>0. /\ UNCHANGED <<ctxVars, left, last, toMain, answers, sig, deleted, reports>>
      /\ pid' = [pid EXCEPT ![c] = "none"] /\ child' = [child EXCEPT ![c] = "reaped"]
      /\ stray' \in BOOLEAN /\ UNCHANGED used
  BY DEF WaitForChild, PamInv, ProcessInv, ctxVars
<1>1. ContextInv' /\ \A d \in Convs : Alive(d) => Alive(d)'
  BY <1>0, SameContext DEF PamInv, ContextInv
<1>2. ~(c > used)
  BY DEF WaitForChild, ReapingKnown, PamInv, ContextInv, Convs
<1>3. ProcessInv' /\ \A d \in Convs : pid[d] = "none" => pid'[d] = "none"
  <2>1. PidFits'
    <3>1. /\ PidFits /\ pid \in [Convs -> {"none", "child", "minus1"}]
          /\ child \in [Convs -> {"none", "running", "reading", "exited", "reaped"}]
      BY DEF PamInv, ProcessInv
    <3> QED BY <1>0, <1>2, <3>1 DEF PidFits
  <2> QED BY <1>0, <2>1 DEF PamInv, ProcessInv
<1>4. DeadHaveNoPid'
  BY <1>0, <1>1, <1>3, DeadOK DEF PamInv, ContextInv
<1> QED BY <1>1, <1>3, <1>4 DEF PamInv

\* Deferred deletion: the destructor leaves no child behind.
LEMMA DeletedOK ==
  ASSUME PamInv, NEW c \in Convs, ConversationDeleted(c)
  PROVE  PamInv'
<1>0. /\ deleted' = deleted \ {c} /\ KillChild(c)
      /\ UNCHANGED <<ctxVars, sig, reports>> /\ UNCHANGED used
  BY DEF ConversationDeleted, ctxVars
<1>1. /\ ProcessInv' /\ pid'[c] = "none"
      /\ \A d \in Convs : pid[d] = "none" => pid'[d] = "none"
  BY <1>0, KillOK DEF PamInv
<1>2. TargetMatchesActive' /\ ReportedOnce'
  BY <1>0 DEF PamInv, ContextInv, TargetMatchesActive, ReportedOnce, ctxVars
<1>3. ContextInv'
  BY <1>0, <1>2 DEF PamInv, ContextInv, ctxVars
<1>4. \A d \in Convs : Alive(d) => Alive(d)' \/ pid'[d] = "none"
  BY <1>0, <1>1 DEF Alive, ctxVars
<1>5. DeadHaveNoPid'
  BY <1>0, <1>1, <1>4, DeadOK DEF PamInv, ContextInv
<1> QED BY <1>1, <1>3, <1>5 DEF PamInv

LEMMA ConvEventOK ==
  ASSUME PamInv, ReapingKnown, NEW c \in Convs, ConvEvent(c)
  PROVE  PamInv'
<1>1. CASE OnMessage(c)
  BY <1>1, TextOK, ExitCodeOK DEF OnMessage
<1>2. CASE OnEof(c)
  <2>1. <<>> \in Seq(Due)
    OBVIOUS
  <2> QED BY <1>2, <2>1, InternalErrorOK DEF OnEof
<1>3. CASE ConversationDeleted(c)
  BY <1>3, DeletedOK
<1>4. CASE WaitForChild(c)
  BY <1>4, WaitForChildOK
<1> QED BY <1>1, <1>2, <1>3, <1>4 DEF ConvEvent

\* What a running child does, it does to its own pipes and to itself.
LEMMA ChildOK ==
  ASSUME PamInv, NEW c \in Convs, ChildWorks(c) \/ ChildCrashes(c)
  PROVE  PamInv'
<1>0. /\ UNCHANGED <<ctxVars, pid, sig, deleted, stray, reports>> /\ UNCHANGED used
      /\ child[c] \in {"running", "reading"}
  BY DEF ChildWorks, ChildInforms, ChildPrompts, ChildSays, ChildReads, ChildExits,
         ChildCrashes, ctxVars
<1>1. ContextInv' /\ DeadHaveNoPid'
  <2>1. ContextInv'
    BY <1>0, SameContext DEF PamInv, ContextInv
  <2> QED BY <1>0, <2>1 DEF PamInv, DeadHaveNoPid, Alive, ctxVars
<1>2. pid[c] = "child" /\ c <= used /\ used \in Nat
  <2>1. PidFits /\ pid[c] \in {"none", "child", "minus1"} /\ used \in 0 .. MaxConv
    BY DEF PamInv, ProcessInv, ContextInv
  <2>2. pid[c] = "child" /\ ~(c > used)
    BY <1>0, <2>1 DEF PidFits
  <2> QED BY <2>1, <2>2 DEF Convs
\* The rest of the invariant looks at the child and, where none was started, at the pipes.
<1>8. ASSUME child'[c] \in {"running", "reading", "exited"},
             \A d \in Convs : d # c => /\ child'[d] = child[d] /\ toMain'[d] = toMain[d]
                                       /\ answers'[d] = answers[d]
      PROVE  PidFits'
  BY <1>0, <1>2, <1>8 DEF PamInv, ProcessInv, PidFits
<1>3. \A text \in Texts, next \in {"running", "reading"} :
         ChildSays(c, text, next) => ProcessInv'
  <2> SUFFICES ASSUME NEW text \in Texts, NEW next \in {"running", "reading"},
                      ChildSays(c, text, next)
               PROVE  ProcessInv'
    OBVIOUS
  <2>1. /\ left' = [left EXCEPT ![c] = @ - 1] /\ left[c] > 0
        /\ toMain' = [toMain EXCEPT ![c] = Append(@, text)]
        /\ child' = [child EXCEPT ![c] = next]
        /\ last' = [last EXCEPT ![c] =
              IF text = "prompt" /\ @ \in {"prompt", "again"} THEN "again" ELSE text]
        /\ UNCHANGED answers
    BY DEF ChildSays
  <2>2. left' \in [Convs -> 0 .. MaxMsgs] /\ last' \in [Convs -> Texts \cup {"nothing", "again"}]
    BY <2>1 DEF PamInv, ProcessInv, PidFits
  <2>3. toMain' \in [Convs -> Seq(Texts \cup Codes)]
    BY <2>1, AppendProperties DEF PamInv, ProcessInv, PidFits
  <2>4. PidFits'
    BY <1>8, <2>1 DEF PamInv, ProcessInv
  <2> QED BY <1>0, <2>1, <2>2, <2>3, <2>4 DEF PamInv, ProcessInv
<1>4. ASSUME ChildInforms(c) \/ ChildPrompts(c) PROVE ProcessInv'
  BY <1>3, <1>4 DEF ChildInforms, ChildPrompts, Texts
<1>5. ASSUME ChildReads(c) PROVE ProcessInv'
  <2>1. PidFits'
    BY <1>5, <1>8 DEF PamInv, ProcessInv, ChildReads
  <2> QED BY <1>0, <1>5, <2>1 DEF PamInv, ProcessInv, ChildReads
<1>6. ASSUME ChildExits(c) PROVE ProcessInv'
  <2>1. PICK code \in Codes : toMain' = [toMain EXCEPT ![c] = Append(@, code)]
    BY <1>6 DEF ChildExits
  <2>2. toMain' \in [Convs -> Seq(Texts \cup Codes)]
    BY <2>1, AppendProperties DEF PamInv, ProcessInv, PidFits
  <2>3. /\ child' = [child EXCEPT ![c] = "exited"] /\ UNCHANGED <<left, last, answers>>
        /\ \A d \in Convs : d # c => toMain'[d] = toMain[d]
    BY <1>6, <2>1 DEF ChildExits, PamInv, ProcessInv, PidFits
  <2>4. PidFits'
    BY <1>8, <2>3 DEF PamInv, ProcessInv
  <2> QED BY <1>0, <2>2, <2>3, <2>4 DEF PamInv, ProcessInv
<1>7. ASSUME ChildCrashes(c) PROVE ProcessInv'
  <2>1. PidFits'
    BY <1>7, <1>8 DEF PamInv, ProcessInv, ChildCrashes
  <2> QED BY <1>0, <1>7, <2>1 DEF PamInv, ProcessInv, ChildCrashes
<1> QED BY <1>1, <1>4, <1>5, <1>6, <1>7 DEF ChildWorks, PamInv

\* A signal that QML has no handler for.
LEMMA IgnoreOK ==
  ASSUME PamInv, sig # <<>>, Ignore
  PROVE  PamInv'
<1>1. /\ sig' \in Seq(Due)
      /\ UNCHANGED <<ctxVars, procVars, deleted, stray, reports>> /\ UNCHANGED used
  BY HeadTailProperties DEF Ignore, PamInv, ContextInv, ctxVars
<1>2. ContextInv' /\ \A d \in Convs : Alive(d) => Alive(d)'
  BY <1>1, SameContext DEF PamInv
<1>3. ProcessInv' /\ \A d \in Convs : pid[d] = "none" => pid'[d] = "none"
  BY <1>1, SameProcesses DEF PamInv
<1>4. DeadHaveNoPid'
  BY <1>1, <1>2, <1>3, DeadOK DEF PamInv, ContextInv
<1> QED BY <1>2, <1>3, <1>4 DEF PamInv

\* The invariant is inductive.
LEMMA NextPamInv == PamInv /\ ReapingKnown /\ [PamNext]_pamVars => PamInv'
<1> SUFFICES ASSUME PamInv, ReapingKnown, [PamNext]_pamVars PROVE PamInv'
  OBVIOUS
<1>0. <<>> \in Seq(Due) /\ sig \in Seq(Due) /\ (sig # <<>> => Tail(sig) \in Seq(Due))
  BY HeadTailProperties DEF PamInv, ContextInv
<1>1. CASE ComponentComplete
  BY <1>1, ComponentCompleteOK
<1>2. CASE UserEvent
  BY <1>0, <1>2, QmlCallOK DEF UserEvent
<1>3. CASE Deliver
  BY <1>0, <1>3, QmlCallOK, IgnoreOK DEF Deliver
<1>4. CASE \E c \in Convs : ConvEvent(c) \/ ChildWorks(c) \/ ChildCrashes(c)
  BY <1>4, ConvEventOK, ChildOK
<1>5. CASE UNCHANGED pamVars
  <2>1. /\ UNCHANGED <<ctxVars, deleted, reports>> /\ sig' \in Seq(Due)
        /\ UNCHANGED <<procVars, stray, used>>
    BY <1>5 DEF pamVars, ctxVars, PamInv, ContextInv
  <2>2. ContextInv' /\ \A d \in Convs : Alive(d) => Alive(d)'
    BY <2>1, SameContext DEF PamInv
  <2>3. ProcessInv' /\ \A d \in Convs : pid[d] = "none" => pid'[d] = "none"
    BY <2>1, SameProcesses DEF PamInv
  <2> QED BY <2>1, <2>2, <2>3, DeadOK DEF PamInv, ContextInv
<1>6. CASE StartProcess
  BY <1>6, StartProcessOK
<1> QED BY <1>1, <1>2, <1>3, <1>4, <1>5, <1>6 DEF PamNext

\* What onMessage waits for stays known: conversations are only added.
LEMMA NextReapingKnown == PamInv /\ ReapingKnown /\ [PamNext]_pamVars => ReapingKnown'
<1> SUFFICES ASSUME PamInv, ReapingKnown, [PamNext]_pamVars PROVE ReapingKnown'
  OBVIOUS
<1>0. used \in Nat
  BY DEF PamInv, ContextInv
<1>1. CASE UNCHANGED reaping /\ used' \in {used, used + 1}
  BY <1>0, <1>1 DEF ReapingKnown
<1>2. ASSUME NEW rest, StartConversation(rest) PROVE used' \in {used, used + 1}
  BY <1>2 DEF StartConversation
<1>4. ASSUME NEW rest, QmlCall(rest) PROVE UNCHANGED reaping /\ used' \in {used, used + 1}
  <2>1. CASE Start(rest)
    BY <1>2, <2>1 DEF Start
  <2>2. CASE Abort(rest)
    BY <2>2 DEF Abort
  <2>3. CASE Respond(rest)
    BY <2>3 DEF Respond, InternalError, ctxVars
  <2> QED BY <1>4, <2>1, <2>2, <2>3 DEF QmlCall
<1>5. CASE ComponentComplete
  BY <1>1, <1>2, <1>5 DEF ComponentComplete
<1>6. CASE UserEvent \/ Deliver \/ StartProcess
  BY <1>1, <1>4, <1>6 DEF UserEvent, Deliver, Ignore, StartProcess, ctxVars
<1>7. ASSUME NEW c \in Convs, OnMessage(c) PROVE ReapingKnown'
  <2>1. CASE Head(toMain[c]) \in Texts /\ OnText(c, Head(toMain[c]))
    BY <1>1, <2>1 DEF OnText
  <2>2. CASE OnExitCode(c, Head(toMain[c]))
    <3>1. toMain[c] # <<>> /\ PidFits
      BY <1>7 DEF OnMessage, PamInv, ProcessInv
    <3>2. c \in 0 .. used
      BY <1>0, <3>1 DEF PidFits, Convs
    <3> QED BY <2>2, <3>2 DEF OnExitCode, ReapingKnown
  <2> QED BY <1>7, <2>1, <2>2 DEF OnMessage
<1>8. ASSUME NEW c \in Convs, WaitForChild(c) \/ OnEof(c) \/ ConversationDeleted(c)
      PROVE  ReapingKnown'
  <2>1. reaping' \in {reaping, 0} /\ UNCHANGED used
    BY <1>8 DEF WaitForChild, OnEof, InternalError, ConversationDeleted, ctxVars
  <2> QED BY <1>0, <2>1 DEF ReapingKnown
<1>9. ASSUME NEW c \in Convs, ChildWorks(c) \/ ChildCrashes(c) PROVE ReapingKnown'
  BY <1>1, <1>9 DEF ChildWorks, ChildInforms, ChildPrompts, ChildSays, ChildReads, ChildExits,
     ChildCrashes, ctxVars
<1>10. CASE UNCHANGED pamVars
  BY <1>1, <1>10 DEF pamVars, ctxVars
<1> QED BY <1>5, <1>6, <1>7, <1>8, <1>9, <1>10 DEF PamNext, ConvEvent

-----------------------------------------------------------------------------
(* The theorems *)

\* The context, its conversation and the child agree in every state, whatever
\* the PAM stack sends and the QML calls.
THEOREM PamCorrect == PamSpec => []PamConsistent
<1>1. PamSpec => [](PamInv /\ ReapingKnown)
  BY InitPamInv, NextPamInv, NextReapingKnown, PTL DEF PamSpec
<1> QED BY <1>1, PamInvGives, PTL

\* A handler finds a conversation in deleteLater() disconnected: it reports
\* nothing and is not started again.
LEMMA FinishSilences ==
  ASSUME PamInv, NEW d \in deleted, NEW c \in Convs, NEW code, NEW rest,
         Finish(c, code, rest)
  PROVE  reports'[d] = reports[d]
<1>1. d # current /\ d \in Convs /\ reports \in [Convs -> Nat]
  BY DEF PamInv, ContextInv, Convs
<1>2. \/ c = current /\ reports' = [reports EXCEPT ![c] = @ + 1]
      \/ UNCHANGED reports
  BY DEF Finish, Listening
<1> QED BY <1>1, <1>2

LEMMA InternalErrorSilences ==
  ASSUME PamInv, NEW d \in deleted, NEW c \in Convs, NEW rest, InternalError(c, rest)
  PROVE  reports'[d] = reports[d]
BY FinishSilences DEF InternalError

LEMMA StartSilences ==
  ASSUME PamInv, NEW d \in deleted, NEW rest, StartConversation(rest)
  PROVE  reports'[d] = reports[d]
BY DEF StartConversation

LEMMA QmlCallSilences ==
  ASSUME PamInv, NEW d \in deleted, NEW rest, QmlCall(rest)
  PROVE  reports'[d] = reports[d]
<1>1. CASE Start(rest)
  BY <1>1, StartSilences DEF Start
<1>2. CASE Abort(rest)
  BY <1>2 DEF Abort
<1>3. CASE Respond(rest)
  <2>1. current \in Convs
    BY <1>3 DEF Respond, PamInv, ContextInv, Convs
  <2> QED BY <1>3, <2>1, InternalErrorSilences DEF Respond
<1> QED BY <1>1, <1>2, <1>3 DEF QmlCall

\* A conversation that was aborted or has ended reports nothing any more,
\* whatever its child still sends.
THEOREM PamAbortSilences == PamSpec => AbortSilences
<1>1. PamInv /\ [PamNext]_pamVars => [\A c \in deleted : reports'[c] = reports[c]]_pamVars
  <2> SUFFICES ASSUME PamInv, PamNext, NEW d \in deleted PROVE reports'[d] = reports[d]
    OBVIOUS
  <2>1. CASE ComponentComplete
    BY <2>1, StartSilences DEF ComponentComplete
  <2>2. CASE UserEvent
    BY <2>2, QmlCallSilences DEF UserEvent
  <2>3. CASE Deliver
    BY <2>3, QmlCallSilences DEF Deliver, Ignore
  <2>4. ASSUME NEW c \in Convs, ConvEvent(c) PROVE reports'[d] = reports[d]
    BY <2>4, FinishSilences, InternalErrorSilences
       DEF ConvEvent, OnMessage, OnText, OnExitCode, WaitForChild, OnEof, ConversationDeleted
  <2>5. ASSUME NEW c \in Convs, ChildWorks(c) \/ ChildCrashes(c) PROVE reports'[d] = reports[d]
    BY <2>5 DEF ChildWorks, ChildInforms, ChildPrompts, ChildSays, ChildReads, ChildExits,
                ChildCrashes
  <2>6. CASE StartProcess
    <3>1. current \in Convs
      BY <2>6 DEF StartProcess, StartsOwn, PamInv, ContextInv, Convs
    <3> QED BY <2>6, <3>1, FinishSilences DEF StartProcess
  <2> QED BY <2>1, <2>2, <2>3, <2>4, <2>5, <2>6 DEF PamNext
<1>2. PamSpec => [](PamInv /\ ReapingKnown)
  BY InitPamInv, NextPamInv, NextReapingKnown, PTL DEF PamSpec
<1> QED BY <1>1, <1>2, PTL DEF PamSpec, AbortSilences

USE MaxConvAssumption, MaxMsgsAssumption

\* Every step of the form is one of the PAM service or leaves it alone.
LEMMA FormStepIsPamStep == [AuthNext]_authVars => [PamNext]_pamVars
<1> SUFFICES ASSUME [AuthNext]_authVars PROVE [PamNext]_pamVars
  OBVIOUS
<1>1. CASE PamStep(ComponentComplete)
  BY <1>1 DEF PamStep, PamNext
<1>2. CASE Type \/ LockSecured \/ FailTimeout \/ TakeUnlock
  BY <1>2 DEF Type, LockSecured, FailTimeout, TakeUnlock
<1>3. CASE Accept
  <2>1. Idle /\ (Start(<<>>) \/ UNCHANGED pamVars)
    BY <1>3 DEF Accept, FieldEnabled
  <2> QED BY <2>1 DEF UserEvent, QmlCall, PamNext
<1>4. CASE HandleSignal
  <2>1. \/ sig # <<>> /\ Head(sig) = "required" /\ Respond(Tail(sig))
        \/ sig # <<>> /\ Ignore
        \/ StartProcess
    BY <1>4 DEF HandleSignal, OnRequired, OnReceived, OnError, OnCompleted
  <2>2. "required" \in Signals
    BY DEF Signals
  <2> QED BY <2>1, <2>2 DEF Deliver, Ignore, QmlCall, PamNext
<1>5. CASE \E c \in Convs : PamStep(ConvEvent(c)) \/ ChildStep(c)
  BY <1>5 DEF PamStep, ChildStep, PamNext
<1>6. CASE UNCHANGED authVars
  BY <1>6 DEF authVars
<1> QED BY <1>1, <1>2, <1>3, <1>4, <1>5, <1>6 DEF AuthNext

\* LockAuth is one of the QMLs that Pam allows around a PamContext.
THEOREM AuthImplementsPam == AuthSpec => PamSpec
<1>1. AuthInit => PamInit
  BY DEF AuthInit
<1> QED BY <1>1, FormStepIsPamStep, PTL DEF AuthSpec, PamSpec
-----------------------------------------------------------------------------
(* The inductive invariant of the form around the service *)

Has(s, x) == \E i \in 1 .. Len(s) : s[i] = x

\* What the pipe from a child can hold: an answer is awaited, and the end is
\* near, only after the last message. A code still to be read belongs to a
\* child that has not been waited for, and an answer to the prompt before it.
PipeFits(c) ==
  /\ \A i \in 1 .. Len(toMain[c]) - 1 : toMain[c][i] \in Infos
  /\ child[c] = "running" => \A i \in 1 .. Len(toMain[c]) : toMain[c][i] \in Infos
  /\ Has(toMain[c], "prompt") =>
       /\ answers[c] = 0 /\ last[c] \in {"prompt", "again"}
       /\ child[c] \in {"reading", "exited", "reaped"}
  /\ \A code \in Codes : Has(toMain[c], code) =>
       child[c] \in {"exited", "reaped"} /\ (Alive(c) => pid[c] # "none")
  /\ child[c] = "reading" => last[c] \in {"prompt", "again"}
  /\ answers[c] <= 1
  /\ answers[c] = 1 => child[c] \in {"reading", "exited", "reaped"}

\* What the signals still to be delivered can be: a demand for an answer comes
\* first, and its child waits; a result comes when the context is free again.
RequiredIsFirst == \A i \in 1 .. Len(sig) : i > 1 => sig[i] # "required"
ResultsWhenIdle == \A r \in Results : Has(sig, r) => current = 0
RequiredIsAwaited ==
  Has(sig, "required") =>
    /\ current # 0 /\ toMain[current] = <<>> /\ answers[current] = 0
    /\ child[current] \in {"reading", "exited", "reaped"}

\* isResponseRequired is news for the next prompt, unless that prompt follows
\* another one; a prompt is in the pipe, being delivered, or answered.
RequiredFits ==
  current # 0 =>
    /\ toMain[current] = <<>> /\ last[current] \notin {"prompt", "again"} => ~required
    /\ Len(toMain[current]) = 1 /\ toMain[current][1] = "prompt" /\ last[current] = "prompt"
         => ~required
    /\ last[current] = "prompt" /\ child[current] = "reading" /\ answers[current] = 0
         => Has(toMain[current], "prompt") \/ Has(sig, "required")

\* A conversation that is being started is the current one, still blank, and nothing else
\* is under way.
Starting ==
  Has(sig, "start") =>
    /\ sig \in {<<"active", "start">>, <<"start">>}
    /\ current # 0 /\ pid[current] = "none"
    /\ toMain[current] = <<>> /\ answers[current] = 0

\* The child that onMessage is about to wait for has reported and ended.
Reaping ==
  reaping # 0 => /\ reaping # current /\ reaping \in Convs
                 /\ pid[reaping] # "none" /\ child[reaping] = "exited"
                 /\ toMain[reaping] = <<>>

FieldTypes ==
  /\ pending \in BOOLEAN /\ typed \in BOOLEAN /\ shouldLockout \in BOOLEAN
  /\ lockout \in BOOLEAN /\ ticking \in BOOLEAN /\ unlocks \in BOOLEAN
  /\ timeLeft \in Int

PipesFit == \A c \in Convs : PipeFits(c)

AuthInv ==
  /\ FieldTypes /\ PipesFit /\ RequiredIsFirst /\ ResultsWhenIdle
  /\ RequiredIsAwaited /\ RequiredFits /\ PendingMeansBusy
  /\ Starting /\ Reaping /\ ReapingKnown

\* The invariants give the properties of the run.
LEMMA AuthInvGives == PamInv /\ AuthInv => AuthConsistent /\ PromptsAnswered
<1> SUFFICES ASSUME PamInv, AuthInv PROVE AuthConsistent /\ PromptsAnswered
  OBVIOUS
<1>1. AuthTypeOK
  BY PamInvGives DEF PamConsistent, AuthTypeOK, AuthInv, FieldTypes
<1>5. ~Misstarted
  <2> SUFFICES ASSUME Misstarted PROVE FALSE
    OBVIOUS
  <2>1. Len(sig) \in Nat \ {0} /\ Head(sig) = sig[1] /\ Head(sig) = "start"
    BY EmptySeq DEF Misstarted, PamInv, ContextInv
  <2>2. 1 \in 1 .. Len(sig)
    BY <2>1
  <2>3. Has(sig, "start")
    BY <2>1, <2>2 DEF Has
  <2> QED BY <2>3 DEF AuthInv, Starting, Misstarted, StartsOwn
<1>2. AnswerFitsPrompt
  BY DEF AuthInv, PipesFit, PipeFits, AnswerFitsPrompt
<1>3. CompletedWhileIdle
  <2> SUFFICES ASSUME sig # <<>>, Head(sig) \in Results PROVE current = 0
    BY DEF CompletedWhileIdle
  <2>1. sig \in Seq(Due)
    BY DEF PamInv, ContextInv
  <2>2. Len(sig) \in Nat \ {0}
    BY <2>1, EmptySeq
  <2>3. Head(sig) = sig[1]
    BY <2>1
  <2> QED BY <2>2, <2>3 DEF AuthInv, ResultsWhenIdle, Has
<1>4. PromptsAnswered
  <2> SUFFICES ASSUME NEW c \in Convs, Unanswered(c), last[c] # "again" PROVE FALSE
    BY DEF PromptsAnswered
  <2>1. /\ c = current /\ child[c] = "reading" /\ answers[c] = 0 /\ toMain[c] = <<>>
        /\ sig = <<>> /\ current # 0
    BY DEF Unanswered, Convs
  <2>2. ~Has(toMain[c], "prompt") /\ ~Has(sig, "required")
    BY <2>1 DEF Has
  <2>3. last[c] # "prompt"
    BY <2>1, <2>2 DEF AuthInv, RequiredFits
  <2> QED BY <2>1, <2>3 DEF AuthInv, PipesFit, PipeFits
<1> QED BY <1>1, <1>2, <1>3, <1>4, <1>5 DEF AuthConsistent, AuthInv

\* Before the element is complete there is nothing.
LEMMA InitAuthInv == AuthInit => AuthInv
<1> SUFFICES ASSUME AuthInit PROVE AuthInv
  OBVIOUS
<1>0. /\ sig = <<>> /\ current = 0 /\ pending = FALSE /\ reaping = 0
      /\ \A c \in Convs : toMain[c] = <<>> /\ child[c] = "none" /\ answers[c] = 0
  BY DEF AuthInit, PamInit
<1>1. FieldTypes
  <2>1. timeLeft \in Int
    BY DEF AuthInit
  <2> QED BY <2>1, Zenon DEF AuthInit, FieldTypes
<1>2. PipesFit
  BY <1>0 DEF PipesFit, PipeFits, Has
<1>3. RequiredIsFirst /\ ResultsWhenIdle /\ RequiredIsAwaited /\ RequiredFits /\ PendingMeansBusy
  BY <1>0 DEF RequiredIsFirst, ResultsWhenIdle, RequiredIsAwaited, RequiredFits,
     PendingMeansBusy, Has
<1>4. Starting /\ Reaping /\ ReapingKnown
  BY <1>0, InitPamInv DEF AuthInit, Starting, Reaping, Has
<1> QED BY <1>1, <1>2, <1>3, <1>4 DEF AuthInv

-----------------------------------------------------------------------------
(* Lemmas about the sequences *)

\* Nothing that was not announced is delivered, and nothing is lost.
LEMMA HasTail ==
  ASSUME NEW S, NEW s \in Seq(S), s # <<>>, NEW x
  PROVE  /\ Has(Tail(s), x) => Has(s, x)
         /\ Has(s, x) => Head(s) = x \/ Has(Tail(s), x)
<1>1. /\ Len(s) \in Nat \ {0} /\ Len(Tail(s)) = Len(s) - 1 /\ Head(s) = s[1]
      /\ \A i \in 1 .. Len(Tail(s)) : Tail(s)[i] = s[i + 1]
  BY EmptySeq, HeadTailProperties
<1>2. ASSUME Has(Tail(s), x) PROVE Has(s, x)
  <2>1. PICK i \in 1 .. Len(s) - 1 : Tail(s)[i] = x
    BY <1>1, <1>2 DEF Has
  <2>2. i + 1 \in 1 .. Len(s) /\ s[i + 1] = x
    BY <1>1, <2>1
  <2> QED BY <2>2 DEF Has
<1>3. ASSUME Has(s, x), Head(s) # x PROVE Has(Tail(s), x)
  <2>1. PICK i \in 1 .. Len(s) : s[i] = x
    BY <1>3 DEF Has
  <2>2. i - 1 \in 1 .. Len(Tail(s)) /\ Tail(s)[i - 1] = x
    BY <1>1, <1>3, <2>1
  <2> QED BY <2>2 DEF Has
<1> QED BY <1>2, <1>3

\* A message at the end of a pipe is there besides those before it.
LEMMA HasAppend ==
  ASSUME NEW S, NEW s \in Seq(S), NEW y \in S, NEW x
  PROVE  Has(Append(s, y), x) <=> Has(s, x) \/ x = y
<1>1. /\ Len(s) \in Nat /\ Len(Append(s, y)) = Len(s) + 1
      /\ \A i \in 1 .. Len(s) : Append(s, y)[i] = s[i]
      /\ Append(s, y)[Len(s) + 1] = y
  BY LenProperties, AppendProperties
<1>2. ASSUME Has(Append(s, y), x), x # y PROVE Has(s, x)
  <2>1. PICK i \in 1 .. Len(s) + 1 : Append(s, y)[i] = x
    BY <1>1, <1>2 DEF Has
  <2>2. i \in 1 .. Len(s) /\ s[i] = x
    BY <1>1, <1>2, <2>1
  <2> QED BY <2>2 DEF Has
<1>3. ASSUME Has(s, x) PROVE Has(Append(s, y), x)
  <2>1. PICK i \in 1 .. Len(s) : s[i] = x
    BY <1>3 DEF Has
  <2>2. i \in 1 .. Len(s) + 1 /\ Append(s, y)[i] = x
    BY <1>1, <2>1
  <2> QED BY <1>1, <2>2 DEF Has
<1>4. ASSUME x = y PROVE Has(Append(s, y), x)
  <2>1. Len(s) + 1 \in 1 .. Len(s) + 1
    BY <1>1
  <2> QED BY <1>1, <1>4, <2>1 DEF Has
<1> QED BY <1>2, <1>3, <1>4

\* What is there in two sequences one after the other is in one of them.
LEMMA HasConcat ==
  ASSUME NEW S, NEW s \in Seq(S), NEW t \in Seq(S), NEW x
  PROVE  Has(s \o t, x) <=> Has(s, x) \/ Has(t, x)
<1>1. /\ Len(s) \in Nat /\ Len(t) \in Nat /\ Len(s \o t) = Len(s) + Len(t)
      /\ \A i \in 1 .. Len(s) + Len(t) :
           (s \o t)[i] = IF i <= Len(s) THEN s[i] ELSE t[i - Len(s)]
  BY LenProperties, ConcatProperties
<1>2. ASSUME Has(s \o t, x) PROVE Has(s, x) \/ Has(t, x)
  <2>1. PICK i \in 1 .. Len(s) + Len(t) : (s \o t)[i] = x
    BY <1>1, <1>2 DEF Has
  <2>2. CASE i <= Len(s)
    <3>1. i \in 1 .. Len(s) /\ s[i] = x
      BY <1>1, <2>1, <2>2
    <3> QED BY <3>1 DEF Has
  <2>3. CASE i > Len(s)
    <3>1. i - Len(s) \in 1 .. Len(t) /\ t[i - Len(s)] = x
      BY <1>1, <2>1, <2>3
    <3> QED BY <3>1 DEF Has
  <2> QED BY <1>1, <2>2, <2>3
<1>3. ASSUME Has(s, x) PROVE Has(s \o t, x)
  <2>1. PICK i \in 1 .. Len(s) : s[i] = x
    BY <1>3 DEF Has
  <2>2. i \in 1 .. Len(s \o t) /\ (s \o t)[i] = x
    BY <1>1, <2>1
  <2> QED BY <2>2 DEF Has
<1>4. ASSUME Has(t, x) PROVE Has(s \o t, x)
  <2>1. PICK i \in 1 .. Len(t) : t[i] = x
    BY <1>4 DEF Has
  <2>2. i + Len(s) \in 1 .. Len(s \o t) /\ (s \o t)[i + Len(s)] = x
    BY <1>1, <2>1
  <2> QED BY <2>2 DEF Has
<1> QED BY <1>2, <1>3, <1>4

\* What the context emits at the end of a conversation: a result, and no demand
\* for an answer and no start but those that were announced.
LEMMA ReportHas ==
  ASSUME NEW code \in Codes \cup {"error"}, NEW rest \in Seq(Due)
  PROVE  /\ Has(AbortTells \o Report(code) \o rest, "required") => Has(rest, "required")
         /\ Has(AbortTells \o Report(code) \o rest, "start") => Has(rest, "start")
         /\ \E r \in Results : Has(AbortTells \o Report(code) \o rest, r)
<1>1. code \in {"Success", "Failed", "MaxTries", "error"}
  BY CodesAssumption
<1>2. /\ Report(code) \in Seq(Due)
      /\ ~Has(Report(code), "required") /\ ~Has(Report(code), "start")
      /\ \E r \in Results : Has(Report(code), r)
  <2>1. CASE code = "error"
    <3>1. Report(code) = <<"error", "Error">>
      BY <2>1 DEF Report
    <3>2. Len(Report(code)) = 2 /\ Report(code)[1] = "error" /\ Report(code)[2] = "Error"
      BY <3>1
    <3>3. Report(code) \in Seq(Due)
      BY <3>1 DEF Due, Signals, Results
    <3>4. Has(Report(code), "Error") /\ "Error" \in Results
      BY <3>2 DEF Has, Results
    <3> QED BY <3>2, <3>3, <3>4 DEF Has
  <2>2. CASE code # "error"
    <3>1. Report(code) = <<code>> /\ code \in Results /\ code \in Due
      BY <1>1, <2>2 DEF Report, Due, Signals, Results
    <3>2. Len(Report(code)) = 1 /\ Report(code)[1] = code
      BY <3>1
    <3>3. Has(Report(code), code) /\ Report(code) \in Seq(Due)
      BY <3>1, <3>2 DEF Has
    <3> QED BY <1>1, <3>1, <3>2, <3>3 DEF Has
  <2> QED BY <2>1, <2>2
<1>3. AbortTells \in Seq(Due) /\ ~Has(AbortTells, "required") /\ ~Has(AbortTells, "start")
  <2>1. CASE message = "nothing"
    <3>1. AbortTells = <<"active">>
      BY <2>1 DEF AbortTells
    <3>2. Len(AbortTells) = 1 /\ AbortTells[1] = "active" /\ AbortTells \in Seq(Due)
      BY <3>1 DEF Due, Signals
    <3> QED BY <3>2 DEF Has
  <2>2. CASE message # "nothing"
    <3>1. AbortTells = <<"active", "message">>
      BY <2>2 DEF AbortTells
    <3>2. /\ Len(AbortTells) = 2 /\ AbortTells[1] = "active" /\ AbortTells[2] = "message"
          /\ AbortTells \in Seq(Due)
      BY <3>1 DEF Due, Signals
    <3> QED BY <3>2 DEF Has
  <2> QED BY <2>1, <2>2
<1>4. AbortTells \o Report(code) \in Seq(Due)
  BY <1>2, <1>3, ConcatProperties
<1>5. \A x : Has(AbortTells \o Report(code), x) <=> Has(AbortTells, x) \/ Has(Report(code), x)
  BY <1>2, <1>3, HasConcat
<1>6. \A x : Has(AbortTells \o Report(code) \o rest, x)
               <=> Has(AbortTells \o Report(code), x) \/ Has(rest, x)
  BY <1>4, HasConcat
<1> QED BY <1>2, <1>3, <1>5, <1>6

-----------------------------------------------------------------------------
(* What the steps do to a pipe *)

\* A pipe that is left alone, from a child that goes on or ends; a pid is
\* forgotten only where no code is to come.
LEMMA PipeKept ==
  ASSUME PamInv, NEW c \in Convs, PipeFits(c),
         toMain'[c] = toMain[c], last'[c] = last[c], answers'[c] = answers[c],
         child'[c] \in {child[c], "exited", "reaped"},
         child'[c] = "exited" => child[c] \in {"running", "reading", "exited"},
         child'[c] = "reaped" \/ child[c] # "reaped",
         Alive(c)' => Alive(c) \/ toMain[c] = <<>>,
         pid'[c] # "none" \/ pid[c] = "none" \/ toMain[c] = <<>> \/ ~Alive(c)'
  PROVE  PipeFits(c)'
<1>1. \A x : Has(toMain[c], x)' <=> Has(toMain[c], x)
  BY DEF Has
<1>2. toMain[c] = <<>> => \A x : ~Has(toMain[c], x)
  BY DEF Has
<1>3. ASSUME NEW code \in Codes, Has(toMain[c], code)
      PROVE  child'[c] \in {"exited", "reaped"} /\ (Alive(c)' => pid'[c] # "none")
  BY <1>2, <1>3 DEF PipeFits
<1>4. Has(toMain[c], "prompt") => /\ answers'[c] = 0 /\ last'[c] \in {"prompt", "again"}
                                  /\ child'[c] \in {"reading", "exited", "reaped"}
  BY DEF PipeFits
<1>5. /\ answers'[c] <= 1
      /\ answers'[c] = 1 => child'[c] \in {"reading", "exited", "reaped"}
      /\ child'[c] = "reading" => last'[c] \in {"prompt", "again"}
      /\ child'[c] = "running" => \A i \in 1 .. Len(toMain'[c]) : toMain'[c][i] \in Infos
      /\ \A i \in 1 .. Len(toMain'[c]) - 1 : toMain'[c][i] \in Infos
  BY DEF PipeFits
<1> QED BY <1>1, <1>3, <1>4, <1>5 DEF PipeFits

\* A pipe that is empty afterwards, while an answer is under way at most to a
\* child that waits for it.
LEMMA PipeEmpty ==
  ASSUME NEW c \in Convs, toMain'[c] = <<>>, answers'[c] \in {0, 1},
         answers'[c] = 1 => child'[c] \in {"reading", "exited", "reaped"},
         child'[c] = "reading" => last'[c] \in {"prompt", "again"}
  PROVE  PipeFits(c)'
BY DEF PipeFits, Has

\* The GUI takes a message from the pipe.
LEMMA PipeRead ==
  ASSUME PamInv, NEW c \in Convs, PipeFits(c), toMain[c] # <<>>,
         toMain' = [toMain EXCEPT ![c] = Tail(@)],
         UNCHANGED <<last, answers, child, pid, current, deleted>>
  PROVE  PipeFits(c)'
<1>0. toMain[c] \in Seq(Texts \cup Codes) /\ toMain'[c] = Tail(toMain[c])
  BY DEF PamInv, ProcessInv
<1>1. /\ Len(toMain[c]) \in Nat \ {0} /\ Len(toMain'[c]) = Len(toMain[c]) - 1
      /\ \A i \in 1 .. Len(toMain[c]) - 1 : toMain'[c][i] = toMain[c][i + 1]
  BY <1>0, EmptySeq, HeadTailProperties
<1>2. \A x : Has(toMain[c], x)' => Has(toMain[c], x)
  BY <1>0, HasTail DEF Has
<1>3. \A i \in 1 .. Len(toMain'[c]) - 1 : toMain'[c][i] \in Infos
  BY <1>1 DEF PipeFits
<1>4. child[c] = "running" => \A i \in 1 .. Len(toMain'[c]) : toMain'[c][i] \in Infos
  BY <1>1 DEF PipeFits
<1>5. Alive(c)' <=> Alive(c)
  BY DEF Alive
<1> QED BY <1>2, <1>3, <1>4, <1>5 DEF PipeFits

\* What asks for an answer, and a code, is the last of its pipe.
LEMMA ClosingIsLast ==
  ASSUME PamInv, NEW c \in Convs, PipeFits(c), toMain[c] # <<>>, Head(toMain[c]) \notin Infos
  PROVE  Tail(toMain[c]) = <<>> /\ Len(toMain[c]) = 1 /\ toMain[c][1] = Head(toMain[c])
<1>1. toMain[c] \in Seq(Texts \cup Codes)
  BY DEF PamInv, ProcessInv
<1>2. /\ Len(toMain[c]) \in Nat \ {0} /\ Head(toMain[c]) = toMain[c][1]
      /\ Tail(toMain[c]) \in Seq(Texts \cup Codes) /\ Len(Tail(toMain[c])) = Len(toMain[c]) - 1
  BY <1>1, EmptySeq, HeadTailProperties
<1>3. Len(toMain[c]) = 1
  <2>3. \A k \in Nat \ {0} : k # 1 => 1 \in 1 .. k - 1
    OBVIOUS
  <2>1. Len(toMain[c]) # 1 => 1 \in 1 .. Len(toMain[c]) - 1
    BY <1>2, <2>3
  <2>2. \A i \in 1 .. Len(toMain[c]) - 1 : toMain[c][i] \in Infos
    BY DEF PipeFits
  <2> QED BY <1>2, <2>1, <2>2
<1>4. Len(Tail(toMain[c])) = 0
  BY <1>2, <1>3
<1>5. Tail(toMain[c]) = <<>>
  BY <1>2, <1>4, EmptySeq
<1> QED BY <1>2, <1>3, <1>5

\* A running child adds a message: what it had sent is information.
LEMMA PipeSays ==
  ASSUME PamInv, NEW c \in Convs, PipeFits(c), child[c] = "running",
         NEW y \in Texts \cup Codes, toMain' = [toMain EXCEPT ![c] = Append(@, y)],
         UNCHANGED <<answers, pid, current, deleted>>,
         \/ y \in Infos /\ child'[c] = "running"
         \/ y = "prompt" /\ child'[c] = "reading" /\ last'[c] \in {"prompt", "again"}
         \/ y \in Codes /\ child'[c] = "exited"
  PROVE  PipeFits(c)'
<1>0. toMain[c] \in Seq(Texts \cup Codes) /\ toMain'[c] = Append(toMain[c], y)
  BY DEF PamInv, ProcessInv
<1>1. /\ Len(toMain[c]) \in Nat /\ Len(toMain'[c]) = Len(toMain[c]) + 1
      /\ toMain'[c][Len(toMain[c]) + 1] = y
      /\ \A i \in 1 .. Len(toMain[c]) : toMain'[c][i] = toMain[c][i] /\ toMain[c][i] \in Infos
  BY <1>0, LenProperties, AppendProperties DEF PipeFits
<1>2. \A x : Has(toMain[c], x)' <=> Has(toMain[c], x) \/ x = y
  BY <1>0, HasAppend DEF Has
<1>3. answers'[c] = 0
  <2>1. answers[c] \in Nat
    BY DEF PamInv, ProcessInv
  <2> QED BY <2>1 DEF PipeFits
<1>4. pid'[c] # "none"
  BY DEF PamInv, ProcessInv, PidFits
<1>5. \A x : Has(toMain[c], x) => x \in Infos
  BY <1>1 DEF Has
<1>6. "prompt" \notin Infos /\ "prompt" \notin Codes /\ \A code \in Codes : code \notin Infos
  BY InfosAssumption, CodesAssumption
<1>7. /\ \A i \in 1 .. Len(toMain'[c]) - 1 : toMain'[c][i] \in Infos
      /\ child'[c] = "running" => \A i \in 1 .. Len(toMain'[c]) : toMain'[c][i] \in Infos
  BY <1>1, <1>6
<1>8. Has(toMain[c], "prompt")' => /\ last'[c] \in {"prompt", "again"} /\ child'[c] = "reading"
  BY <1>2, <1>5, <1>6
<1>9. \A code \in Codes : Has(toMain[c], code)' => child'[c] = "exited"
  BY <1>2, <1>5, <1>6
<1> QED BY <1>3, <1>4, <1>7, <1>8, <1>9 DEF PipeFits

-----------------------------------------------------------------------------
(* The steps of the service, as the form lets them happen *)

\* The parts of the invariant that a step of the service can disturb.
ServiceInv ==
  PipesFit /\ RequiredIsFirst /\ ResultsWhenIdle /\ RequiredIsAwaited /\ RequiredFits

\* No signal is under way: nothing is demanded, no result announced.
LEMMA QuietSig ==
  ASSUME sig' = <<>>
  PROVE  RequiredIsFirst' /\ ResultsWhenIdle' /\ RequiredIsAwaited'
BY DEF RequiredIsFirst, ResultsWhenIdle, RequiredIsAwaited, Has

\* The current conversation is one of those created, the next one is blank.
LEMMA Blank ==
  ASSUME PamInv
  PROVE  /\ current # 0 => current \in Convs
         /\ used < MaxConv => /\ used + 1 \in Convs /\ used + 1 # 0
                              /\ toMain[used + 1] = <<>> /\ answers[used + 1] = 0
<1>1. current \in 0 .. used /\ used \in 0 .. MaxConv
  BY DEF PamInv, ContextInv
<1>2. used < MaxConv => used + 1 \in Convs /\ used + 1 > used /\ used + 1 # 0
  BY <1>1 DEF Convs
<1>3. PidFits
  BY DEF PamInv, ProcessInv
<1>4. used < MaxConv => toMain[used + 1] = <<>> /\ answers[used + 1] = 0
  BY <1>2, <1>3 DEF PidFits
<1> QED BY <1>1, <1>2, <1>4 DEF Convs

\* startConversation outside any signal.
LEMMA StartConversationFits ==
  ASSUME PamInv, ServiceInv, StartConversation(<<>>), current = 0, UNCHANGED stray
  PROVE  ServiceInv'
<1> PICK n \in Nat : n = used + 1
  BY DEF PamInv, ContextInv
<1>0. UNCHANGED <<pid, child, last, toMain, answers, deleted>> /\ required' = FALSE
  BY DEF StartConversation, procVars
<1>1. CASE sig' = <<>> /\ current' = current
  <2>1. PipesFit'
    BY <1>0, <1>1, PipeKept DEF ServiceInv, PipesFit, Alive
  <2>2. RequiredFits'
    BY <1>1 DEF RequiredFits
  <2> QED BY <1>1, <2>1, <2>2, QuietSig DEF ServiceInv
<1>2. CASE used < MaxConv /\ current' = n /\ sig' = <<"active", "start">> \o <<>>
  <2>1. n \in Convs /\ toMain[n] = <<>> /\ n # 0 /\ child[n] = "none"
    <3>1. n \in Convs /\ n > used /\ PidFits
      BY <1>2 DEF PamInv, ContextInv, ProcessInv, Convs
    <3> QED BY <1>2, <3>1, Blank DEF PidFits
  <2>2. \A c \in Convs : Alive(c)' => Alive(c) \/ toMain[c] = <<>>
    BY <1>0, <1>2, <2>1 DEF Alive
  <2>3. PipesFit'
    BY <1>0, <2>2, PipeKept DEF ServiceInv, PipesFit
  <2>4. Len(sig') = 2 /\ sig'[1] = "active" /\ sig'[2] = "start"
    BY <1>2
  <2>5. RequiredIsFirst' /\ RequiredIsAwaited' /\ ResultsWhenIdle'
    BY <2>4 DEF RequiredIsFirst, RequiredIsAwaited, ResultsWhenIdle, Has, Results
  <2>6. RequiredFits'
    BY <1>0, <1>2, <2>1 DEF RequiredFits
  <2> QED BY <2>3, <2>5, <2>6 DEF ServiceInv
<1> QED BY <1>1, <1>2 DEF StartConversation

\* The calls that start a conversation, or only wish for one.
LEMMA StartFits ==
  ASSUME PamInv, ServiceInv, sig = <<>>, Start(<<>>) \/ ComponentComplete
  PROVE  ServiceInv'
<1>0. current = 0 /\ UNCHANGED stray
  BY DEF Start, ComponentComplete, PamInv, ContextInv
<1>1. CASE StartConversation(<<>>)
  BY <1>0, <1>1, StartConversationFits
<1>2. CASE sig' = <<>> /\ UNCHANGED <<current, procVars, deleted>>
  <2>1. PipesFit'
    BY <1>2, PipeKept DEF ServiceInv, PipesFit, procVars, Alive
  <2>2. RequiredFits'
    BY <1>0, <1>2 DEF RequiredFits
  <2> QED BY <1>2, <2>1, <2>2, QuietSig DEF ServiceInv
<1> QED BY <1>1, <1>2 DEF Start, ComponentComplete

\* The end of a conversation, announced or not: where it is current its pipe
\* has nothing left that counts.
LEMMA FinishFits ==
  ASSUME PamInv, NEW c \in Convs, NEW code \in Codes \cup {"error"},
         NEW rest \in Seq(Due), ~Has(rest, "required"),
         Listening(c) \/ (sig = <<>> /\ rest = <<>>),
         RequiredFits, Finish(c, code, rest),
         \A d \in Convs : d # c => UNCHANGED <<toMain[d], last[d], child[d], answers[d]>>
  PROVE  RequiredIsFirst' /\ ResultsWhenIdle' /\ RequiredIsAwaited' /\ RequiredFits'
<1>1. CASE Listening(c)
  <2>1. current' = 0 /\ sig' = AbortTells \o Report(code) \o rest
    BY <1>1 DEF Finish, AbortConversation
  <2>2. ~Has(sig, "required")'
    BY <2>1, ReportHas DEF Has
  <2> QED BY <2>1, <2>2 DEF RequiredIsFirst, ResultsWhenIdle, RequiredIsAwaited, RequiredFits, Has
<1>2. CASE ~Listening(c)
  <2>1. sig = <<>> /\ sig' = <<>> /\ UNCHANGED <<current, required>> /\ current # c
    BY <1>2 DEF Finish, Listening, ctxVars
  <2>2. current # 0 => UNCHANGED <<toMain[current], last[current], child[current], answers[current]>>
    BY <2>1, Blank
  <2>3. RequiredFits'
    BY <2>1, <2>2 DEF RequiredFits, Has
  <2> QED BY <2>1, <2>3, QuietSig
<1> QED BY <1>1, <1>2

\* What is under way while a conversation is started.
LEMMA StartIsAlone ==
  ASSUME PamInv, Starting, sig # <<>>, Has(sig, "start")
  PROVE  /\ Head(sig) = "start" => Tail(sig) = <<>>
         /\ Head(sig) \in {"active", "start"}
         /\ Has(Tail(sig), "start") => Tail(sig) = <<"start">>
         /\ current \in Convs
<1>1. CASE sig = <<"active", "start">>
  BY <1>1, Blank DEF Starting
<1>2. CASE sig = <<"start">>
  <2>1. Tail(sig) = <<>> /\ Head(sig) = "start"
    BY <1>2
  <2> QED BY <2>1, Blank DEF Starting, Has
<1> QED BY <1>1, <1>2 DEF Starting

\* Then PamConversation::start.
LEMMA StartProcessFits ==
  ASSUME PamInv, ServiceInv, Starting, StartProcess
  PROVE  ServiceInv'
<1>0. /\ Has(sig, "start") /\ sig # <<>> /\ Head(sig) = "start"
  <2>1. Len(sig) \in Nat \ {0} /\ Head(sig) = sig[1] /\ sig # <<>> /\ Head(sig) = "start"
    BY EmptySeq DEF StartProcess, PamInv, ContextInv
  <2>2. 1 \in 1 .. Len(sig)
    BY <2>1
  <2> QED BY <2>1, <2>2 DEF Has
<1>1. /\ current \in Convs /\ Tail(sig) = <<>>
      /\ pid[current] = "none" /\ toMain[current] = <<>> /\ answers[current] = 0
  BY <1>0, StartIsAlone DEF Starting
<1>2. CASE Finish(current, "error", <<>>) /\ UNCHANGED procVars
  <2>1. \A c \in Convs : Alive(c)' => Alive(c)
    <3>1. \/ UNCHANGED <<current, deleted>>
          \/ current' = 0 /\ deleted' = deleted \cup {current}
      BY <1>2 DEF Finish, Listening, AbortConversation, ctxVars
    <3> QED BY <3>1 DEF Alive, Convs
  <2>2. PipesFit'
    BY <1>2, <2>1, PipeKept DEF ServiceInv, PipesFit, procVars
  <2>3. <<>> \in Seq(Due) /\ ~Has(<<>>, "required")
    BY DEF Has
  <2>4. RequiredIsFirst' /\ ResultsWhenIdle' /\ RequiredIsAwaited' /\ RequiredFits'
    BY <1>1, <1>2, <2>3, FinishFits DEF ServiceInv, Listening, procVars
  <2> QED BY <2>2, <2>4 DEF ServiceInv
<1>3. CASE /\ sig' = <<>> /\ UNCHANGED <<ctxVars, last, toMain, answers, deleted>>
           /\ \/ /\ pid' = [pid EXCEPT ![current] = "child"]
                 /\ child' = [child EXCEPT ![current] = "running"]
              \/ /\ pid' = [pid EXCEPT ![current] = "minus1"]
                 /\ child' = [child EXCEPT ![current] = "none"]
  <2>1. /\ child'[current] \in {"running", "none"}
        /\ \A c \in Convs : c # current => child'[c] = child[c] /\ pid'[c] = pid[c]
        /\ UNCHANGED <<current, required>>
    BY <1>1, <1>3 DEF PamInv, ProcessInv, ctxVars
  <2>2. ASSUME NEW c \in Convs, c = current PROVE PipeFits(c)'
    BY <1>1, <1>3, <2>1, <2>2, PipeEmpty
  <2>3. ASSUME NEW c \in Convs, c # current PROVE PipeFits(c)'
    <3>1. Alive(c)' => Alive(c)
      BY <1>3, <2>1 DEF Alive
    <3> QED BY <1>3, <2>1, <2>3, <3>1, PipeKept DEF ServiceInv, PipesFit
  <2>4. PipesFit'
    BY <2>2, <2>3 DEF PipesFit
  <2>5. RequiredFits'
    BY <1>1, <1>3, <2>1 DEF ServiceInv, RequiredFits
  <2> QED BY <1>3, <2>4, <2>5, QuietSig DEF ServiceInv
<1> QED BY <1>1, <1>2, <1>3 DEF StartProcess

\* onInternalError for a conversation whose pipe has been read.
LEMMA InternalErrorFits ==
  ASSUME PamInv, ServiceInv, NEW c \in Convs, NEW rest \in Seq(Due),
         ~Has(rest, "required"), \A r \in Results : Has(rest, r) => current = 0,
         Listening(c) \/ (sig = <<>> /\ rest = <<>>),
         toMain[c] = <<>>, InternalError(c, rest)
  PROVE  ServiceInv'
<1>0. UNCHANGED <<toMain, last, answers>>
  BY DEF InternalError, KillChild, procVars
<1>1. /\ child'[c] \in {child[c], "reaped"} /\ (child'[c] = "none" <=> child[c] = "none")
      /\ \A d \in Convs : d # c => child'[d] = child[d] /\ pid'[d] = pid[d]
  <2>1. /\ child \in [Convs -> {"none", "running", "reading", "exited", "reaped"}]
        /\ pid \in [Convs -> {"none", "child", "minus1"}]
    BY DEF PamInv, ProcessInv
  <2>2. \/ UNCHANGED <<pid, child>>
        \/ /\ pid' = [pid EXCEPT ![c] = "none"]
           /\ child' = [child EXCEPT ![c] = IF @ = "none" THEN @ ELSE "reaped"]
    BY DEF InternalError, KillChild, procVars
  <2> QED BY <2>1, <2>2
<1>2. \A d \in Convs : Alive(d)' => Alive(d)
  <2>1. \/ UNCHANGED <<current, deleted>>
        \/ current' = 0 /\ deleted' = deleted \cup {c} /\ c = current
    BY DEF InternalError, Finish, Listening, AbortConversation, ctxVars
  <2> QED BY <2>1 DEF Alive, Convs
<1>3. PipeFits(c)'
  <2>1. answers[c] \in Nat
    BY DEF PamInv, ProcessInv
  <2>2. answers'[c] \in {0, 1} /\ toMain'[c] = <<>>
    BY <1>0, <2>1 DEF ServiceInv, PipesFit, PipeFits
  <2>3. answers'[c] = 1 => child'[c] \in {"reading", "exited", "reaped"}
    BY <1>0, <1>1 DEF ServiceInv, PipesFit, PipeFits
  <2>4. child'[c] = "reading" => last'[c] \in {"prompt", "again"}
    BY <1>0, <1>1 DEF ServiceInv, PipesFit, PipeFits
  <2> QED BY <2>2, <2>3, <2>4, PipeEmpty
<1>4. ASSUME NEW d \in Convs, d # c PROVE PipeFits(d)'
  BY <1>0, <1>1, <1>2, <1>4, PipeKept DEF ServiceInv, PipesFit
<1>5. PipesFit'
  BY <1>3, <1>4 DEF PipesFit
<1>6. CASE pid[c] # "none"
  <2>1. Finish(c, "error", rest)
    BY <1>6 DEF InternalError
  <2> QED BY <1>0, <1>1, <1>5, <2>1, FinishFits DEF ServiceInv
<1>7. CASE pid[c] = "none"
  <2>1. sig' = rest /\ UNCHANGED <<current, required>> /\ UNCHANGED child
    BY <1>7 DEF InternalError, KillChild, ctxVars, procVars
  <2>2. RequiredIsFirst' /\ RequiredIsAwaited' /\ ResultsWhenIdle'
    BY <2>1 DEF RequiredIsFirst, RequiredIsAwaited, ResultsWhenIdle, Has
  <2>3. CASE Listening(c)
    <3>1. child[current] # "reading"
      BY <1>7, <2>3 DEF PamInv, ProcessInv, PidFits, Listening
    <3> QED BY <1>0, <1>5, <2>1, <2>2, <3>1 DEF ServiceInv, RequiredFits
  <2>4. CASE sig = <<>> /\ rest = <<>>
    BY <1>0, <1>5, <2>1, <2>2, <2>4 DEF ServiceInv, RequiredFits, Has
  <2> QED BY <2>2, <2>3, <2>4
<1> QED BY <1>6, <1>7

\* Only the first signal can demand an answer.
LEMMA NoDemandLater ==
  ASSUME PamInv, ServiceInv, sig # <<>>
  PROVE  /\ ~Has(Tail(sig), "required") /\ Tail(sig) \in Seq(Due)
         /\ \A r \in Results : Has(Tail(sig), r) => current = 0
         /\ Has(sig, "required") => Head(sig) = "required"
         /\ Head(sig) = "required" => Has(sig, "required")
<1>1. sig \in Seq(Due)
  BY DEF PamInv, ContextInv
<1>2. /\ Len(sig) \in Nat \ {0} /\ Len(Tail(sig)) = Len(sig) - 1 /\ Head(sig) = sig[1]
      /\ Tail(sig) \in Seq(Due)
      /\ \A i \in 1 .. Len(Tail(sig)) : Tail(sig)[i] = sig[i + 1]
  BY <1>1, EmptySeq, HeadTailProperties
<1>3. ~Has(Tail(sig), "required")
  <2> SUFFICES ASSUME NEW i \in 1 .. Len(Tail(sig)), Tail(sig)[i] = "required" PROVE FALSE
    BY DEF Has
  <2>1. i + 1 \in 1 .. Len(sig) /\ i + 1 > 1 /\ sig[i + 1] = "required"
    BY <1>2
  <2> QED BY <2>1 DEF ServiceInv, RequiredIsFirst
<1>4. \A x : /\ Has(Tail(sig), x) => Has(sig, x)
             /\ Has(sig, x) => Head(sig) = x \/ Has(Tail(sig), x)
  BY <1>1, HasTail
<1>5. Head(sig) = "required" => Has(sig, "required")
  <2>1. 1 \in 1 .. Len(sig)
    BY <1>2
  <2> QED BY <1>2, <2>1 DEF Has
<1> QED BY <1>2, <1>3, <1>4, <1>5 DEF ServiceInv, ResultsWhenIdle

\* respond, from the handler of the demand.
LEMMA RespondFits ==
  ASSUME PamInv, ServiceInv, sig # <<>>, Head(sig) = "required", Respond(Tail(sig))
  PROVE  ServiceInv'
<1>1. /\ current \in Convs /\ toMain[current] = <<>> /\ answers[current] = 0
      /\ child[current] \in {"reading", "exited", "reaped"}
      /\ ~Has(Tail(sig), "required") /\ Tail(sig) \in Seq(Due)
      /\ \A r \in Results : Has(Tail(sig), r) => current = 0
  BY NoDemandLater, Blank DEF ServiceInv, RequiredIsAwaited
<1>2. CASE InternalError(current, Tail(sig))
  BY <1>1, <1>2, InternalErrorFits DEF Listening
<1>3. CASE /\ child[current] = "reading"
           /\ answers' = [answers EXCEPT ![current] = @ + 1] /\ sig' = Tail(sig)
           /\ UNCHANGED <<ctxVars, pid, child, left, last, toMain, deleted, stray, reports>>
  <2>1. /\ answers'[current] = 1 /\ UNCHANGED <<current, required>>
        /\ \A d \in Convs : d # current => answers'[d] = answers[d]
    BY <1>1, <1>3 DEF PamInv, ProcessInv, ctxVars
  <2>2. ASSUME NEW d \in Convs, d # current PROVE PipeFits(d)'
    <3>1. Alive(d)' <=> Alive(d)
      BY <1>3, <2>1 DEF Alive
    <3> QED BY <1>3, <2>1, <2>2, <3>1, PipeKept DEF ServiceInv, PipesFit
  <2>3. ASSUME NEW d \in Convs, d = current PROVE PipeFits(d)'
    <3>1. last[d] \in {"prompt", "again"}
      BY <1>3, <2>3 DEF ServiceInv, PipesFit, PipeFits
    <3> QED BY <1>1, <1>3, <2>1, <2>3, <3>1, PipeEmpty
  <2>4. PipesFit'
    BY <2>2, <2>3 DEF PipesFit
  <2>5. RequiredIsFirst' /\ RequiredIsAwaited' /\ ResultsWhenIdle'
    BY <1>1, <1>3, <2>1 DEF RequiredIsFirst, RequiredIsAwaited, ResultsWhenIdle, Has
  <2>6. RequiredFits'
    BY <1>1, <1>3, <2>1 DEF ServiceInv, RequiredFits
  <2> QED BY <2>4, <2>5, <2>6 DEF ServiceInv
<1> QED BY <1>1, <1>2, <1>3 DEF Respond

\* A signal the form does not answer, and a step that does not touch the
\* service.
LEMMA QuietFits ==
  ASSUME PamInv, ServiceInv, UNCHANGED <<ctxVars, procVars, deleted>>,
         \/ sig' = sig
         \/ sig # <<>> /\ Head(sig) # "required" /\ sig' = Tail(sig)
  PROVE  ServiceInv'
<1>0. UNCHANGED <<current, required, pid, child, last, toMain, answers, deleted>>
  BY DEF ctxVars, procVars
<1>1. PipesFit'
  BY <1>0, PipeKept DEF ServiceInv, PipesFit, Alive
<1>2. CASE sig' = sig
  BY <1>0, <1>1, <1>2 DEF ServiceInv, RequiredIsFirst, RequiredIsAwaited, ResultsWhenIdle,
     RequiredFits, Has
<1>3. CASE sig # <<>> /\ Head(sig) # "required" /\ sig' = Tail(sig)
  <2>1. ~Has(sig, "required")' /\ ~Has(sig, "required")
    BY <1>3, NoDemandLater DEF Has
  <2>2. ResultsWhenIdle'
    BY <1>0, <1>3, NoDemandLater DEF ResultsWhenIdle, Has
  <2>3. RequiredIsFirst' /\ RequiredIsAwaited'
    BY <2>1 DEF RequiredIsFirst, RequiredIsAwaited, Has
  <2>4. RequiredFits'
    BY <1>0, <2>1 DEF ServiceInv, RequiredFits, Has
  <2> QED BY <1>1, <2>2, <2>3, <2>4 DEF ServiceInv
<1> QED BY <1>2, <1>3

\* A text is read: information resets the demand, a prompt makes it.
LEMMA TextFits ==
  ASSUME PamInv, ServiceInv, NEW c \in Convs, OnMessage(c),
         Head(toMain[c]) \in Texts, OnText(c, Head(toMain[c]))
  PROVE  ServiceInv'
<1> DEFINE text == Head(toMain[c])
<1>0. /\ sig = <<>> /\ toMain[c] # <<>> /\ toMain' = [toMain EXCEPT ![c] = Tail(@)]
      /\ UNCHANGED <<current, pid, child, last, answers, deleted>>
  BY DEF OnMessage, OnText, Idle
<1>1. /\ toMain'[c] = Tail(toMain[c]) /\ toMain[c] \in Seq(Texts \cup Codes)
      /\ \A d \in Convs : d # c => toMain'[d] = toMain[d]
  BY <1>0 DEF PamInv, ProcessInv
<1>2. PipesFit'
  <2>1. PipeFits(c)'
    BY <1>0, PipeRead DEF ServiceInv, PipesFit
  <2>2. ASSUME NEW d \in Convs, d # c PROVE PipeFits(d)'
    BY <1>0, <1>1, <2>2, PipeKept DEF ServiceInv, PipesFit, Alive
  <2> QED BY <2>1, <2>2 DEF PipesFit
<1>3. CASE ~Listening(c)
  <2>1. sig' = <<>> /\ UNCHANGED required /\ current # c
    BY <1>0, <1>3 DEF OnText, Listening
  <2>2. current # 0 => toMain'[current] = toMain[current]
    BY <1>1, <2>1, Blank
  <2>3. RequiredFits'
    BY <1>0, <2>1, <2>2 DEF ServiceInv, RequiredFits, Has
  <2> QED BY <1>2, <2>1, <2>3, QuietSig DEF ServiceInv
<1>4. CASE Listening(c) /\ text \in Infos
  <2>1. c = current /\ required' = FALSE /\ sig' = <<>> \o <<"received">>
    BY <1>4, InfosAssumption DEF OnText, Listening
  <2>2. Len(sig') = 1 /\ sig'[1] = "received"
    BY <2>1
  <2>3. RequiredIsFirst' /\ RequiredIsAwaited' /\ ResultsWhenIdle'
    BY <2>2 DEF RequiredIsFirst, RequiredIsAwaited, ResultsWhenIdle, Has, Results
  <2>4. ASSUME last[c] = "prompt", child[c] = "reading", answers[c] = 0
        PROVE  Has(toMain[c], "prompt")'
    <3>1. Has(toMain[c], "prompt")
      BY <1>0, <2>1, <2>4 DEF ServiceInv, RequiredFits, Has, Convs
    <3>2. text # "prompt"
      BY <1>4, InfosAssumption
    <3>3. Has(Tail(toMain[c]), "prompt")
      BY <1>0, <1>1, <3>1, <3>2, HasTail
    <3> QED BY <1>1, <3>3 DEF Has
  <2>5. RequiredFits'
    BY <1>0, <2>1, <2>4 DEF RequiredFits
  <2> QED BY <1>2, <2>3, <2>5 DEF ServiceInv
<1>5. CASE Listening(c) /\ text = "prompt"
  <2>1. /\ c = current /\ required' = TRUE
        /\ sig' = (IF ~required THEN <<"required">> ELSE <<>>) \o <<"received">>
    BY <1>5 DEF OnText, Listening
  <2>2. Tail(toMain[c]) = <<>> /\ Len(toMain[c]) = 1 /\ toMain[c][1] = "prompt"
    BY <1>0, <1>5, ClosingIsLast, InfosAssumption DEF ServiceInv, PipesFit
  <2>3. Has(toMain[c], "prompt")
    BY <2>2 DEF Has
  <2>4. /\ answers[c] = 0 /\ last[c] \in {"prompt", "again"}
        /\ child[c] \in {"reading", "exited", "reaped"}
    BY <2>3 DEF ServiceInv, PipesFit, PipeFits
  <2>5. last[c] = "prompt" => ~required
    BY <2>1, <2>2 DEF ServiceInv, RequiredFits, Convs
  <2>6. \/ ~required /\ Len(sig') = 2 /\ sig'[1] = "required" /\ sig'[2] = "received"
        \/ required /\ Len(sig') = 1 /\ sig'[1] = "received"
    <3>1. CASE ~required
      <4>1. sig' = <<"required">> \o <<"received">>
        BY <2>1, <3>1
      <4> QED BY <3>1, <4>1
    <3>2. CASE required
      <4>1. sig' = <<>> \o <<"received">>
        BY <2>1, <3>2
      <4> QED BY <3>2, <4>1
    <3> QED BY <3>1, <3>2
  <2>7. RequiredIsFirst' /\ ResultsWhenIdle'
    BY <2>6 DEF RequiredIsFirst, ResultsWhenIdle, Has, Results
  <2>8. RequiredIsAwaited'
    <3>1. toMain'[c] = <<>> /\ c # 0
      BY <1>1, <2>2 DEF Convs
    <3>2. current' = c /\ answers'[c] = 0 /\ child'[c] \in {"reading", "exited", "reaped"}
      BY <1>0, <2>1, <2>4
    <3> QED BY <3>1, <3>2 DEF RequiredIsAwaited
  <2>9. ~required => Has(sig, "required")'
    BY <2>6 DEF Has
  <2>10. Len(toMain'[c]) # 1
    <3>1. toMain'[c] = <<>> /\ Len(<<>>) = 0
      BY <1>1, <2>2, EmptySeq
    <3>2. Len(toMain'[c]) = 0
      BY <3>1
    <3> QED BY <3>2
  <2>11. RequiredFits'
    BY <1>0, <2>1, <2>4, <2>5, <2>9, <2>10 DEF RequiredFits
  <2> QED BY <1>2, <2>7, <2>8, <2>11 DEF ServiceInv
<1> QED BY <1>3, <1>4, <1>5 DEF Texts

\* An exit code is read: it was the last of its pipe.
LEMMA ExitCodeFits ==
  ASSUME PamInv, ServiceInv, NEW c \in Convs, OnMessage(c),
         Head(toMain[c]) \in Codes, OnExitCode(c, Head(toMain[c]))
  PROVE  ServiceInv'
<1>0. /\ sig = <<>> /\ toMain[c] # <<>> /\ toMain' = [toMain EXCEPT ![c] = Tail(@)]
      /\ Finish(c, Head(toMain[c]), <<>>)
      /\ UNCHANGED <<pid, child, last, answers>>
  BY DEF OnMessage, OnExitCode, Idle
<1>1. Head(toMain[c]) \notin Infos
  BY CodesAssumption
<1>2. /\ toMain'[c] = <<>> /\ answers[c] \in Nat
      /\ \A d \in Convs : d # c => toMain'[d] = toMain[d]
  BY <1>0, <1>1, ClosingIsLast DEF PamInv, ProcessInv, ServiceInv, PipesFit
<1>3. PipeFits(c)'
  <2>1. /\ answers'[c] \in {0, 1}
        /\ answers'[c] = 1 => child'[c] \in {"reading", "exited", "reaped"}
        /\ child'[c] = "reading" => last'[c] \in {"prompt", "again"}
    BY <1>0, <1>2 DEF ServiceInv, PipesFit, PipeFits
  <2> QED BY <1>2, <2>1, PipeEmpty
<1>4. \A d \in Convs : Alive(d)' => Alive(d)
  <2>1. \/ UNCHANGED <<current, deleted>>
        \/ current' = 0 /\ deleted' = deleted \cup {c} /\ c = current
    BY <1>0 DEF Finish, Listening, AbortConversation, ctxVars
  <2> QED BY <2>1 DEF Alive, Convs
<1>5. ASSUME NEW d \in Convs, d # c PROVE PipeFits(d)'
  BY <1>0, <1>2, <1>4, <1>5, PipeKept DEF ServiceInv, PipesFit
<1>6. RequiredIsFirst' /\ ResultsWhenIdle' /\ RequiredIsAwaited' /\ RequiredFits'
  <2>1. <<>> \in Seq(Due) /\ ~Has(<<>>, "required")
    BY DEF Has
  <2> QED BY <1>0, <1>2, <2>1, FinishFits DEF ServiceInv
<1> QED BY <1>3, <1>5, <1>6 DEF ServiceInv, PipesFit

\* And its child waited for: nothing is left in the pipe.
LEMMA WaitForChildFits ==
  ASSUME PamInv, ServiceInv, Reaping, NEW c \in Convs, WaitForChild(c)
  PROVE  ServiceInv'
<1>0. /\ sig = <<>> /\ sig' = <<>> /\ c # current /\ toMain[c] = <<>>
      /\ child'[c] = "reaped"
      /\ \A d \in Convs : d # c => child'[d] = child[d] /\ pid'[d] = pid[d]
      /\ UNCHANGED <<current, required, last, toMain, answers, deleted>>
  <2>1. c = reaping /\ reaping # 0
    BY DEF WaitForChild, Convs
  <2> QED BY <2>1 DEF WaitForChild, Reaping, ctxVars, PamInv, ProcessInv
<1>1. \A d \in Convs : Alive(d)' => Alive(d)
  BY <1>0 DEF Alive
<1>2. ASSUME NEW d \in Convs PROVE PipeFits(d)'
  BY <1>0, <1>1, PipeKept DEF ServiceInv, PipesFit
<1>3. current # 0 => child'[current] = child[current]
  BY <1>0, Blank
<1>4. RequiredFits'
  BY <1>0, <1>3 DEF ServiceInv, RequiredFits, Has
<1> QED BY <1>0, <1>2, <1>4, QuietSig DEF ServiceInv, PipesFit

\* The end of the pipe.
LEMMA EofFits ==
  ASSUME PamInv, ServiceInv, NEW c \in Convs, OnEof(c)
  PROVE  ServiceInv'
<1>1. <<>> \in Seq(Due) /\ \A x : ~Has(<<>>, x)
  BY DEF Has
<1> QED BY <1>1, InternalErrorFits DEF OnEof, Idle

\* Deferred deletion: the pipe of a conversation that is gone does not count.
LEMMA DeletedFits ==
  ASSUME PamInv, ServiceInv, NEW c \in Convs, ConversationDeleted(c)
  PROVE  ServiceInv'
<1>0. /\ sig = <<>> /\ sig' = <<>> /\ deleted' = deleted \ {c} /\ c # current
      /\ UNCHANGED <<current, required, last, toMain, answers>>
  BY DEF ConversationDeleted, Idle, KillChild, ctxVars, procVars, PamInv, ContextInv
<1>1. /\ child'[c] \in {child[c], "reaped"}
      /\ \A d \in Convs : d # c => child'[d] = child[d] /\ pid'[d] = pid[d]
  <2>1. /\ child \in [Convs -> {"none", "running", "reading", "exited", "reaped"}]
        /\ pid \in [Convs -> {"none", "child", "minus1"}]
    BY DEF PamInv, ProcessInv
  <2>2. \/ UNCHANGED <<pid, child>>
        \/ /\ pid' = [pid EXCEPT ![c] = "none"]
           /\ child' = [child EXCEPT ![c] = IF @ = "none" THEN @ ELSE "reaped"]
    BY DEF ConversationDeleted, KillChild, procVars
  <2> QED BY <2>1, <2>2
<1>2. ~Alive(c)' /\ \A d \in Convs : Alive(d)' => Alive(d)
  BY <1>0 DEF Alive
<1>3. \A d \in Convs : PipeFits(d)'
  BY <1>0, <1>1, <1>2, PipeKept DEF ServiceInv, PipesFit
<1>4. current # 0 => child'[current] = child[current]
  BY <1>0, <1>1, Blank
<1>5. RequiredFits'
  BY <1>0, <1>4 DEF ServiceInv, RequiredFits, Has
<1> QED BY <1>0, <1>3, <1>5, QuietSig DEF ServiceInv, PipesFit

\* A running child, whose conversation has no demand under way.
LEMMA ChildSaysFits ==
  ASSUME PamInv, ServiceInv, NEW c \in Convs, child[c] = "running",
         NEW y \in Texts \cup Codes, toMain' = [toMain EXCEPT ![c] = Append(@, y)],
         UNCHANGED <<current, required, sig, pid, answers, deleted>>,
         \A d \in Convs : d # c => child'[d] = child[d] /\ last'[d] = last[d],
         \/ y \in Infos /\ child'[c] = "running" /\ last'[c] = y
         \/ /\ y = "prompt" /\ child'[c] = "reading"
            /\ last'[c] = IF last[c] \in {"prompt", "again"} THEN "again" ELSE "prompt"
         \/ y \in Codes /\ child'[c] = "exited" /\ last'[c] = last[c]
  PROVE  ServiceInv'
<1>1. /\ toMain[c] \in Seq(Texts \cup Codes) /\ toMain'[c] = Append(toMain[c], y)
      /\ \A d \in Convs : d # c => toMain'[d] = toMain[d]
  BY DEF PamInv, ProcessInv
<1>2. PipesFit'
  <2>1. PipeFits(c)'
    BY PipeSays DEF ServiceInv, PipesFit
  <2>2. ASSUME NEW d \in Convs, d # c PROVE PipeFits(d)'
    BY <1>1, <2>2, PipeKept DEF ServiceInv, PipesFit, Alive
  <2> QED BY <2>1, <2>2 DEF PipesFit
<1>3. CASE current # c
  <2>1. current # 0 => UNCHANGED <<toMain[current], child[current], last[current]>>
    BY <1>1, <1>3, Blank
  <2>2. RequiredIsAwaited' /\ RequiredFits'
    BY <2>1 DEF ServiceInv, RequiredIsAwaited, RequiredFits, Has
  <2>3. RequiredIsFirst' /\ ResultsWhenIdle'
    BY DEF ServiceInv, RequiredIsFirst, ResultsWhenIdle, Has
  <2> QED BY <1>2, <2>2, <2>3 DEF ServiceInv
<1>4. CASE current = c
  <2>1. ~Has(sig, "required") /\ ~Has(sig, "required")'
    BY <1>4 DEF ServiceInv, RequiredIsAwaited, Has
  <2>2. RequiredIsAwaited' /\ RequiredIsFirst' /\ ResultsWhenIdle'
    BY <2>1 DEF ServiceInv, RequiredIsAwaited, RequiredIsFirst, ResultsWhenIdle, Has
  <2>3. /\ toMain'[c] # <<>> /\ Len(toMain'[c]) = Len(toMain[c]) + 1
        /\ Len(toMain[c]) \in Nat /\ toMain'[c][Len(toMain'[c])] = y
    BY <1>1, LenProperties, AppendProperties
  <2>4. Len(toMain'[c]) = 1 => toMain[c] = <<>> /\ toMain'[c][1] = y
    <3>1. toMain[c] # <<>> => Len(toMain[c]) # 0
      BY <1>1, EmptySeq
    <3> QED BY <2>3, <3>1
  <2>5. Has(toMain[c], y)'
    BY <1>1, HasAppend DEF Has
  <2>6. y \in Infos \cup Codes => y # "prompt"
    BY InfosAssumption, CodesAssumption
  <2>7. ASSUME Len(toMain'[c]) = 1, toMain'[c][1] = "prompt", last'[c] = "prompt"
        PROVE  ~required
    BY <1>4, <2>4, <2>6, <2>7 DEF ServiceInv, RequiredFits, Convs
  <2>8. ASSUME last'[c] = "prompt", child'[c] = "reading"
        PROVE  Has(toMain[c], "prompt")'
    <3>1. y = "prompt"
      BY <2>8
    <3> QED BY <2>5, <3>1
  <2>9. RequiredFits'
    BY <1>4, <2>3, <2>7, <2>8 DEF RequiredFits
  <2> QED BY <1>2, <2>2, <2>9 DEF ServiceInv
<1> QED BY <1>3, <1>4

\* A child that reads the answer to its prompt had sent nothing after it.
LEMMA ChildReadsFits ==
  ASSUME PamInv, ServiceInv, NEW c \in Convs, ChildReads(c)
  PROVE  ServiceInv'
<1>0. /\ child[c] = "reading" /\ answers[c] > 0 /\ answers[c] \in Nat
      /\ answers' = [answers EXCEPT ![c] = @ - 1]
      /\ child' = [child EXCEPT ![c] = "running"]
      /\ UNCHANGED <<current, required, pid, last, toMain, sig, deleted>>
  BY DEF ChildReads, ctxVars, PamInv, ProcessInv
<1>1. /\ answers[c] = 1 /\ answers'[c] = 0 /\ child'[c] = "running"
      /\ \A d \in Convs : d # c => answers'[d] = answers[d] /\ child'[d] = child[d]
  BY <1>0 DEF PamInv, ProcessInv, ServiceInv, PipesFit, PipeFits
<1>2. \A i \in 1 .. Len(toMain[c]) : toMain[c][i] \in Infos
  <2> SUFFICES ASSUME NEW i \in 1 .. Len(toMain[c]) PROVE toMain[c][i] \in Infos
    OBVIOUS
  <2>1. toMain[c][i] \in Texts \cup Codes
    BY ElementOfSeq DEF PamInv, ProcessInv
  <2>2. toMain[c][i] # "prompt" /\ toMain[c][i] \notin Codes
    BY <1>0, <1>1 DEF ServiceInv, PipesFit, PipeFits, Has
  <2> QED BY <2>1, <2>2 DEF Texts
<1>3. \A x : Has(toMain[c], x) => x \in Infos
  BY <1>2 DEF Has
<1>4. PipeFits(c)'
  <2>1. ~Has(toMain[c], "prompt")' /\ \A code \in Codes : ~Has(toMain[c], code)'
    BY <1>0, <1>3, InfosAssumption, CodesAssumption DEF Has
  <2> QED BY <1>0, <1>1, <1>2, <2>1 DEF PipeFits, Has
<1>5. ASSUME NEW d \in Convs, d # c PROVE PipeFits(d)'
  BY <1>0, <1>1, <1>5, PipeKept DEF ServiceInv, PipesFit, Alive
<1>6. RequiredIsAwaited'
  <2>1. Has(sig, "required") => current # c /\ current \in Convs
    BY <1>1, Blank DEF ServiceInv, RequiredIsAwaited
  <2> QED BY <1>0, <1>1, <2>1 DEF ServiceInv, RequiredIsAwaited, Has
<1>7. RequiredFits'
  <2>1. current # 0 /\ current # c => UNCHANGED <<answers[current], child[current]>>
    BY <1>0, <1>1, Blank
  <2> QED BY <1>0, <1>1, <2>1 DEF ServiceInv, RequiredFits, Has
<1>8. RequiredIsFirst' /\ ResultsWhenIdle'
  BY <1>0 DEF ServiceInv, RequiredIsFirst, ResultsWhenIdle, Has
<1> QED BY <1>4, <1>5, <1>6, <1>7, <1>8 DEF ServiceInv, PipesFit

LEMMA ChildFits ==
  ASSUME PamInv, ServiceInv, NEW c \in Convs, ChildWorks(c) \/ ChildCrashes(c)
  PROVE  ServiceInv'
<1>0. UNCHANGED <<current, required, sig, pid, deleted>>
  BY DEF ChildWorks, ChildInforms, ChildPrompts, ChildSays, ChildReads, ChildExits,
         ChildCrashes, ctxVars
<1>1. CASE ChildInforms(c)
  <2>1. PICK text \in Infos : ChildSays(c, text, "running")
    BY <1>1 DEF ChildInforms
  <2>2. text # "prompt" /\ text \in Texts \cup Codes
    BY InfosAssumption DEF Texts
  <2>3. /\ child[c] = "running" /\ toMain' = [toMain EXCEPT ![c] = Append(@, text)]
        /\ child'[c] = "running" /\ last'[c] = text /\ UNCHANGED answers
        /\ \A d \in Convs : d # c => child'[d] = child[d] /\ last'[d] = last[d]
    BY <2>1, <2>2 DEF ChildSays, PamInv, ProcessInv
  <2> QED BY <1>0, <2>2, <2>3, ChildSaysFits
<1>2. CASE ChildPrompts(c)
  <2>1. /\ child[c] = "running" /\ toMain' = [toMain EXCEPT ![c] = Append(@, "prompt")]
        /\ child'[c] = "reading" /\ UNCHANGED answers
        /\ last'[c] = IF last[c] \in {"prompt", "again"} THEN "again" ELSE "prompt"
        /\ \A d \in Convs : d # c => child'[d] = child[d] /\ last'[d] = last[d]
    BY <1>2 DEF ChildPrompts, ChildSays, PamInv, ProcessInv
  <2>2. "prompt" \in Texts \cup Codes
    BY DEF Texts
  <2> QED BY <1>0, <2>1, <2>2, ChildSaysFits
<1>3. CASE ChildReads(c)
  BY <1>3, ChildReadsFits
<1>4. CASE ChildExits(c)
  <2>1. PICK code \in Codes : toMain' = [toMain EXCEPT ![c] = Append(@, code)]
    BY <1>4 DEF ChildExits
  <2>2. /\ child[c] = "running" /\ child'[c] = "exited" /\ UNCHANGED <<last, answers>>
        /\ \A d \in Convs : d # c => child'[d] = child[d]
    BY <1>4 DEF ChildExits, PamInv, ProcessInv
  <2> QED BY <1>0, <2>1, <2>2, ChildSaysFits
<1>5. CASE ChildCrashes(c)
  <2>1. /\ child[c] \in {"running", "reading"} /\ child'[c] = "exited"
        /\ \A d \in Convs : d # c => child'[d] = child[d]
        /\ UNCHANGED <<last, answers, toMain>>
    BY <1>5 DEF ChildCrashes, PamInv, ProcessInv
  <2>2. PipesFit'
    BY <1>0, <2>1, PipeKept DEF ServiceInv, PipesFit, Alive
  <2>3. current # 0 => child'[current] \in {child[current], "exited"}
    BY <2>1, Blank
  <2>4. RequiredIsAwaited' /\ RequiredFits'
    BY <1>0, <2>1, <2>3 DEF ServiceInv, RequiredIsAwaited, RequiredFits, Has
  <2>5. RequiredIsFirst' /\ ResultsWhenIdle'
    BY <1>0 DEF ServiceInv, RequiredIsFirst, ResultsWhenIdle, Has
  <2> QED BY <2>2, <2>4, <2>5 DEF ServiceInv
<1> QED BY <1>1, <1>2, <1>3, <1>4, <1>5 DEF ChildWorks

\* Every step of the form keeps what the service needs of it.
LEMMA NextServiceInv ==
  PamInv /\ ServiceInv /\ Starting /\ Reaping /\ [AuthNext]_authVars => ServiceInv'
<1> SUFFICES ASSUME PamInv, ServiceInv, Starting, Reaping, [AuthNext]_authVars
             PROVE  ServiceInv'
  OBVIOUS
<1>1. CASE PamStep(ComponentComplete)
  BY <1>1, StartFits DEF PamStep, ComponentComplete, Idle
<1>2. CASE UNCHANGED pamVars
  BY <1>2, QuietFits DEF pamVars
<1>3. CASE Accept
  BY <1>2, <1>3, StartFits DEF Accept, FieldEnabled, Idle
<1>4. CASE HandleSignal
  <2>1. CASE Head(sig) = "required" /\ OnRequired
    BY <1>4, <2>1, RespondFits DEF HandleSignal, OnRequired
  <2>2. CASE Head(sig) # "required" /\ Ignore
    BY <1>4, <2>2, QuietFits DEF HandleSignal, Ignore
  <2>3. "required" \notin Results
    BY DEF Results
  <2> QED BY <1>4, <2>1, <2>2, <2>3, StartProcessFits
          DEF HandleSignal, OnReceived, OnError, OnCompleted
<1>5. ASSUME NEW c \in Convs, ConvEvent(c) PROVE ServiceInv'
  BY <1>5, TextFits, ExitCodeFits, WaitForChildFits, EofFits, DeletedFits
     DEF ConvEvent, OnMessage
<1>6. ASSUME NEW c \in Convs, ChildStep(c) PROVE ServiceInv'
  BY <1>6, ChildFits DEF ChildStep, PamStep
<1> QED BY <1>1, <1>2, <1>3, <1>4, <1>5, <1>6
        DEF AuthNext, PamStep, Type, LockSecured, FailTimeout, TakeUnlock, authVars

-----------------------------------------------------------------------------
(* The field of the form *)

LEMMA NextFieldTypes == FieldTypes /\ [AuthNext]_authVars => FieldTypes'
<1> SUFFICES ASSUME FieldTypes, [AuthNext]_authVars PROVE FieldTypes'
  OBVIOUS
<1>1. CASE UNCHANGED fieldVars
  BY <1>1 DEF FieldTypes, fieldVars
<1>2. CASE Type \/ Accept \/ LockSecured \/ TakeUnlock
  BY <1>2, Zenon DEF FieldTypes, Type, Accept, LockSecured, TakeUnlock
<1>3. CASE FailTimeout
  <2>1. timeLeft' \in Int
    BY <1>3 DEF FieldTypes, FailTimeout
  <2>2. lockout' \in BOOLEAN
    BY <1>3 DEF FailTimeout
  <2> QED BY <1>3, <2>1, <2>2, Zenon DEF FieldTypes, FailTimeout
<1>4. CASE HandleSignal
  <2>1. CASE OnRequired
    BY <2>1, Zenon DEF FieldTypes, OnRequired
  <2>2. CASE OnReceived
    <3>1. timeLeft' \in Int
      <4>1. timeLeft' \in Minutes \/ timeLeft' = timeLeft
        BY <2>2, Zenon DEF OnReceived
      <4>2. Minutes \subseteq Int /\ timeLeft \in Int
        BY MinutesAssumption DEF FieldTypes
      <4> QED BY <4>1, <4>2
    <3> QED BY <2>2, <3>1, Zenon DEF FieldTypes, OnReceived
  <2>3. CASE OnError
    <3>1. lockout' \in BOOLEAN /\ ticking' \in BOOLEAN
      BY <2>3 DEF FieldTypes, OnError, StartLockout
    <3> QED BY <2>3, <3>1, Zenon DEF FieldTypes, OnError
  <2>4. ASSUME OnCompleted(Head(sig)) PROVE FieldTypes'
    <3>1. lockout' \in BOOLEAN /\ ticking' \in BOOLEAN
      BY <2>4 DEF FieldTypes, OnCompleted, StartLockout
    <3>2. unlocks' \in BOOLEAN
      BY <2>4 DEF OnCompleted
    <3> QED BY <2>4, <3>1, <3>2, Zenon DEF FieldTypes, OnCompleted
  <2> QED BY <1>1, <1>4, <2>1, <2>2, <2>3, <2>4 DEF HandleSignal
<1> QED BY <1>1, <1>2, <1>3, <1>4 DEF AuthNext, PamStep, ChildStep, authVars

\* The news of an end is under way.
ResultComes == \E i \in DOMAIN sig : sig[i] \in Results

\* A conversation is over only together with the news of its end.
LEMMA FinishTells ==
  ASSUME PamInv, NEW c \in Convs, NEW code \in Codes \cup {"error"},
         NEW rest \in Seq(Due), Finish(c, code, rest)
  PROVE  UNCHANGED current \/ ResultComes'
<1>1. CASE Listening(c)
  <2>1. sig' = AbortTells \o Report(code) \o rest /\ sig' \in Seq(Due)
    BY <1>1, TellsAreDue DEF Finish
  <2>2. DOMAIN sig' = 1 .. Len(sig')
    BY <2>1, LenProperties
  <2>3. \E r \in Results : \E i \in 1 .. Len(sig') : sig'[i] = r
    BY <2>1, ReportHas DEF Has
  <2> QED BY <2>2, <2>3 DEF ResultComes
<1>2. CASE ~Listening(c)
  BY <1>2 DEF Finish, ctxVars
<1> QED BY <1>1, <1>2

LEMMA NextPendingMeansBusy ==
  PamInv /\ AuthInv /\ [AuthNext]_authVars => PendingMeansBusy'
<1> SUFFICES ASSUME PamInv, AuthInv, [AuthNext]_authVars, pending'
             PROVE  current' # 0 \/ ResultComes'
  BY DEF PendingMeansBusy, ResultComes
<1> ServiceInv /\ (pending => current # 0 \/ ResultComes)
  BY DEF AuthInv, ServiceInv, PendingMeansBusy, ResultComes
<1>0. <<>> \in Seq(Due) /\ (sig = <<>> => ~ResultComes) /\ sig \in Seq(Due)
  BY DEF ResultComes, PamInv, ContextInv
<1>1. CASE UNCHANGED <<pending, current, sig>>
  BY <1>1 DEF ResultComes
<1>2. ASSUME Start(<<>>) \/ ComponentComplete, sig = <<>>, UNCHANGED pending PROVE FALSE
  BY <1>0, <1>2 DEF Start, ComponentComplete, PamInv, ContextInv
<1>3. CASE HandleSignal /\ Head(sig) = "required" /\ OnRequired
  <2>1. current \in Convs /\ current # 0
    BY <1>3, Blank DEF OnRequired, Respond
  <2>2. Tail(sig) \in Seq(Due)
    BY <1>3, NoDemandLater DEF HandleSignal
  <2>3. UNCHANGED current \/ Finish(current, "error", Tail(sig))
    BY <1>3 DEF OnRequired, Respond, InternalError, ctxVars
  <2> QED BY <2>1, <2>2, <2>3, FinishTells
<1>4. CASE Ignore /\ Head(sig) \notin Results /\ UNCHANGED pending
  <2>1. sig # <<>> /\ sig' = Tail(sig) /\ UNCHANGED <<pending, current>>
    BY <1>4 DEF Ignore, ctxVars
  <2>2. ASSUME ResultComes PROVE ResultComes'
    <3>1. PICK i \in DOMAIN sig : sig[i] \in Results
      BY <2>2 DEF ResultComes
    <3>2. Has(sig, sig[i]) /\ sig[i] # Head(sig)
      <4>1. DOMAIN sig = 1 .. Len(sig)
        BY <1>0, LenProperties
      <4> QED BY <1>4, <3>1, <4>1 DEF Has
    <3>3. Has(Tail(sig), sig[i])
      BY <1>0, <1>4, <2>1, <3>2, HasTail
    <3>4. PICK j \in 1 .. Len(Tail(sig)) : Tail(sig)[j] = sig[i]
      BY <3>3 DEF Has
    <3>5. Tail(sig) \in Seq(Due)
      BY <1>0, <2>1, HeadTailProperties
    <3>6. DOMAIN Tail(sig) = 1 .. Len(Tail(sig))
      BY <3>5, LenProperties
    <3> QED BY <2>1, <3>1, <3>4, <3>6 DEF ResultComes
  <2> QED BY <2>1, <2>2
<1>5. ASSUME HandleSignal, OnError \/ OnCompleted(Head(sig)) PROVE FALSE
  BY <1>5 DEF OnError, OnCompleted
<1>12. CASE StartProcess /\ UNCHANGED pending
  <2>1. current \in Convs /\ current # 0 /\ Tail(sig) \in Seq(Due)
    BY <1>12, Blank, HeadTailProperties DEF StartProcess, StartsOwn, PamInv, ContextInv
  <2>2. UNCHANGED current \/ Finish(current, "error", Tail(sig))
    BY <1>12 DEF StartProcess, ctxVars
  <2> QED BY <2>1, <2>2, FinishTells
<1>13. CASE Head(sig) \in {"active", "message"} /\ Ignore /\ UNCHANGED fieldVars
  BY <1>4, <1>13 DEF Results, fieldVars
<1>14. CASE Head(sig) = "received" /\ OnReceived
  BY <1>4, <1>14 DEF OnReceived, Results
<1>6. CASE HandleSignal
  BY <1>3, <1>5, <1>6, <1>12, <1>13, <1>14 DEF HandleSignal, fieldVars
<1>7. ASSUME NEW c \in Convs, PamStep(ConvEvent(c)) PROVE current' # 0 \/ ResultComes'
  <2>1. sig = <<>> /\ UNCHANGED pending
    BY <1>7 DEF PamStep, ConvEvent, OnMessage, OnEof, WaitForChild, ConversationDeleted, Idle,
       fieldVars
  <2>2. \/ UNCHANGED current
        \/ \E code \in Codes \cup {"error"} : Finish(c, code, <<>>)
    BY <1>7 DEF PamStep, ConvEvent, OnMessage, OnText, OnExitCode, WaitForChild, OnEof,
       InternalError, ConversationDeleted, ctxVars
  <2> QED BY <1>0, <2>1, <2>2, FinishTells
<1>8. ASSUME NEW c \in Convs, ChildStep(c) PROVE UNCHANGED <<pending, current, sig>>
  BY <1>8 DEF ChildStep, PamStep, ChildWorks, ChildInforms, ChildPrompts, ChildSays,
     ChildReads, ChildExits, ChildCrashes, ctxVars, fieldVars
<1>9. CASE Accept
  BY <1>1, <1>2, <1>9 DEF Accept, FieldEnabled, Idle, pamVars, ctxVars
<1>10. CASE PamStep(ComponentComplete)
  BY <1>2, <1>10 DEF PamStep, ComponentComplete, Idle, fieldVars
<1>11. CASE Type \/ LockSecured \/ FailTimeout \/ TakeUnlock \/ UNCHANGED authVars
  BY <1>1, <1>11 DEF Type, LockSecured, FailTimeout, TakeUnlock, authVars, fieldVars,
     pamVars, ctxVars
<1> QED BY <1>1, <1>6, <1>7, <1>8, <1>9, <1>10, <1>11 DEF AuthNext

-----------------------------------------------------------------------------
(* The conversation that is started, and the child that is waited for *)

\* The end of a conversation announces no start.
LEMMA FinishStartsNothing ==
  ASSUME NEW c \in Convs, NEW code \in Codes \cup {"error"}, NEW rest \in Seq(Due),
         ~Has(rest, "start"), Finish(c, code, rest)
  PROVE  ~Has(sig, "start")'
<1>1. sig' = rest \/ sig' = AbortTells \o Report(code) \o rest
  BY DEF Finish
<1> QED BY <1>1, ReportHas DEF Has

LEMMA NextStarting == PamInv /\ AuthInv /\ [AuthNext]_authVars => Starting'
<1> SUFFICES ASSUME PamInv, AuthInv, [AuthNext]_authVars PROVE Starting'
  OBVIOUS
<1>0. /\ Starting /\ ServiceInv /\ sig \in Seq(Due) /\ <<>> \in Seq(Due) /\ ~Has(<<>>, "start")
  BY DEF AuthInv, ServiceInv, PamInv, ContextInv, Has
<1>1. CASE UNCHANGED <<sig, current, pid, toMain, answers>>
  BY <1>0, <1>1 DEF Starting, Has
<1>2. CASE ~Has(sig, "start")'
  BY <1>2 DEF Starting, Has
<1>3. ASSUME StartConversation(<<>>) PROVE Starting'
  <2>1. CASE sig' = <<>>
    BY <1>2, <2>1 DEF Has
  <2>2. CASE /\ used < MaxConv /\ current' = used + 1
             /\ sig' = <<"active", "start">> \o <<>> /\ UNCHANGED procVars
    <3>1. used + 1 \in Convs /\ used + 1 > used /\ used + 1 # 0 /\ PidFits
      BY <2>2, Blank DEF PamInv, ContextInv, ProcessInv
    <3>2. pid[used + 1] = "none" /\ toMain[used + 1] = <<>> /\ answers[used + 1] = 0
      BY <3>1 DEF PidFits
    <3>3. sig' = <<"active", "start">>
      BY <2>2
    <3> QED BY <2>2, <3>1, <3>2, <3>3 DEF Starting, procVars
  <2> QED BY <1>3, <2>1, <2>2 DEF StartConversation
<1>4. ASSUME Start(<<>>) \/ ComponentComplete, sig = <<>> PROVE Starting'
  <2>1. CASE sig' = <<>>
    BY <1>2, <2>1 DEF Has
  <2> QED BY <1>3, <1>4, <2>1 DEF Start, ComponentComplete
<1>5. CASE Accept
  BY <1>1, <1>4, <1>5 DEF Accept, FieldEnabled, Idle, pamVars, ctxVars, procVars
<1>6. CASE PamStep(ComponentComplete)
  BY <1>4, <1>6 DEF PamStep, ComponentComplete, Idle
<1>7. CASE sig # <<>> /\ Ignore
  <2>1. /\ sig' = Tail(sig) /\ UNCHANGED <<current, pid, toMain, answers>>
        /\ Has(Tail(sig), "start") => Has(sig, "start")
    BY <1>0, <1>7, HasTail DEF Ignore, ctxVars, procVars
  <2>2. ASSUME Has(sig, "start")' PROVE Starting'
    <3>1. Has(Tail(sig), "start") /\ Has(sig, "start")
      BY <2>1, <2>2 DEF Has
    <3>2. sig' = <<"start">>
      BY <1>0, <1>7, <2>1, <3>1, StartIsAlone
    <3> QED BY <1>0, <2>1, <3>1, <3>2 DEF Starting
  <2> QED BY <1>2, <2>2
<1>8. CASE sig # <<>> /\ Head(sig) = "required" /\ Respond(Tail(sig))
  <2>1. ~Has(sig, "start")
    BY <1>0, <1>8, StartIsAlone
  <2>2. ~Has(Tail(sig), "start") /\ Tail(sig) \in Seq(Due) /\ current \in Convs
    BY <1>0, <1>8, <2>1, HasTail, HeadTailProperties, Blank DEF Respond
  <2>3. sig' = Tail(sig) \/ Finish(current, "error", Tail(sig))
    BY <1>8 DEF Respond, InternalError
  <2>4. ~Has(sig, "start")'
    BY <2>2, <2>3, FinishStartsNothing DEF Has
  <2> QED BY <1>2, <2>4
<1>9. CASE StartProcess
  <2>1. sig # <<>> /\ Head(sig) = "start" /\ current \in Convs
    BY <1>9, Blank DEF StartProcess, StartsOwn
  <2>2. Tail(sig) = <<>>
    <3>1. Len(sig) \in Nat \ {0} /\ Head(sig) = sig[1]
      BY <1>0, <2>1, EmptySeq
    <3>2. 1 \in 1 .. Len(sig)
      BY <3>1
    <3>3. Has(sig, "start")
      BY <2>1, <3>1, <3>2 DEF Has
    <3> QED BY <1>0, <2>1, <3>3, StartIsAlone
  <2>3. sig' = <<>> \/ Finish(current, "error", <<>>)
    BY <1>9, <2>2 DEF StartProcess
  <2>4. ~Has(sig, "start")'
    BY <1>0, <2>1, <2>3, FinishStartsNothing DEF Has
  <2> QED BY <1>2, <2>4
<1>10. CASE HandleSignal
  BY <1>7, <1>8, <1>9, <1>10 DEF HandleSignal, OnRequired, OnReceived, OnError, OnCompleted
<1>11. ASSUME NEW c \in Convs, ConvEvent(c) PROVE Starting'
  <2>1. sig = <<>>
    BY <1>11 DEF ConvEvent, OnMessage, OnEof, WaitForChild, ConversationDeleted, Idle
  <2>2. CASE sig' = <<>>
    BY <1>2, <2>2 DEF Has
  <2>3. ASSUME NEW code \in Codes \cup {"error"}, Finish(c, code, <<>>) PROVE Starting'
    BY <1>0, <1>2, <2>3, FinishStartsNothing
  <2>4. CASE OnMessage(c) /\ OnText(c, Head(toMain[c]))
    <3>1. CASE sig' = sig
      BY <2>1, <2>2, <3>1
    <3>2. CASE sig' = <<"required">> \o <<"received">>
      <4>1. Len(sig') = 2 /\ sig'[1] = "required" /\ sig'[2] = "received"
        BY <3>2
      <4> QED BY <1>2, <4>1 DEF Has
    <3>3. CASE sig' = <<>> \o <<"received">>
      <4>1. sig' = <<"received">>
        BY <3>3
      <4>2. Len(sig') = 1 /\ sig'[1] = "received"
        BY <4>1
      <4> QED BY <1>2, <4>2 DEF Has
    <3> QED BY <2>4, <3>1, <3>2, <3>3 DEF OnText
  <2>5. CASE OnMessage(c) /\ Head(toMain[c]) \in Codes /\ OnExitCode(c, Head(toMain[c]))
    BY <2>3, <2>5 DEF OnExitCode
  <2>6. CASE OnEof(c)
    BY <2>2, <2>3, <2>6 DEF OnEof, InternalError
  <2>7. CASE WaitForChild(c) \/ ConversationDeleted(c)
    BY <2>1, <2>2, <2>7 DEF WaitForChild, ConversationDeleted
  <2> QED BY <1>11, <2>4, <2>5, <2>6, <2>7 DEF ConvEvent, OnMessage
<1>12. ASSUME NEW c \in Convs, ChildStep(c) PROVE Starting'
  <2>1. /\ UNCHANGED <<sig, current, pid>> /\ child[c] \in {"running", "reading"}
        /\ \A d \in Convs : d # c => toMain'[d] = toMain[d] /\ answers'[d] = answers[d]
    BY <1>12 DEF ChildStep, PamStep, ChildWorks, ChildInforms, ChildPrompts, ChildSays,
       ChildReads, ChildExits, ChildCrashes, ctxVars, PamInv, ProcessInv
  <2>2. Has(sig, "start") => current \in Convs /\ current # c
    <3>1. PidFits
      BY DEF PamInv, ProcessInv
    <3> QED BY <1>0, <2>1, <3>1, Blank DEF Starting, PidFits
  <2> QED BY <1>0, <2>1, <2>2 DEF Starting, Has
<1>13. CASE UNCHANGED pamVars
  BY <1>1, <1>13 DEF pamVars, ctxVars, procVars
<1> QED BY <1>5, <1>6, <1>10, <1>11, <1>12, <1>13
        DEF AuthNext, PamStep, Type, LockSecured, FailTimeout, TakeUnlock, authVars

\* A child that has ended stays as it is while the handlers of its end run: they act on the
\* conversation that is current.
LEMMA ReapingKept ==
  ASSUME PamInv, Reaping, reaping' = reaping, reaping # 0 => reaping # current',
         \A d \in Convs : /\ d # current => UNCHANGED <<pid[d], child[d]>>
                          /\ toMain'[d] = toMain[d]
  PROVE  Reaping'
BY DEF Reaping

LEMMA NextReaping == PamInv /\ AuthInv /\ [AuthNext]_authVars => Reaping'
<1> SUFFICES ASSUME PamInv, AuthInv, [AuthNext]_authVars PROVE Reaping'
  OBVIOUS
<1>0. /\ Reaping /\ ReapingKnown /\ PipesFit /\ PidFits /\ used \in Nat
      /\ pid \in [Convs -> {"none", "child", "minus1"}]
      /\ child \in [Convs -> {"none", "running", "reading", "exited", "reaped"}]
  BY DEF AuthInv, PamInv, ContextInv, ProcessInv
<1>1. CASE reaping = 0 /\ reaping' = 0
  BY <1>1 DEF Reaping
<1>2. CASE UNCHANGED <<reaping, current, procVars>>
  BY <1>0, <1>2 DEF Reaping, procVars
<1>3. CASE Accept \/ PamStep(ComponentComplete)
  BY <1>1, <1>3 DEF Accept, FieldEnabled, PamStep, ComponentComplete, Start, Idle, pamVars
<1>4. CASE Respond(Tail(sig))
  <2>1. current \in Convs
    BY <1>4, Blank DEF Respond
  <2>2. /\ UNCHANGED <<reaping, toMain>> /\ current' \in {current, 0}
        /\ \A d \in Convs : d # current => UNCHANGED <<pid[d], child[d]>>
    <3>1. CASE InternalError(current, Tail(sig))
      <4>1. /\ UNCHANGED <<reaping, toMain>> /\ current' \in {current, 0}
        BY <1>4, <3>1 DEF Respond, InternalError, Finish, AbortConversation, KillChild, ctxVars,
           procVars
      <4>2. \/ UNCHANGED <<pid, child>>
            \/ /\ pid' = [pid EXCEPT ![current] = "none"]
               /\ child' = [child EXCEPT ![current] = IF @ = "none" THEN @ ELSE "reaped"]
        BY <3>1 DEF InternalError, KillChild, procVars
      <4> QED BY <1>0, <4>1, <4>2
    <3>2. CASE UNCHANGED <<ctxVars, pid, child, toMain>>
      BY <1>4, <3>2 DEF Respond, ctxVars
    <3> QED BY <1>4, <3>1, <3>2 DEF Respond
  <2> QED BY <1>0, <2>2, ReapingKept DEF Reaping
<1>5. CASE StartProcess
  <2>1. current \in Convs
    BY <1>5, Blank DEF StartProcess, StartsOwn
  <2>2. /\ UNCHANGED <<reaping, toMain>> /\ current' \in {current, 0}
    BY <1>5 DEF StartProcess, Finish, AbortConversation, ctxVars, procVars
  <2>3. \/ UNCHANGED <<pid, child>>
        \/ \E p, k : /\ pid' = [pid EXCEPT ![current] = p]
                     /\ child' = [child EXCEPT ![current] = k]
    BY <1>5 DEF StartProcess, procVars
  <2>4. \A d \in Convs : d # current => UNCHANGED <<pid[d], child[d]>>
    BY <1>0, <2>3
  <2> QED BY <1>0, <2>2, <2>4, ReapingKept DEF Reaping
<1>6. CASE HandleSignal
  BY <1>2, <1>4, <1>5, <1>6
     DEF HandleSignal, OnRequired, OnReceived, OnError, OnCompleted, Ignore, ctxVars
<1>7. ASSUME NEW c \in Convs, ConvEvent(c) PROVE Reaping'
  <2>1. CASE OnMessage(c) /\ OnText(c, Head(toMain[c]))
    BY <1>1, <2>1 DEF OnMessage, OnText, Idle
  <2>2. CASE OnMessage(c) /\ Head(toMain[c]) \in Codes /\ OnExitCode(c, Head(toMain[c]))
    <3>1. /\ toMain[c] # <<>> /\ toMain' = [toMain EXCEPT ![c] = Tail(@)] /\ Alive(c)
          /\ toMain \in [Convs -> Seq(Texts \cup Codes)]
          /\ reaping' = c /\ UNCHANGED <<pid, child>> /\ Finish(c, Head(toMain[c]), <<>>)
      BY <2>2 DEF OnMessage, OnExitCode, PamInv, ProcessInv
    <3>2. Head(toMain[c]) \notin Infos
      BY <2>2, CodesAssumption
    <3>3. toMain'[c] = <<>> /\ Len(toMain[c]) = 1 /\ toMain[c][1] = Head(toMain[c])
      BY <1>0, <3>1, <3>2, ClosingIsLast DEF PipesFit
    <3>4. Has(toMain[c], Head(toMain[c]))
      BY <3>3 DEF Has
    <3>5. child[c] \in {"exited", "reaped"} /\ pid[c] # "none"
      BY <1>0, <2>2, <3>1, <3>4 DEF PipesFit, PipeFits
    <3>6. child[c] = "exited"
      BY <1>0, <3>5 DEF PidFits
    <3>7. c # current'
      BY <3>1 DEF Finish, Listening, AbortConversation, ctxVars, Convs
    <3> QED BY <3>1, <3>3, <3>5, <3>6, <3>7 DEF Reaping
  <2>3. CASE OnEof(c) \/ ConversationDeleted(c) \/ WaitForChild(c)
    BY <1>1, <2>3 DEF OnEof, ConversationDeleted, WaitForChild, Idle, Reaping
  <2> QED BY <1>7, <2>1, <2>2, <2>3 DEF ConvEvent, OnMessage
<1>8. ASSUME NEW c \in Convs, ChildStep(c) PROVE Reaping'
  <2>1. /\ UNCHANGED <<reaping, current, pid>> /\ child[c] \in {"running", "reading"}
        /\ \A d \in Convs : d # c => toMain'[d] = toMain[d] /\ child'[d] = child[d]
    BY <1>8 DEF ChildStep, PamStep, ChildWorks, ChildInforms, ChildPrompts, ChildSays,
       ChildReads, ChildExits, ChildCrashes, ctxVars, PamInv, ProcessInv
  <2> QED BY <1>0, <2>1 DEF Reaping
<1>9. CASE UNCHANGED pamVars
  BY <1>2, <1>9 DEF pamVars, ctxVars
<1> QED BY <1>3, <1>6, <1>7, <1>8, <1>9
        DEF AuthNext, PamStep, Type, LockSecured, FailTimeout, TakeUnlock, authVars

-----------------------------------------------------------------------------
(* The theorems *)

LEMMA NextAuthInv == PamInv /\ AuthInv /\ [AuthNext]_authVars => AuthInv'
BY NextServiceInv, NextFieldTypes, NextPendingMeansBusy, NextStarting, NextReaping,
   FormStepIsPamStep, NextReapingKnown DEF AuthInv, ServiceInv

THEOREM AuthInductive == AuthSpec => [](PamInv /\ AuthInv)
<1>1. AuthInit => PamInv /\ AuthInv
  BY InitPamInv, InitAuthInv DEF AuthInit
<1>2. PamInv /\ AuthInv /\ [AuthNext]_authVars => (PamInv /\ AuthInv)'
  BY NextPamInv, FormStepIsPamStep, NextAuthInv DEF AuthInv
<1> QED BY <1>1, <1>2, PTL DEF AuthSpec

\* The field is disabled only while an attempt runs or its end is news, a prompt
\* gets at most one answer and no prompt gets another's, and completed() finds
\* the context free.
THEOREM AuthAlwaysConsistent == AuthSpec => []AuthConsistent
BY AuthInductive, AuthInvGives, PTL

\* Every prompt that the form has read is answered, unless it follows another.
THEOREM PromptsAlwaysAnswered == AuthSpec => []PromptsAnswered
BY AuthInductive, AuthInvGives, PTL

\* Where no fork fails, every pid is that of a child.
PidsAreChildren == ~stray /\ \A c \in Convs : pid[c] # "minus1"

LEMMA KillNoStray ==
  ASSUME PamInv, PidsAreChildren, NEW c \in Convs, KillChild(c)
  PROVE  PidsAreChildren'
<1>1. CASE pid[c] = "none"
  BY <1>1 DEF KillChild, PidsAreChildren, procVars
<1>2. CASE pid[c] # "none"
  <2>1. pid[c] = "child" /\ child[c] \notin {"none", "reaped"}
    BY <1>2 DEF PamInv, ProcessInv, PidFits, PidsAreChildren
  <2>2. ~stray'
    BY <1>2, <2>1 DEF KillChild, PidsAreChildren
  <2>3. pid' = [pid EXCEPT ![c] = "none"]
    BY <1>2 DEF KillChild
  <2> QED BY <2>2, <2>3 DEF PidsAreChildren, PamInv, ProcessInv
<1> QED BY <1>1, <1>2

LEMMA StartNoStray ==
  ASSUME "fork_failed" \notin Outcomes, PamInv, PidsAreChildren, StartProcess
  PROVE  PidsAreChildren'
<1>1. UNCHANGED stray /\ (UNCHANGED pid \/ pid' = [pid EXCEPT ![current] = "child"])
  BY DEF StartProcess, procVars
<1> QED BY <1>1 DEF PidsAreChildren, PamInv, ProcessInv

\* Nothing but an own child that is still to be waited for is killed or waited
\* for, as long as fork() does not fail.
THEOREM NoStrayKillUnlessForkFails ==
  ASSUME "fork_failed" \notin Outcomes
  PROVE  AuthSpec => []NoStrayKill
<1>1. AuthInit => PidsAreChildren
  BY DEF AuthInit, PamInit, PidsAreChildren
<1>2. PamInv /\ AuthInv /\ PidsAreChildren /\ [AuthNext]_authVars => PidsAreChildren'
  <2> SUFFICES ASSUME PamInv, AuthInv, PidsAreChildren, [AuthNext]_authVars
               PROVE  PidsAreChildren'
    OBVIOUS
  <2>1. CASE UNCHANGED <<procVars, stray>>
    BY <2>1 DEF PidsAreChildren, procVars
  <2>2. CASE Start(<<>>) \/ ComponentComplete
    BY <2>1, <2>2 DEF Start, ComponentComplete, StartConversation, procVars
  <2>3. CASE HandleSignal
    <3>1. CASE Ignore
      BY <2>1, <3>1 DEF Ignore
    <3>2. CASE Respond(Tail(sig))
      <4>1. current \in Convs
        BY <3>2, Blank DEF Respond
      <4> QED BY <3>2, <4>1, KillNoStray DEF Respond, InternalError, PidsAreChildren
    <3> QED BY <2>3, <3>1, <3>2, StartNoStray
            DEF HandleSignal, OnRequired, OnReceived, OnError, OnCompleted
  <2>4. ASSUME NEW c \in Convs, ConvEvent(c) PROVE PidsAreChildren'
    <3>1. CASE OnMessage(c) /\ OnText(c, Head(toMain[c]))
      BY <3>1 DEF OnText, PidsAreChildren
    <3>2. CASE OnMessage(c) /\ OnExitCode(c, Head(toMain[c]))
      BY <3>2 DEF OnExitCode, PidsAreChildren
    <3>4. CASE WaitForChild(c)
      <4>1. c = reaping /\ reaping # 0
        BY <3>4 DEF WaitForChild, Convs
      <4>2. pid[c] # "none"
        BY <4>1 DEF AuthInv, Reaping
      <4>3. pid' = [pid EXCEPT ![c] = "none"] /\ ~stray'
        BY <3>4, <4>2 DEF WaitForChild, PidsAreChildren
      <4> QED BY <4>3 DEF PidsAreChildren, PamInv, ProcessInv
    <3>3. CASE OnEof(c) \/ ConversationDeleted(c)
      BY <3>3, KillNoStray DEF OnEof, InternalError, ConversationDeleted
    <3> QED BY <2>4, <3>1, <3>2, <3>3, <3>4 DEF ConvEvent, OnMessage
  <2>5. ASSUME NEW c \in Convs, ChildWorks(c) \/ ChildCrashes(c) PROVE PidsAreChildren'
    BY <2>5 DEF ChildWorks, ChildInforms, ChildPrompts, ChildSays, ChildReads, ChildExits,
       ChildCrashes, PidsAreChildren
  <2> QED BY <2>1, <2>2, <2>3, <2>4, <2>5 DEF AuthNext, PamStep, ChildStep, Accept, Type,
       LockSecured, FailTimeout, TakeUnlock, authVars, pamVars
<1>3. PidsAreChildren => NoStrayKill
  BY DEF PidsAreChildren, NoStrayKill
<1> QED BY <1>1, <1>2, <1>3, AuthInductive, PTL DEF AuthSpec
=============================================================================
