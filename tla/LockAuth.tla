------------------------------ MODULE LockAuth ------------------------------
(***************************************************************************)
(* LockAuth.qml around a PamContext: the password field, the answer to     *)
(* prompts, and the lockout that PAM announces in its messages.            *)
(***************************************************************************)
EXTENDS Pam, Integers

CONSTANT Minutes  \* values the "minutes left to unlock" text can carry

ASSUME MinutesAssumption == Minutes \subseteq Nat

VARIABLES
  pending,       \* an answer was sent: the field is disabled
  typed,         \* buffer is not empty
  shouldLockout, \* a text of this conversation announced a lockout
  lockout,       \* the field is disabled by a lockout
  timeLeft,      \* lockoutTimeLeft
  ticking,       \* failTimeout.running
  unlocks        \* unlockRequested was emitted and not yet acted upon

fieldVars  == <<pending, typed, shouldLockout, lockout, timeLeft, ticking, unlocks>>
authVars == <<pamVars, fieldVars>>

AuthTypeOK ==
  /\ PamTypeOK
  /\ pending \in BOOLEAN /\ typed \in BOOLEAN /\ shouldLockout \in BOOLEAN
  /\ lockout \in BOOLEAN /\ ticking \in BOOLEAN /\ unlocks \in BOOLEAN
  /\ timeLeft \in Int

AuthInit ==
  /\ PamInit
  /\ pending = FALSE /\ typed = FALSE /\ shouldLockout = FALSE
  /\ lockout = FALSE /\ ticking = FALSE /\ unlocks = FALSE
  /\ timeLeft = 10

\* TextInput.enabled in LockForeground.qml
FieldEnabled == ~pending /\ ~lockout /\ Idle

Type ==
  /\ FieldEnabled /\ ~typed /\ typed' = TRUE
  /\ UNCHANGED <<pamVars, pending, shouldLockout, lockout, timeLeft, ticking, unlocks>>

\* Enter in the field: start(). PamContext.start() ignores the call while a
\* conversation is running or wanted, the assignments before it are done anyway.
Accept ==
  /\ FieldEnabled
  /\ shouldLockout' = FALSE
  /\ Start(<<>>) \/ ((targetActive \/ current # 0) /\ UNCHANGED pamVars)
  /\ UNCHANGED <<pending, typed, lockout, timeLeft, ticking, unlocks>>

\* The lock became secure: the buffer is cleared.
LockSecured ==
  /\ Idle /\ typed /\ typed' = FALSE
  /\ UNCHANGED <<pamVars, pending, shouldLockout, lockout, timeLeft, ticking, unlocks>>

----------------------------------------------------------------------------
(* Handlers of PamContext's signals; isActive and the text have none. *)

\* onIsResponseRequiredChanged
OnRequired ==
  /\ pending' = TRUE
  /\ Respond(Tail(sig))
  /\ typed' = FALSE
  /\ UNCHANGED <<shouldLockout, lockout, timeLeft, ticking, unlocks>>

\* onPamMessageReceived: "minutes" is a text with the minutes left to unlock,
\* "locked" says that the account is locked without them.
OnReceived ==
  /\ Ignore
  /\ \/ /\ message = "minutes" /\ shouldLockout' = TRUE
        /\ timeLeft' \in Minutes
     \/ message = "locked" /\ shouldLockout' = TRUE /\ UNCHANGED timeLeft
     \/ message \notin {"minutes", "locked"} /\ UNCHANGED <<shouldLockout, timeLeft>>
  /\ UNCHANGED <<pending, typed, lockout, ticking, unlocks>>

\* The timer's running property is bound to lockout: it is set again only when
\* lockout changes.
StartLockout ==
  /\ lockout' = (lockout \/ shouldLockout)
  /\ ticking' = IF ~lockout /\ shouldLockout THEN TRUE ELSE ticking

OnError ==
  /\ Ignore
  /\ pending' = FALSE
  /\ StartLockout
  /\ UNCHANGED <<typed, shouldLockout, timeLeft, unlocks>>

\* Mutant: the field stays disabled.
OnCompletedKeepsPending(result) ==
  /\ Ignore
  /\ StartLockout
  /\ unlocks' = (unlocks \/ result = "Success")
  /\ UNCHANGED <<pending, typed, shouldLockout, timeLeft>>

OnCompleted(result) ==
  /\ Ignore
  /\ pending' = FALSE
  /\ StartLockout
  /\ unlocks' = (unlocks \/ result = "Success")
  /\ UNCHANGED <<typed, shouldLockout, timeLeft>>

HandleSignal ==
  /\ sig # <<>>
  /\ \/ Head(sig) = "required" /\ OnRequired
     \/ Head(sig) = "received" /\ OnReceived
     \/ Head(sig) = "error" /\ OnError
     \/ Head(sig) \in Results /\ OnCompleted(Head(sig))
     \/ Head(sig) \in {"active", "message"} /\ Ignore /\ UNCHANGED fieldVars
     \/ StartProcess /\ UNCHANGED fieldVars

\* failTimeout fires. repeat is not set, so the timer stops.
FailTimeout ==
  /\ Idle /\ ticking
  /\ timeLeft' = timeLeft - 1
  /\ ticking' = FALSE
  /\ lockout' = (lockout /\ timeLeft' > 0)
  /\ UNCHANGED <<pamVars, pending, typed, shouldLockout, unlocks>>

\* LockScreen.qml takes the request.
TakeUnlock ==
  /\ Idle /\ unlocks /\ unlocks' = FALSE
  /\ UNCHANGED <<pamVars, pending, typed, shouldLockout, lockout, timeLeft, ticking>>

PamStep(A) == A /\ UNCHANGED fieldVars

ChildStep(c) == PamStep(ChildWorks(c) \/ ChildCrashes(c))

AuthNext ==
  \/ PamStep(ComponentComplete)
  \/ Type \/ Accept \/ LockSecured \/ HandleSignal \/ FailTimeout \/ TakeUnlock
  \/ \E c \in Convs : PamStep(ConvEvent(c)) \/ ChildStep(c)

AuthSpec == AuthInit /\ [][AuthNext]_authVars

\* The event loop delivers, timers fire, and a PAM stack goes on once it has
\* its answer: it sends finitely many messages and then ends.
AuthFairness ==
  /\ WF_authVars(HandleSignal) /\ WF_authVars(FailTimeout)
  /\ \A c \in Convs : /\ WF_authVars(PamStep(OnMessage(c)))
                      /\ WF_authVars(PamStep(WaitForChild(c)))
                      /\ WF_authVars(PamStep(OnEof(c)))
                      /\ WF_authVars(PamStep(ConversationDeleted(c)))
                      /\ WF_authVars(PamStep(ChildWorks(c)))

FairAuthSpec == AuthSpec /\ AuthFairness

----------------------------------------------------------------------------
(* Properties *)

\* The password field is disabled for an answer only while a conversation is
\* running or the news of its end is being delivered.
PendingMeansBusy ==
  pending => current # 0 \/ \E i \in DOMAIN sig : sig[i] \in Results

\* An answer is in the pipe only for the prompt the child is waiting on, and
\* only one: no answer is left over for a later prompt.
AnswerFitsPrompt ==
  \A c \in Convs : /\ answers[c] <= 1
                   /\ answers[c] = 1 => child[c] \in {"reading", "exited", "reaped"}

\* completed() finds the context free again, so its handler could start the
\* next conversation.
CompletedWhileIdle == sig # <<>> /\ Head(sig) \in Results => current = 0

\* The state of the form fits the conversation behind it, and none that is being started
\* is lost.
AuthConsistent ==
  AuthTypeOK /\ PendingMeansBusy /\ AnswerFitsPrompt /\ CompletedWhileIdle /\ ~Misstarted

\* A prompt the GUI has read stays without an answer only if it directly
\* follows another prompt: isResponseRequired does not change then.
Unanswered(c) ==
  /\ c = current /\ child[c] = "reading" /\ answers[c] = 0
  /\ toMain[c] = <<>> /\ sig = <<>>
PromptsAnswered == \A c \in Convs : Unanswered(c) => last[c] = "again"

\* A conversation ends, whatever the child does, unless the PAM stack asks
\* twice in a row.
AuthServed ==
  \A c \in Convs : (current = c) ~> (current # c \/ last[c] = "again")

\* LockAuth.qml:27 says that the remaining time is updated every minute, so a
\* lockout runs out.
LockoutEnds == lockout ~> ~lockout
=============================================================================
