--------------------------- MODULE Windows_proofs ---------------------------
(***************************************************************************)
(* Proofs about what the shell keeps per window, per notification and per  *)
(* buffer: InputInhibit for every set of windows and items, LockWindow for *)
(* every set of outputs and sizes, Notifications for any list of actions,  *)
(* WlBuffers for all feedbacks, renderers and requests, and Toplevels for  *)
(* every set of windows, workspaces and searches.                          *)
(***************************************************************************)
EXTENDS InputInhibit, Notifications, LockWindow, WlBuffers, Toplevels,
        Induction, SequenceTheorems, FiniteSetTheorems, TLAPS

-----------------------------------------------------------------------------
(* Keyboard shortcuts inhibitors *)

\* The invariant: InhibitHolds says nothing of a window whose items have left it, so
\* that an item is in a window that exists, if in any, has to be added.
InhibitTypeOK ==
  /\ itemWin \in [InhibitItems -> winLives \cup {NoWin}]
  /\ asked \in [InhibitItems -> BOOLEAN]
  /\ winLives \subseteq InhibitWindows

InhibitInv == InhibitTypeOK /\ InhibitHolds

LEMMA InitInhibitInv == InhibitInit => InhibitInv
BY DEF InhibitInit, InhibitInv, InhibitTypeOK, InhibitHolds

LEMMA NextInhibitInv == InhibitInv /\ [InhibitNext]_inhibitVars => InhibitInv'
<1> SUFFICES ASSUME InhibitInv, [InhibitNext]_inhibitVars PROVE InhibitInv'
  OBVIOUS
<1> USE InhibitAssumption DEF InhibitInv, InhibitTypeOK, InhibitHolds
<1>1. ASSUME NEW i \in InhibitItems, AskInhibit(i) PROVE InhibitInv'
  BY <1>1 DEF AskInhibit, InhibitForWindow, NoInhibit
<1>2. ASSUME NEW i \in InhibitItems, Unask(i) PROVE InhibitInv'
  BY <1>2 DEF Unask
<1>3. ASSUME NEW i \in InhibitItems, ItemLeaves(i) PROVE InhibitInv'
  BY <1>3 DEF ItemLeaves, NoInhibit
<1>4. ASSUME NEW i \in InhibitItems, NEW w \in InhibitWindows, ItemEnters(i, w)
      PROVE InhibitInv'
  BY <1>4 DEF ItemEnters, InhibitForWindow, NoInhibit
<1>5. ASSUME NEW w \in InhibitWindows, InhibitWindowGone(w) PROVE InhibitInv'
  BY <1>5 DEF InhibitWindowGone
<1>6. ASSUME NEW w \in InhibitWindows, Honoured(w) PROVE InhibitInv'
  BY <1>6 DEF Honoured
<1>7. CASE UNCHANGED inhibitVars
  BY <1>7 DEF inhibitVars, itemVars, managerVars
<1> QED BY <1>1, <1>2, <1>3, <1>4, <1>5, <1>6, <1>7 DEF InhibitNext

\* A window stays inhibited as long as an item in it asks, until an inhibitor of it has
\* been stopped once: inhibitForWindow and stopInhibitingWindow.
THEOREM WindowsStayInhibited == InhibitSpec => []InhibitHolds
<1>1. InhibitInv => InhibitHolds
  BY DEF InhibitInv
<1> QED BY <1>1, InitInhibitInv, NextInhibitInv, PTL DEF InhibitSpec
\* The warning of inhibitForWindow is true as long as no inhibitor has been stopped: what
\* the run input_inhibit_refused finds needs stopInhibitingWindow, which forgets the entry.
RefusedOK == stopped = {} => RefusedIsActive

LEMMA NextRefusedOK == InhibitInv /\ RefusedOK /\ [InhibitNext]_inhibitVars => RefusedOK'
<1> SUFFICES ASSUME InhibitInv, RefusedOK, [InhibitNext]_inhibitVars, stopped' = {}
             PROVE  RefusedIsActive'
  BY DEF RefusedOK
<1> USE DEF RefusedIsActive, RefusedOK
<1>1. \A w \in known \ stopped : w \in inhibiting
  BY DEF InhibitInv, InhibitHolds
<1>2. ASSUME NEW w, InhibitForWindow(w), stopped' = stopped PROVE RefusedIsActive'
  BY <1>1, <1>2 DEF InhibitForWindow
<1>3. CASE refused' = {}
  BY <1>3
<1>4. CASE UNCHANGED inhibitVars
  BY <1>4 DEF inhibitVars, managerVars
<1>5. CASE \E i \in InhibitItems : AskInhibit(i)
  BY <1>2, <1>5 DEF AskInhibit, NoInhibit
<1>6. CASE \E i \in InhibitItems, w \in InhibitWindows : ItemEnters(i, w)
  BY <1>2, <1>6 DEF ItemEnters, NoInhibit
<1>7. CASE \E i \in InhibitItems : Unask(i) \/ ItemLeaves(i)
  BY <1>3, <1>7 DEF Unask, ItemLeaves, NoInhibit
<1>8. CASE \E w \in InhibitWindows : InhibitWindowGone(w) \/ Honoured(w)
  BY <1>3, <1>8 DEF InhibitWindowGone, Honoured
<1> QED BY <1>4, <1>5, <1>6, <1>7, <1>8 DEF InhibitNext

THEOREM RefusedUntilStopped == InhibitSpec => [](stopped = {} => RefusedIsActive)
<1>1. InhibitInit => RefusedOK
  BY DEF InhibitInit, RefusedOK, RefusedIsActive
<1> QED BY <1>1, InitInhibitInv, NextInhibitInv, NextRefusedOK, PTL DEF InhibitSpec, RefusedOK

-----------------------------------------------------------------------------
(* Notifications *)

ActionSeqs == [NoteIds -> Seq(STRING)]

\* The actions kept for an id and those of its last valid request, which also hold of ids
\* that are not handed out yet, and of ids that are no longer held.
ActionsAgree ==
  \A id \in NoteIds : SubSeq(actions[id], 1, Len(closeAsked[id])) = closeAsked[id]

CallSet == [do : {"insert", "remove", "drop", "walk", "next"}, id : 0 .. MaxNotes]
Deleting(i) == calls[i].do \in {"remove", "drop"}

\* A new notification that is not inserted yet is at the bottom of the stack, for Notify() is
\* called by nobody's handler.  An id that is being deleted is held and deleted by one call
\* only, unless QML deletes it again from a handler; its row does not come back.
CallOK(i) ==
  /\ calls[i].do = "insert" => i = 1 /\ calls[i].id \in 1 .. (curId - 1) \ held
  /\ Deleting(i) => calls[i].id \in 1 .. (curId - 1)
  /\ Deleting(i) /\ calls[i].id \notin again => calls[i].id \in held
  /\ calls[i].do = "drop" => calls[i].id \notin rows
OnceOK(i, j) ==
  Deleting(i) /\ Deleting(j) /\ calls[i].id = calls[j].id /\ calls[i].id \notin again => i = j
CallsOK ==
  /\ calls \in Seq(CallSet)
  /\ \A i \in DOMAIN calls : CallOK(i)
  /\ \A i, j \in DOMAIN calls : OnceOK(i, j)

\* An id that is not handed out has not been closed.
ClosedOK(id) ==
  /\ id < curId => id \in held \/ Arriving(id) \/ closes[id] > 0
  /\ id \notin again =>
       closes[id] = IF id < curId /\ id \notin held /\ ~Arriving(id) THEN 1 ELSE 0
ClosesAgree == \A id \in NoteIds : ClosedOK(id)

NoteIdsOK ==
  /\ curId \in 1 .. MaxNotes + 1
  /\ held \subseteq 1 .. (curId - 1) /\ rows \subseteq held /\ again \subseteq 1 .. (curId - 1)
NoteListOK ==
  /\ actions \in ActionSeqs /\ closeAsked \in ActionSeqs
  /\ closes \in [NoteIds -> Nat]

\* A name is watched as long as the server is active, so that its loss is heard of.
NameOK ==
  /\ gone \in Nat /\ (isActive => noteWatched)
  /\ isActive /\ gone = 0 => noteOwner # "none"

NoteInv == NoteIdsOK /\ NoteListOK /\ ActionsAgree /\ CallsOK /\ ClosesAgree /\ NameOK

\* What updateProperties leaves of the actions starts with those it was given.
LEMMA UpdatedActionsStart ==
  ASSUME NEW old \in Seq(STRING), NEW new \in Seq(STRING)
  PROVE  /\ UpdatedActions(old, new) \in Seq(STRING)
         /\ SubSeq(UpdatedActions(old, new), 1, Len(new)) = new
<1> DEFINE n == Len(new)
           m == IF Len(old) > n THEN Len(old) - n ELSE 0
           k == m \div 2
           rest == [j \in 1..(m - k) |-> old[n + (IF j <= k THEN 2 * j ELSE j + k)]]
<1>1. n \in Nat /\ m \in Nat /\ k \in Nat /\ 2 * k <= m /\ m - k \in Nat
  <2>1. n \in Nat /\ m \in Nat
    BY LenProperties
  <2> HIDE DEF m, n
  <2> QED BY <2>1
<1>2. ASSUME NEW j \in 1..(m - k)
      PROVE  n + (IF j <= k THEN 2 * j ELSE j + k) \in 1..Len(old)
  <2>1. m # 0
    <3> HIDE DEF m, n, k
    <3> QED BY <1>1, <1>2
  <2>2. m = Len(old) - n
    BY <2>1
  <2> HIDE DEF m, n, k
  <2> QED BY <1>1, <1>2, <2>1, <2>2, LenProperties
<1>3. rest \in Seq(STRING)
  <2>1. \A j \in 1..(m - k) : rest[j] \in STRING
    BY <1>2, ElementOfSeq
  <2> HIDE DEF m, n, k
  <2> QED BY <2>1, <1>1
<1>4. UpdatedActions(old, new) = new \o rest
  BY DEF UpdatedActions
<1> HIDE DEF rest
<1> QED BY <1>3, <1>4, ConcatProperties, LenProperties

LEMMA InitNoteInv == NoteInit => NoteInv
<1> SUFFICES ASSUME NoteInit PROVE NoteInv
  OBVIOUS
<1>1. NoteIdsOK /\ NoteListOK /\ ActionsAgree /\ NameOK
  BY NoteAssumption
  DEF NoteInit, NoteIdsOK, NoteListOK, ActionsAgree, NameOK, NoteIds, ActionSeqs
<1>2. CallsOK /\ ClosesAgree
  BY NoteAssumption DEF NoteInit, CallsOK, ClosesAgree, ClosedOK, NoteIds
<1> QED BY <1>1, <1>2 DEF NoteInv

\* The stack with its innermost call taken off, or with one more put on.
LEMMA Popped ==
  ASSUME calls \in Seq(CallSet), Busy
  PROVE  /\ Waiting \in Seq(CallSet) /\ Len(Waiting) = Len(calls) - 1
         /\ Len(calls) \in Nat \ {0} /\ Len(calls) \in DOMAIN calls /\ Top \in CallSet
         /\ \A i \in 1 .. Len(Waiting) : i \in DOMAIN calls /\ Waiting[i] = calls[i]
<1>1. Len(calls) \in Nat \ {0} /\ \A i \in 1 .. Len(calls) : calls[i] \in CallSet
  BY LenProperties, ElementOfSeq, EmptySeq DEF Busy
<1>2. \A i \in 1 .. Len(calls) - 1 : calls[i] \in CallSet
  BY <1>1
<1>3. Waiting = SubSeq(calls, 1, Len(calls) - 1) /\ Len(calls) - 1 \in Int
  BY <1>1 DEF Waiting
<1>4. /\ Waiting \in Seq(CallSet)
      /\ Len(Waiting) = IF 1 <= Len(calls) - 1 THEN (Len(calls) - 1) - 1 + 1 ELSE 0
      /\ \A i \in 1 .. (Len(calls) - 1) - 1 + 1 : Waiting[i] = calls[1 + i - 1]
  BY <1>2, <1>3, SubSeqProperties
<1>5. Len(Waiting) = Len(calls) - 1 /\ \A i \in 1 .. Len(calls) - 1 : Waiting[i] = calls[i]
  <2> DEFINE n == Len(calls)
             w == Waiting
  <2>1. /\ n \in Nat \ {0}
        /\ Len(w) = IF 1 <= n - 1 THEN (n - 1) - 1 + 1 ELSE 0
        /\ \A i \in 1 .. (n - 1) - 1 + 1 : w[i] = calls[1 + i - 1]
    BY <1>1, <1>4
  <2> HIDE DEF n, w
  <2>2. Len(w) = n - 1 /\ (n - 1) - 1 + 1 = n - 1 /\ \A i \in 1 .. n - 1 : 1 + i - 1 = i
    BY <2>1
  <2>3. \A i \in 1 .. n - 1 : w[i] = calls[i]
    BY <2>1, <2>2
  <2> QED BY <2>2, <2>3 DEF n, w
<1>6. DOMAIN calls = 1 .. Len(calls)
  BY LenProperties
<1> QED BY <1>1, <1>4, <1>5, <1>6 DEF Top

LEMMA Pushed ==
  ASSUME NEW below \in Seq(CallSet), NEW c \in CallSet, calls' = Append(below, c)
  PROVE  /\ calls' \in Seq(CallSet) /\ Len(calls') = Len(below) + 1 /\ Len(below) \in Nat
         /\ DOMAIN calls' = 1 .. Len(below) + 1
         /\ \A i \in 1 .. Len(below) : calls'[i] = below[i]
         /\ calls'[Len(below) + 1] = c
BY AppendProperties, LenProperties

\* Nothing new is inserted by a call of a handler, and nothing that waits is lost by one.
SameArriving == \A id : Arriving(id)' <=> Arriving(id)

\* What keeps the invariant when only the stack and what was closed again change.
LEMMA BeginsOK ==
  ASSUME NoteInv, NEW id \in held, NEW below \in Seq(CallSet), Begins(id, below),
         Len(below) <= Len(calls),
         \A i \in 1 .. Len(below) : \/ below[i] = Call("next", 0)
                                    \/ i \in DOMAIN calls /\ below[i] = calls[i],
         \A i \in DOMAIN calls : \/ i \in 1 .. Len(below) /\ below[i] = calls[i]
                                 \/ calls[i].do \in {"walk", "next"}
  PROVE  NoteInv'
<1> USE NoteAssumption
<1> DEFINE c == Call("remove", id)
<1>1. id \in 1 .. (curId - 1) /\ id \in NoteIds /\ c \in CallSet
  BY DEF NoteInv, NoteIdsOK, NoteIds, CallSet, Call
<1>2. calls' = Append(below, c)
  BY DEF Begins
<1> HIDE DEF c
<1>3. /\ calls' \in Seq(CallSet) /\ Len(below) \in Nat
      /\ DOMAIN calls' = 1 .. Len(below) + 1
      /\ \A i \in 1 .. Len(below) : calls'[i] = below[i]
      /\ calls'[Len(below) + 1] = c
  BY <1>1, <1>2, Pushed
<1>4. c.do = "remove" /\ c.id = id
  BY DEF c, Call
<1>5. /\ again \subseteq again' /\ again' \subseteq again \cup {id}
      /\ (\E i \in DOMAIN calls : Deleting(i) /\ calls[i].id = id) => id \in again'
      /\ UNCHANGED <<curId, held, rows, closes>>
  BY DEF Begins, Deleting
<1>6. \A i \in 1 .. Len(below) : \/ calls'[i].do = "next"
                                 \/ i \in DOMAIN calls /\ calls'[i] = calls[i]
  BY <1>3 DEF Call
<1>7. NoteIdsOK' /\ NoteListOK' /\ ActionsAgree' /\ NameOK'
  BY <1>1, <1>5 DEF NoteInv, NoteIdsOK, NoteListOK, ActionsAgree, NameOK, Begins, nameVars
<1>8. \A i \in DOMAIN calls : CallOK(i)
  BY DEF NoteInv, CallsOK
<1>9. ASSUME NEW i \in DOMAIN calls' PROVE CallOK(i)'
  <2>1. CASE i = Len(below) + 1
    BY <2>1, <1>1, <1>3, <1>4, <1>5 DEF CallOK, Deleting
  <2>2. CASE i \in 1 .. Len(below) /\ calls'[i].do = "next"
    BY <2>2 DEF CallOK, Deleting
  <2>3. CASE i \in DOMAIN calls /\ calls'[i] = calls[i]
    BY <2>3, <1>5, <1>8 DEF CallOK, Deleting
  <2> QED BY <2>1, <2>2, <2>3, <1>3, <1>6
<1>10. ASSUME NEW i \in DOMAIN calls', NEW j \in DOMAIN calls' PROVE OnceOK(i, j)'
  <2> SUFFICES ASSUME Deleting(i)', Deleting(j)', calls'[i].id = calls'[j].id,
                      calls'[i].id \notin again'
               PROVE  i = j
    BY DEF OnceOK
  <2>1. ASSUME NEW k \in 1 .. Len(below), Deleting(k)'
        PROVE  k \in DOMAIN calls /\ calls'[k] = calls[k] /\ Deleting(k)
    BY <2>1, <1>6 DEF Deleting
  <2>2. ASSUME NEW k \in 1 .. Len(below), Deleting(k)' PROVE calls'[k].id # id \/ id \in again'
    BY <2>1, <2>2, <1>5
  <2>3. CASE i = Len(below) + 1 \/ j = Len(below) + 1
    BY <2>2, <2>3, <1>3, <1>4
  <2>4. CASE i \in 1 .. Len(below) /\ j \in 1 .. Len(below)
    BY <2>1, <2>4, <1>5 DEF NoteInv, CallsOK, OnceOK
  <2> QED BY <2>3, <2>4, <1>3
<1>11. CallsOK'
  BY <1>3, <1>9, <1>10 DEF CallsOK
<1>12. SameArriving
  <2>1. ASSUME NEW k, Arriving(k) PROVE Arriving(k)'
    <3>1. PICK i \in DOMAIN calls : calls[i] = Call("insert", k)
      BY <2>1 DEF Arriving
    <3>2. i \in 1 .. Len(below) /\ calls'[i] = calls[i]
      BY <3>1, <1>3 DEF Call
    <3> QED BY <3>1, <3>2, <1>3 DEF Arriving
  <2>2. ASSUME NEW k, Arriving(k)' PROVE Arriving(k)
    <3>1. PICK i \in DOMAIN calls' : calls'[i] = Call("insert", k)
      BY <2>2 DEF Arriving
    <3>2. i \in DOMAIN calls /\ calls'[i] = calls[i]
      BY <3>1, <1>3, <1>4, <1>6 DEF Call
    <3> QED BY <3>1, <3>2 DEF Arriving
  <2> QED BY <2>1, <2>2 DEF SameArriving
<1>13. ClosesAgree'
  BY <1>5, <1>12 DEF NoteInv, ClosesAgree, ClosedOK, SameArriving
<1> QED BY <1>7, <1>11, <1>13 DEF NoteInv

LEMMA DeleteOK == ASSUME NoteInv, NEW id \in NoteIds, Delete(id) PROVE NoteInv'
<1>1. calls \in Seq(CallSet) /\ DOMAIN calls = 1 .. Len(calls) /\ id \in held /\ Len(calls) \in Nat
  BY LenProperties DEF NoteInv, CallsOK, Delete
<1> QED BY <1>1, BeginsOK DEF Delete

LEMMA WalkOK == ASSUME NoteInv, NEW id \in NoteIds, Walk(id) PROVE NoteInv'
<1> DEFINE n == Call("next", 0)
           below == Append(Waiting, n)
<1>1. calls \in Seq(CallSet) /\ Busy /\ n \in CallSet /\ DOMAIN calls = 1 .. Len(calls)
  BY NoteAssumption, LenProperties DEF NoteInv, CallsOK, Walk, CallSet, Call
<1>2. /\ Waiting \in Seq(CallSet) /\ Len(Waiting) = Len(calls) - 1
      /\ Len(calls) \in Nat \ {0}
      /\ \A i \in 1 .. Len(Waiting) : i \in DOMAIN calls /\ Waiting[i] = calls[i]
  BY <1>1, Popped
<1>3. /\ below \in Seq(CallSet) /\ Len(below) = Len(calls)
      /\ \A i \in 1 .. Len(Waiting) : below[i] = Waiting[i]
      /\ below[Len(calls)] = n
  <2>1. /\ below \in Seq(CallSet) /\ Len(below) = Len(Waiting) + 1
        /\ \A i \in 1 .. Len(Waiting) : below[i] = Waiting[i]
        /\ below[Len(Waiting) + 1] = n
    <3> HIDE DEF n
    <3>1. n \in CallSet /\ Waiting \in Seq(CallSet)
      BY <1>1, <1>2
    <3> QED BY <3>1, AppendProperties
  <2>2. Len(Waiting) + 1 = Len(calls)
    BY <1>2
  <2> HIDE DEF below
  <2> QED BY <2>1, <2>2
<1>4. calls[Len(calls)].do \in {"walk", "next"} /\ id \in held /\ Begins(id, below)
  BY DEF Walk, Top
<1> HIDE DEF n, below
<1>5. \A i \in 1 .. Len(below) : \/ below[i] = n
                                 \/ i \in DOMAIN calls /\ below[i] = calls[i]
  BY <1>1, <1>2, <1>3
<1>6. \A i \in DOMAIN calls : \/ i \in 1 .. Len(below) /\ below[i] = calls[i]
                              \/ calls[i].do \in {"walk", "next"}
  BY <1>1, <1>2, <1>3, <1>4
<1> QED BY <1>2, <1>3, <1>4, <1>5, <1>6, BeginsOK DEF n

\* A call that is nobody's insertion ends.
LEMMA EndsOK ==
  ASSUME calls \in Seq(CallSet), Busy, calls' = Waiting, Top.do # "insert"
  PROVE  SameArriving
<1>1. /\ Len(Waiting) = Len(calls) - 1 /\ Waiting \in Seq(CallSet)
      /\ Len(calls) \in Nat \ {0} /\ DOMAIN calls = 1 .. Len(calls)
      /\ DOMAIN calls' = 1 .. Len(calls) - 1
      /\ \A i \in DOMAIN calls' : i \in DOMAIN calls /\ calls'[i] = calls[i]
  BY Popped, LenProperties
<1>2. ASSUME NEW k, Arriving(k) PROVE Arriving(k)'
  <2>1. PICK i \in DOMAIN calls : calls[i] = Call("insert", k)
    BY <1>2 DEF Arriving
  <2>2. i \in DOMAIN calls' /\ calls'[i] = calls[i]
    BY <2>1, <1>1 DEF Call, Top
  <2> QED BY <2>1, <2>2 DEF Arriving, Call
<1>3. ASSUME NEW k, Arriving(k)' PROVE Arriving(k)
  <2>1. PICK i \in DOMAIN calls' : calls'[i] = Call("insert", k)
    BY <1>3 DEF Arriving, Call
  <2> QED BY <2>1, <1>1 DEF Arriving, Call
<1> QED BY <1>2, <1>3 DEF SameArriving

LEMMA InsertOK == ASSUME NoteInv, InsertNote PROVE NoteInv'
<1>1. /\ calls \in Seq(CallSet) /\ Busy /\ calls[Len(calls)].do = "insert"
      /\ calls' = Waiting
  BY DEF NoteInv, CallsOK, InsertNote, Top
<1>2. /\ Len(calls) \in Nat \ {0} /\ Len(calls) \in DOMAIN calls /\ Waiting \in Seq(CallSet)
      /\ Len(Waiting) = Len(calls) - 1 /\ DOMAIN calls = 1 .. Len(calls)
  BY <1>1, Popped, LenProperties
<1>3. Len(calls) = 1 /\ Top.id \in 1 .. (curId - 1)
  BY <1>1, <1>2 DEF NoteInv, CallsOK, CallOK, Top
<1>4. calls' = <<>>
  BY <1>1, <1>2, <1>3, EmptySeq
<1>5. \A k : Arriving(k) => k = Top.id
  BY <1>2, <1>3 DEF Arriving, Call, Top
<1>6. Arriving(Top.id)
  <2>1. calls[1] \in CallSet
    BY <1>1, <1>2, <1>3, ElementOfSeq
  <2>2. calls[1] = Call("insert", Top.id)
    BY <2>1, <1>1, <1>3 DEF Call, Top, CallSet
  <2> QED BY <2>2, <1>2, <1>3 DEF Arriving
<1>7. \A k : ~Arriving(k)'
  BY <1>4 DEF Arriving
<1>8. UNCHANGED <<curId, again, closes>> /\ held' = held \cup {Top.id} /\ rows' = rows \cup {Top.id}
  BY DEF InsertNote
<1> HIDE DEF Top
<1>9. ClosesAgree'
  BY <1>5, <1>6, <1>7, <1>8 DEF NoteInv, ClosesAgree, ClosedOK
<1>10. NoteIdsOK'
  BY <1>3, <1>8 DEF NoteInv, NoteIdsOK
<1>11. NoteListOK' /\ ActionsAgree' /\ NameOK'
  BY DEF NoteInv, NoteListOK, ActionsAgree, NameOK, InsertNote, nameVars
<1>12. CallsOK'
  BY <1>4 DEF CallsOK
<1> QED BY <1>9, <1>10, <1>11, <1>12 DEF NoteInv

LEMMA RemoveOK == ASSUME NoteInv, RemoveRow PROVE NoteInv'
<1> DEFINE c == Call("drop", Top.id)
           l == Len(calls)
<1>1. /\ calls \in Seq(CallSet) /\ Busy /\ calls[l].do = "remove" /\ Top = calls[l]
      /\ calls' = Append(Waiting, c)
      /\ UNCHANGED <<curId, held, again, closes>> /\ rows' = rows \ {calls[l].id}
  BY DEF NoteInv, CallsOK, RemoveRow, Top
<1>2. /\ l \in Nat \ {0} /\ l \in DOMAIN calls /\ Waiting \in Seq(CallSet)
      /\ Len(Waiting) = l - 1 /\ DOMAIN calls = 1 .. l /\ calls[l] \in CallSet
      /\ \A i \in 1 .. l - 1 : Waiting[i] = calls[i]
  BY <1>1, Popped, LenProperties
<1>3. c \in CallSet /\ c.do = "drop" /\ c.id = calls[l].id
  BY <1>1, <1>2 DEF Call, CallSet
<1> HIDE DEF c, l
<1>4. /\ calls' \in Seq(CallSet) /\ DOMAIN calls' = DOMAIN calls /\ calls'[l] = c
      /\ \A i \in DOMAIN calls : i # l => calls'[i] = calls[i]
  BY <1>1, <1>2, <1>3, Pushed
<1>5. \A i \in DOMAIN calls : calls'[i].id = calls[i].id /\ (Deleting(i)' <=> Deleting(i))
  BY <1>1, <1>3, <1>4 DEF Deleting
<1>6. \A i \in DOMAIN calls' : CallOK(i)'
  BY <1>1, <1>3, <1>4, <1>5 DEF NoteInv, CallsOK, CallOK
<1>7. \A i, j \in DOMAIN calls' : OnceOK(i, j)'
  BY <1>1, <1>4, <1>5 DEF NoteInv, CallsOK, OnceOK
<1>8. CallsOK'
  BY <1>4, <1>6, <1>7 DEF CallsOK
<1>9. SameArriving
  BY <1>1, <1>3, <1>4 DEF SameArriving, Arriving, Call
<1>10. ClosesAgree'
  BY <1>1, <1>9 DEF NoteInv, ClosesAgree, ClosedOK, SameArriving
<1>11. NoteIdsOK' /\ NoteListOK' /\ ActionsAgree' /\ NameOK'
  BY <1>1 DEF NoteInv, NoteIdsOK, NoteListOK, ActionsAgree, NameOK, RemoveRow, nameVars
<1> QED BY <1>8, <1>10, <1>11 DEF NoteInv

LEMMA DropOK == ASSUME NoteInv, DropNote PROVE NoteInv'
<1> DEFINE l == Len(calls)
           id == calls[l].id
<1>1. /\ calls \in Seq(CallSet) /\ Busy /\ calls[l].do = "drop" /\ Top = calls[l]
      /\ calls' = Waiting
      /\ UNCHANGED <<curId, rows, again>> /\ held' = held \ {id}
      /\ closes' = [closes EXCEPT ![id] = @ + 1]
  BY DEF NoteInv, CallsOK, DropNote, Top
<1>2. /\ l \in Nat \ {0} /\ l \in DOMAIN calls /\ Waiting \in Seq(CallSet)
      /\ DOMAIN calls = 1 .. l /\ DOMAIN calls' = 1 .. l - 1
      /\ \A i \in 1 .. l - 1 : calls'[i] = calls[i]
  BY <1>1, Popped, LenProperties
<1>3. SameArriving
  BY <1>1, EndsOK
<1> HIDE DEF l, id
<1>4. id \in 1 .. (curId - 1) /\ id \in NoteIds /\ id \notin rows /\ (id \notin again => id \in held)
  BY <1>1, <1>2, NoteAssumption DEF NoteInv, NoteIdsOK, CallsOK, CallOK, Deleting, NoteIds, id
<1>5. ASSUME NEW i \in DOMAIN calls' PROVE /\ i \in DOMAIN calls /\ calls'[i] = calls[i] /\ i # l
                                           /\ (Deleting(i)' <=> Deleting(i))
  BY <1>2 DEF Deleting
<1>6. ASSUME NEW i \in DOMAIN calls' PROVE CallOK(i)'
  <2>1. Deleting(i) /\ calls[i].id \notin again => calls[i].id # id
    BY <1>1, <1>2, <1>5 DEF NoteInv, CallsOK, OnceOK, Deleting, id
  <2> QED BY <2>1, <1>1, <1>5 DEF NoteInv, CallsOK, CallOK
<1>7. ASSUME NEW i \in DOMAIN calls', NEW j \in DOMAIN calls' PROVE OnceOK(i, j)'
  BY <1>1, <1>5 DEF NoteInv, CallsOK, OnceOK
<1>8. CallsOK'
  BY <1>1, <1>2, <1>6, <1>7 DEF CallsOK
<1>9. NoteIdsOK' /\ NoteListOK' /\ ActionsAgree' /\ NameOK'
  <2>1. NoteIdsOK'
    BY <1>1, <1>4 DEF NoteInv, NoteIdsOK
  <2>2. NoteListOK'
    BY <1>1, <1>4 DEF NoteInv, NoteListOK, DropNote
  <2>3. ActionsAgree' /\ NameOK'
    BY DEF NoteInv, ActionsAgree, NameOK, DropNote, nameVars
  <2> QED BY <2>1, <2>2, <2>3
<1>10. ClosesAgree'
  <2>1. \A k \in NoteIds : closes[k] \in Nat /\ closes'[k] = IF k = id THEN closes[k] + 1 ELSE closes[k]
    BY <1>1, <1>4 DEF NoteInv, NoteListOK
  <2> HIDE DEF SameArriving
  <2>2. \A k : Arriving(k)' <=> Arriving(k)
    BY <1>3 DEF SameArriving
  <2>3. id \in held => ~Arriving(id)
    BY DEF NoteInv, CallsOK, CallOK, Arriving, Call
  <2>4. ASSUME NEW k \in NoteIds PROVE ClosedOK(k)'
    <3>1. ClosedOK(k)
      BY DEF NoteInv, ClosesAgree
    <3>2. CASE k = id
      <4>1. /\ k < curId' /\ k \notin held' /\ again' = again
            /\ (Arriving(k)' <=> Arriving(k))
        <5>1. k < curId /\ curId' = curId
          BY <1>1, <1>4, <3>2 DEF NoteInv, NoteIdsOK
        <5>2. k \notin held' /\ again' = again
          BY <1>1, <3>2
        <5> QED BY <5>1, <5>2, <2>2
      <4>2. closes[k] \in Nat /\ closes'[k] = closes[k] + 1
        BY <2>1, <3>2
      <4>3. k \notin again => closes[k] = 0 /\ ~Arriving(k)
        <5>1. k \notin again => k \in held /\ ~Arriving(k)
          BY <1>4, <2>3, <3>2
        <5> QED BY <3>1, <5>1 DEF ClosedOK
      <4>4. closes'[k] > 0 /\ (k \notin again => closes'[k] = 1 /\ ~Arriving(k)')
        BY <4>1, <4>2, <4>3
      <4> QED BY <4>1, <4>4 DEF ClosedOK
    <3>3. CASE k # id
      BY <1>1, <2>1, <2>2, <3>1, <3>3 DEF ClosedOK
    <3> QED BY <3>2, <3>3
  <2> QED BY <2>4 DEF ClosesAgree
<1> QED BY <1>8, <1>9, <1>10 DEF NoteInv

LEMMA CloseAllOK == ASSUME NoteInv, CloseAll PROVE NoteInv'
<1> DEFINE c == Call("walk", 0)
<1>1. c \in CallSet /\ calls' = Append(calls, c) /\ calls \in Seq(CallSet) /\ c.do = "walk"
  BY NoteAssumption DEF NoteInv, CallsOK, CloseAll, CallSet, Call
<1> HIDE DEF c
<1>2. /\ calls' \in Seq(CallSet) /\ DOMAIN calls' = 1 .. Len(calls) + 1 /\ Len(calls) \in Nat
      /\ DOMAIN calls = 1 .. Len(calls)
      /\ \A i \in DOMAIN calls : calls'[i] = calls[i]
      /\ calls'[Len(calls) + 1] = c
  BY <1>1, Pushed, LenProperties
<1>3. \A i \in DOMAIN calls' : Deleting(i)' => i \in DOMAIN calls /\ Deleting(i)
  BY <1>1, <1>2 DEF Deleting
<1>4. UNCHANGED <<curId, held, again, closes>> /\ rows' = {}
  BY DEF CloseAll
<1>5. \A i \in DOMAIN calls' : CallOK(i)'
  BY <1>1, <1>2, <1>3, <1>4 DEF NoteInv, CallsOK, CallOK
<1>6. \A i, j \in DOMAIN calls' : OnceOK(i, j)'
  BY <1>2, <1>3, <1>4 DEF NoteInv, CallsOK, OnceOK
<1>7. SameArriving
  BY <1>1, <1>2 DEF SameArriving, Arriving, Call
<1>8. CallsOK'
  BY <1>2, <1>5, <1>6 DEF CallsOK
<1>9. ClosesAgree'
  BY <1>4, <1>7 DEF NoteInv, ClosesAgree, ClosedOK, SameArriving
<1>10. NoteIdsOK' /\ NoteListOK' /\ ActionsAgree' /\ NameOK'
  BY <1>4 DEF NoteInv, NoteIdsOK, NoteListOK, ActionsAgree, NameOK, CloseAll, nameVars
<1> QED BY <1>8, <1>9, <1>10 DEF NoteInv

LEMMA WalkEndsOK == ASSUME NoteInv, WalkEnds PROVE NoteInv'
<1>1. calls \in Seq(CallSet) /\ Busy /\ calls' = Waiting /\ Top.do # "insert"
  BY DEF NoteInv, CallsOK, WalkEnds
<1>2. SameArriving
  BY <1>1, EndsOK
<1>3. /\ calls' \in Seq(CallSet)
      /\ \A i \in DOMAIN calls' : i \in DOMAIN calls /\ calls'[i] = calls[i]
  BY <1>1, Popped, LenProperties
<1>4. UNCHANGED <<curId, held, rows, again, closes>>
  BY DEF WalkEnds
<1>5. \A i \in DOMAIN calls' : CallOK(i)'
  BY <1>3, <1>4 DEF NoteInv, CallsOK, CallOK, Deleting
<1>6. \A i, j \in DOMAIN calls' : OnceOK(i, j)'
  BY <1>3, <1>4 DEF NoteInv, CallsOK, OnceOK, Deleting
<1>7. CallsOK'
  BY <1>3, <1>5, <1>6 DEF CallsOK
<1>8. ClosesAgree'
  BY <1>2, <1>4 DEF NoteInv, ClosesAgree, ClosedOK, SameArriving
<1>9. NoteIdsOK' /\ NoteListOK' /\ ActionsAgree' /\ NameOK'
  BY <1>4 DEF NoteInv, NoteIdsOK, NoteListOK, ActionsAgree, NameOK, WalkEnds, nameVars
<1> QED BY <1>7, <1>8, <1>9 DEF NoteInv

LEMMA NotifyOK ==
  ASSUME NoteInv, NEW replaces \in 0..MaxNotes, NEW list \in ActionLists,
         NEW valid \in BOOLEAN, NEW keep \in BOOLEAN, Notify(replaces, list, valid, keep)
  PROVE  NoteInv'
<1> DEFINE id == IF replaces \in held THEN replaces ELSE curId
<1>1. id \in NoteIds /\ id < curId'
  BY NoteAssumption DEF NoteInv, NoteIdsOK, Notify, NoteIds
<1>2. NoteIdsOK'
  BY NoteAssumption DEF NoteInv, NoteIdsOK, Notify
<1>3. /\ actions' = IF valid THEN [actions EXCEPT ![id] = UpdatedActions(@, list)] ELSE actions
      /\ closeAsked' = IF valid THEN [closeAsked EXCEPT ![id] = list] ELSE closeAsked
      /\ UNCHANGED <<held, rows, closes, again>> /\ calls = <<>>
      /\ calls' = IF replaces \in held THEN <<>> ELSE Append(<<>>, Call("insert", id))
      /\ curId' = IF replaces \in held THEN curId ELSE curId + 1
  BY DEF Notify, Busy
<1>4. actions \in ActionSeqs /\ closeAsked \in ActionSeqs /\ list \in Seq(STRING)
  BY NoteAssumption DEF NoteInv, NoteListOK
<1>5. CallsOK' /\ ClosesAgree'
  <2>1. CASE replaces \in held
    <3>1. UNCHANGED <<calls, curId, held, rows, again, closes>>
      BY <1>3, <2>1
    <3> QED BY <3>1
            DEF NoteInv, CallsOK, CallOK, OnceOK, Deleting, ClosesAgree, ClosedOK, Arriving
  <2>2. CASE replaces \notin held
    <3> DEFINE c == Call("insert", curId)
    <3>1. /\ calls' = <<c>> /\ c \in CallSet /\ c.do = "insert" /\ c.id = curId
          /\ curId' = curId + 1 /\ curId \in NoteIds /\ curId \in Nat
      BY <1>1, <1>3, <2>2, NoteAssumption DEF NoteInv, NoteIdsOK, Call, CallSet, NoteIds
    <3>2. curId \notin held /\ curId \notin again
      BY <3>1 DEF NoteInv, NoteIdsOK
    <3>3. \A k : Arriving(k)' <=> k = curId
      BY <3>1 DEF Arriving, Call
    <3>4. \A k : ~Arriving(k)
      BY <1>3 DEF Arriving
    <3> HIDE DEF c
    <3>5. CallsOK'
      <4>1. calls' \in Seq(CallSet) /\ DOMAIN calls' = {1} /\ calls'[1] = c
        BY <3>1
      <4>2. CallOK(1)'
        BY <3>1, <3>2, <1>3, <4>1 DEF CallOK, Deleting, NoteIds
      <4> QED BY <4>1, <4>2 DEF CallsOK, OnceOK
    <3>6. ASSUME NEW k \in NoteIds PROVE ClosedOK(k)'
      BY <3>1, <3>2, <3>3, <3>4, <1>3 DEF NoteInv, NoteIdsOK, ClosesAgree, ClosedOK, NoteIds
    <3> QED BY <3>5, <3>6 DEF ClosesAgree
  <2> QED BY <2>1, <2>2
<1> HIDE DEF id
<1>6. NoteListOK'
  BY <1>1, <1>3, <1>4, UpdatedActionsStart DEF NoteInv, NoteListOK, ActionSeqs
<1>7. ActionsAgree'
  BY <1>1, <1>3, <1>4, UpdatedActionsStart DEF NoteInv, ActionsAgree, ActionSeqs
<1>8. NameOK'
  BY DEF NoteInv, NameOK, Notify, nameVars
<1> QED BY <1>2, <1>5, <1>6, <1>7, <1>8 DEF NoteInv

LEMMA NextNoteInv == NoteInv /\ [NoteNext]_noteVars => NoteInv'
<1> SUFFICES ASSUME NoteInv, [NoteNext]_noteVars PROVE NoteInv'
  OBVIOUS
<1>1. ASSUME NEW replaces \in 0..MaxNotes, NEW list \in ActionLists, NEW valid \in BOOLEAN,
             NEW keep \in BOOLEAN, Notify(replaces, list, valid, keep)
      PROVE  NoteInv'
  BY <1>1, NotifyOK
<1>2. ASSUME NEW id \in NoteIds, CloseNotification(id) \/ Dismiss(id) \/ Invoke(id)
      PROVE  NoteInv'
  BY <1>2, DeleteOK DEF CloseNotification, Dismiss, Invoke
<1>3. ASSUME NEW id \in NoteIds, Walk(id) PROVE NoteInv'
  BY <1>3, WalkOK
<1>4. CASE UNCHANGED noteVars
  <2>1. NoteIdsOK' /\ NoteListOK' /\ ActionsAgree' /\ NameOK'
    BY <1>4 DEF noteVars, NoteInv, NoteIdsOK, NoteListOK, ActionsAgree, NameOK
  <2>2. CallsOK' /\ ClosesAgree'
    BY <1>4 DEF noteVars, NoteInv, CallsOK, CallOK, OnceOK, Deleting, ClosesAgree, ClosedOK, Arriving
  <2> QED BY <2>1, <2>2 DEF NoteInv
<1>5. ASSUME InsertNote \/ RemoveRow \/ DropNote \/ CloseAll \/ WalkEnds PROVE NoteInv'
  BY <1>5, InsertOK, RemoveOK, DropOK, CloseAllOK, WalkEndsOK
<1>6. ASSUME SetActive \/ SetInactive \/ ServiceUnregistered \/ DaemonLeaves \/ ServerFreed
      PROVE  NoteInv'
  <2>1. UNCHANGED noteListVars
    BY <1>6 DEF SetActive, SetInactive, ServiceUnregistered, DaemonLeaves, ServerFreed
  <2>2. NoteIdsOK' /\ NoteListOK' /\ ActionsAgree' /\ CallsOK' /\ ClosesAgree'
    BY <2>1 DEF noteListVars, NoteInv, NoteIdsOK, NoteListOK, ActionsAgree, CallsOK, CallOK,
                OnceOK, Deleting, ClosesAgree, ClosedOK, Arriving
  <2>3. NameOK'
    BY <1>6 DEF SetActive, SetInactive, ServiceUnregistered, DaemonLeaves, ServerFreed,
                Registered, NoteInv, NameOK
  <2> QED BY <2>2, <2>3 DEF NoteInv
<1> QED BY <1>1, <1>2, <1>3, <1>4, <1>5, <1>6 DEF NoteNext

\* Every id handed out is held, about to be, or was reported closed, and once unless QML closed
\* it again from a handler of its own closing, whatever clients and handlers do and in whatever
\* order; updateProperties keeps the actions of the last valid request first; and an active
\* server never waits for a name nobody owns.
THEOREM NotesAccountedFor == NoteSpec => []NoteAccounts
<1>1. NoteInv => NoteAccounts
  BY NoteAssumption DEF NoteInv, NoteAccounts, NoteIdsOK, ActionsAgree, ClosesAgree, ClosedOK, NameOK, NoteIds
<1> QED BY <1>1, InitNoteInv, NextNoteInv, PTL DEF NoteSpec

-----------------------------------------------------------------------------
(* Windows of the session lock *)

LockWindowRecords ==
  [life : {"held", "doomed", "gone"}, key : LockOutputs \cup {NoOutput},
   screen : LockOutputs \cup {NoOutput}, at : LockOutputs \cup {NoOutput},
   copy : {"none", "idle", "asked", "done"}, lock : Nat, on : LockOutputs \cup {NoOutput},
   acked : BOOLEAN, size : Nat, drawn : BOOLEAN]

LockWinTypeOK ==
  /\ outputs \subseteq LockOutputs /\ bufsReady \in BOOLEAN /\ keyReused \in BOOLEAN
  /\ locksMade \in Nat /\ lockNow \in {0, locksMade}
  /\ lockWins \in Seq(LockWindowRecords)

\* What holds of one element by itself: no buffer before the acknowledgement, no size
\* that is 0 after it, and no lock that is not made yet.
Drawable(w) == /\ w.lock <= locksMade
               /\ w.acked => w.size > 0
               /\ w.drawn => w.acked
               /\ w.life = "held" => w.lock \in {0, lockNow}

\* Where an element is, unless a new output got the address of one that left: its window
\* is on the output it is filed under as long as that is connected, and its surface is on
\* that output or on none; an element left to deleteLater has its surface on none.
Placed(w) ==
  ~keyReused =>
    /\ w.life = "held" /\ w.key \in outputs => w.at = w.key
    /\ w.life = "held" /\ w.lock # 0 /\ w.on # NoOutput => w.on = w.key /\ w.on \in outputs
    /\ w.life = "doomed" /\ w.lock = lockNow /\ lockNow # 0 => w.on = NoOutput

\* An output has one element.
OneElement == \A j, k \in Held : lockWins[j].key = lockWins[k].key => j = k

LockWinInv ==
  /\ LockWinTypeOK /\ OneElement
  /\ \A k \in DOMAIN lockWins : Drawable(lockWins[k]) /\ Placed(lockWins[k])

\* A step that changes elements and makes none keeps them a sequence of elements.
LEMMA ElementsKept ==
  ASSUME LockWinTypeOK, NEW list, list = [k \in DOMAIN lockWins |-> list[k]],
         \A k \in DOMAIN lockWins : list[k] \in LockWindowRecords
  PROVE  list \in Seq(LockWindowRecords)
<1>1. DOMAIN lockWins = 1 .. Len(lockWins) /\ Len(lockWins) \in Nat
  BY LenProperties DEF LockWinTypeOK
<1> QED BY <1>1

LEMMA InitLockWinInv == LockWinInit => LockWinInv
<1> SUFFICES ASSUME LockWinInit PROVE LockWinInv
  OBVIOUS
<1>1. LockWinTypeOK
  <2>1. lockWins \in Seq(LockWindowRecords)
    BY EmptySeq DEF LockWinInit
  <2> QED BY <2>1 DEF LockWinInit, LockWinTypeOK
<1>2. DOMAIN lockWins = {}
  BY DEF LockWinInit
<1> QED BY <1>1, <1>2 DEF LockWinInv, OneElement, Held

\* Steps that change one element, and not its life, its key or where it is.
LEMMA OneChanges ==
  ASSUME LockWinInv, NEW k \in DOMAIN lockWins, NEW w \in LockWindowRecords, With(k, w),
         UNCHANGED <<outputs, lockNow, locksMade, keyReused, bufsReady>>,
         w.life = lockWins[k].life, w.key = lockWins[k].key, w.at = lockWins[k].at,
         w.on = lockWins[k].on, w.lock = lockWins[k].lock, Drawable(w)
  PROVE  LockWinInv'
<1>1. /\ lockWins' = [j \in DOMAIN lockWins |-> lockWins'[j]] /\ DOMAIN lockWins' = DOMAIN lockWins
      /\ \A j \in DOMAIN lockWins : lockWins'[j] = IF j = k THEN w ELSE lockWins[j]
      /\ \A j \in DOMAIN lockWins : lockWins[j] \in LockWindowRecords
  BY ElementOfSeq, LenProperties DEF LockWinInv, LockWinTypeOK, With
<1>2. LockWinTypeOK'
  BY <1>1, ElementsKept DEF LockWinInv, LockWinTypeOK
<1>3. OneElement'
  BY <1>1 DEF LockWinInv, OneElement, Held
<1>4. ASSUME NEW j \in DOMAIN lockWins PROVE Drawable(lockWins[j])' /\ Placed(lockWins[j])'
  BY <1>1 DEF LockWinInv, LockWindowRecords, Drawable, Placed
<1> QED BY <1>1, <1>2, <1>3, <1>4 DEF LockWinInv

\* ~keyReused is taken as a hypothesis about the step where it matters.
LEMMA OutputsChange ==
  ASSUME LockWinInv, NEW o \in LockOutputs, OutputGone(o) \/ OutputComes(o)
  PROVE  LockWinInv'
<1> USE LockWinAssumption
<1>1. \A j \in DOMAIN lockWins : lockWins[j] \in LockWindowRecords
  BY ElementOfSeq, LenProperties DEF LockWinInv, LockWinTypeOK
<1>2. ASSUME OutputComes(o) PROVE LockWinInv'
  <2>1. LockWinTypeOK' /\ OneElement'
    BY <1>2 DEF LockWinInv, OutputComes, LockWinTypeOK, OneElement, Held
  <2>2. ASSUME NEW j \in DOMAIN lockWins PROVE Drawable(lockWins[j])' /\ Placed(lockWins[j])'
    BY <1>2, <1>1 DEF LockWinInv, LockWinTypeOK, OutputComes, LockWindowRecords, Drawable, Placed, Held
  <2> QED BY <1>2, <2>1, <2>2 DEF LockWinInv, OutputComes
<1>3. ASSUME OutputGone(o) PROVE LockWinInv'
  <2>1. PICK next \in LockOutputs \cup {NoOutput} :
          lockWins' = [k \in DOMAIN lockWins |->
            IF k \notin LiveWins THEN lockWins[k]
            ELSE [lockWins[k] EXCEPT !.screen = IF @ = o THEN NoOutput ELSE @,
                                     !.on = IF @ = o THEN NoOutput ELSE @,
                                     !.at = IF @ = o THEN next ELSE @]]
    BY <1>3 DEF OutputGone, LockWinInv, LockWinTypeOK
  <2>2. DOMAIN lockWins' = DOMAIN lockWins /\ lockWins' = [j \in DOMAIN lockWins |-> lockWins'[j]]
    BY <2>1
  <2>3. ASSUME NEW j \in DOMAIN lockWins
        PROVE  /\ lockWins'[j] \in LockWindowRecords
               /\ lockWins'[j].life = lockWins[j].life /\ lockWins'[j].key = lockWins[j].key
               /\ lockWins'[j].lock = lockWins[j].lock /\ lockWins'[j].acked = lockWins[j].acked
               /\ lockWins'[j].size = lockWins[j].size /\ lockWins'[j].drawn = lockWins[j].drawn
               /\ lockWins[j].at # o => lockWins'[j].at = lockWins[j].at
               /\ j \in LiveWins =>
                    lockWins'[j].on = IF lockWins[j].on = o THEN NoOutput ELSE lockWins[j].on
    <3>1. lockWins[j] \in LockWindowRecords
      BY <1>1
    <3>2. CASE j \notin LiveWins
      BY <2>1, <3>1, <3>2
    <3>3. CASE j \in LiveWins
      <4>1. lockWins'[j] = [lockWins[j] EXCEPT !.screen = IF @ = o THEN NoOutput ELSE @,
                                     !.on = IF @ = o THEN NoOutput ELSE @,
                                     !.at = IF @ = o THEN next ELSE @]
        BY <2>1, <3>3
      <4> QED BY <3>1, <4>1 DEF LockWindowRecords
    <3> QED BY <3>2, <3>3
  <2>4. LockWinTypeOK'
    BY <1>3, <2>2, <2>3, ElementsKept DEF LockWinInv, LockWinTypeOK, OutputGone
  <2>5. OneElement'
    BY <2>2, <2>3 DEF LockWinInv, OneElement, Held
  <2>6. ASSUME NEW j \in DOMAIN lockWins PROVE Drawable(lockWins[j])' /\ Placed(lockWins[j])'
    <3>1. Drawable(lockWins[j])'
      BY <1>3, <2>3 DEF LockWinInv, OutputGone, Drawable
    <3>2. Placed(lockWins[j])'
      <4>1. Placed(lockWins[j]) /\ outputs' = outputs \ {o} /\ UNCHANGED <<keyReused, lockNow>>
        BY <1>3 DEF LockWinInv, OutputGone
      <4>2. lockWins[j].life \in {"held", "doomed"} => j \in LiveWins
        BY DEF LiveWins
      <4> QED BY <2>3, <4>1, <4>2 DEF Placed
    <3> QED BY <3>1, <3>2
  <2> QED BY <2>2, <2>4, <2>5, <2>6 DEF LockWinInv
<1> QED BY <1>2, <1>3

LEMMA UnlockOK == ASSUME LockWinInv, WindowsUnlock PROVE LockWinInv'
<1>1. \A j \in DOMAIN lockWins : lockWins[j] \in LockWindowRecords
  BY ElementOfSeq, LenProperties DEF LockWinInv, LockWinTypeOK
<1>2. DOMAIN lockWins' = DOMAIN lockWins /\ lockWins' = [j \in DOMAIN lockWins |-> lockWins'[j]]
  BY DEF WindowsUnlock
<1>3. ASSUME NEW j \in DOMAIN lockWins
      PROVE  /\ lockWins'[j] \in LockWindowRecords /\ lockWins'[j].life # "held"
             /\ lockWins'[j].lock = lockWins[j].lock /\ lockWins'[j].acked = lockWins[j].acked
             /\ lockWins'[j].size = lockWins[j].size /\ lockWins'[j].drawn = lockWins[j].drawn
  <2>1. lockWins'[j] = IF j \in Held THEN [lockWins[j] EXCEPT !.life = "doomed"] ELSE lockWins[j]
    BY DEF WindowsUnlock
  <2> QED BY <1>1, <2>1 DEF Held, LockWindowRecords
<1>4. LockWinTypeOK'
  BY <1>2, <1>3, ElementsKept DEF LockWinInv, LockWinTypeOK, WindowsUnlock
<1>5. OneElement'
  BY <1>2, <1>3 DEF OneElement, Held
<1>6. ASSUME NEW j \in DOMAIN lockWins PROVE Drawable(lockWins[j])' /\ Placed(lockWins[j])'
  BY <1>3 DEF LockWinInv, WindowsUnlock, Drawable, Placed
<1> QED BY <1>2, <1>4, <1>5, <1>6 DEF LockWinInv

LEMMA BufsReadyOK == ASSUME LockWinInv, BufsReady PROVE LockWinInv'
<1>1. \A j \in DOMAIN lockWins : lockWins[j] \in LockWindowRecords
  BY ElementOfSeq, LenProperties DEF LockWinInv, LockWinTypeOK
<1>2. DOMAIN lockWins' = DOMAIN lockWins /\ lockWins' = [j \in DOMAIN lockWins |-> lockWins'[j]]
  BY DEF BufsReady
<1>3. ASSUME NEW j \in DOMAIN lockWins
      PROVE  \E c \in {"none", "idle", "asked", "done"} :
               lockWins'[j] = [lockWins[j] EXCEPT !.copy = c]
  BY <1>1 DEF BufsReady, LockWindowRecords
<1>4. ASSUME NEW j \in DOMAIN lockWins
      PROVE  /\ lockWins'[j] \in LockWindowRecords /\ lockWins'[j].life = lockWins[j].life
             /\ lockWins'[j].lock = lockWins[j].lock /\ lockWins'[j].acked = lockWins[j].acked
             /\ lockWins'[j].size = lockWins[j].size /\ lockWins'[j].drawn = lockWins[j].drawn
             /\ lockWins'[j].on = lockWins[j].on /\ lockWins'[j].at = lockWins[j].at
             /\ lockWins'[j].key = lockWins[j].key
  <2>1. PICK c \in {"none", "idle", "asked", "done"} :
          lockWins'[j] = [lockWins[j] EXCEPT !.copy = c]
    BY <1>3
  <2>2. lockWins'[j] \in LockWindowRecords
    BY <1>1, <2>1 DEF LockWindowRecords
  <2> QED BY <1>1, <2>1, <2>2 DEF LockWindowRecords
<1>5. LockWinTypeOK'
  BY <1>2, <1>4, ElementsKept DEF LockWinInv, LockWinTypeOK, BufsReady
<1>6. OneElement'
  BY <1>2, <1>4 DEF LockWinInv, OneElement, Held
<1>7. ASSUME NEW j \in DOMAIN lockWins PROVE Drawable(lockWins[j])' /\ Placed(lockWins[j])'
  BY <1>4 DEF LockWinInv, BufsReady, Drawable, Placed
<1> QED BY <1>2, <1>5, <1>6, <1>7 DEF LockWinInv

LEMMA DeletedWindowOK ==
  ASSUME LockWinInv, NEW k \in DOMAIN lockWins, WindowDeleted(k) PROVE LockWinInv'
<1> DEFINE w == [NewWindow(NoOutput) EXCEPT !.life = "gone", !.copy = "none"]
<1>1. \A j \in DOMAIN lockWins : lockWins[j] \in LockWindowRecords
  BY ElementOfSeq, LenProperties DEF LockWinInv, LockWinTypeOK
<1>2. w \in LockWindowRecords /\ w.life = "gone" /\ w.lock = 0 /\ ~w.acked /\ ~w.drawn
  BY LockWinAssumption DEF NewWindow, LockWindowRecords
<1>3. lockWins' = [lockWins EXCEPT ![k] = w]
  BY DEF WindowDeleted, With
<1> HIDE DEF w
<1>4. /\ DOMAIN lockWins' = DOMAIN lockWins /\ lockWins' = [j \in DOMAIN lockWins |-> lockWins'[j]]
      /\ \A j \in DOMAIN lockWins : lockWins'[j] = IF j = k THEN w ELSE lockWins[j]
  BY <1>3
<1>5. LockWinTypeOK'
  BY <1>1, <1>2, <1>4, ElementsKept DEF LockWinInv, LockWinTypeOK, WindowDeleted
<1>6. OneElement'
  BY <1>2, <1>4 DEF LockWinInv, OneElement, Held
<1>7. ASSUME NEW j \in DOMAIN lockWins PROVE Drawable(lockWins[j])' /\ Placed(lockWins[j])'
  BY <1>2, <1>4 DEF LockWinInv, LockWinTypeOK, WindowDeleted, Drawable, Placed
<1> QED BY <1>4, <1>5, <1>6, <1>7 DEF LockWinInv

LEMMA ConfigureOK ==
  ASSUME LockWinInv, NEW k \in DOMAIN lockWins, NEW s \in WinSizes, Configure(k, s)
  PROVE  LockWinInv'
<1> DEFINE w == [lockWins[k] EXCEPT !.acked = TRUE, !.size = s]
<1>1. lockWins[k] \in LockWindowRecords /\ s \in Nat \ {0}
  BY ElementOfSeq, LenProperties, LockWinAssumption DEF LockWinInv, LockWinTypeOK
<1>2. /\ w \in LockWindowRecords /\ w.life = lockWins[k].life /\ w.key = lockWins[k].key
      /\ w.at = lockWins[k].at /\ w.on = lockWins[k].on /\ w.lock = lockWins[k].lock
      /\ w.acked /\ w.size > 0
  <2>1. w \in LockWindowRecords
    BY <1>1 DEF LockWindowRecords
  <2>2. w.acked /\ w.size > 0
    BY <1>1 DEF LockWindowRecords
  <2> QED BY <1>1, <2>1, <2>2 DEF LockWindowRecords
<1>3. With(k, w) /\ UNCHANGED <<outputs, lockNow, locksMade, keyReused, bufsReady>>
  BY DEF Configure
<1> HIDE DEF w
<1>4. Drawable(w)
  BY <1>2 DEF LockWinInv, Drawable
<1> QED BY <1>2, <1>3, <1>4, OneChanges

LEMMA DrawsOK ==
  ASSUME LockWinInv, NEW k \in DOMAIN lockWins, Draws(k) \/ ScreenshotArrives(k)
  PROVE  LockWinInv'
<1>1. PICK w : /\ w \in {[lockWins[k] EXCEPT !.drawn = TRUE], [lockWins[k] EXCEPT !.copy = "done"]}
               /\ With(k, w)
               /\ w.drawn => lockWins[k].acked
  <2>1. lockWins[k] \in LockWindowRecords /\ (lockWins[k].drawn => lockWins[k].acked)
    BY ElementOfSeq, LenProperties DEF LockWinInv, LockWinTypeOK, Drawable
  <2> QED BY <2>1 DEF Draws, ScreenshotArrives, IsExposed, LockWindowRecords
<1>2. lockWins[k] \in LockWindowRecords
  BY ElementOfSeq, LenProperties DEF LockWinInv, LockWinTypeOK
<1>3. /\ w \in LockWindowRecords /\ w.life = lockWins[k].life /\ w.key = lockWins[k].key
      /\ w.at = lockWins[k].at /\ w.on = lockWins[k].on /\ w.lock = lockWins[k].lock
      /\ w.acked = lockWins[k].acked /\ w.size = lockWins[k].size
  BY <1>1, <1>2 DEF LockWindowRecords
<1>4. UNCHANGED <<outputs, lockNow, locksMade, keyReused, bufsReady>>
  BY DEF Draws, ScreenshotArrives
<1>5. Drawable(w)
  BY <1>1, <1>3 DEF LockWinInv, Drawable
<1> QED BY <1>1, <1>3, <1>4, <1>5, OneChanges

\* show() of one element: what ShownAs changes, and what it leaves.
ShownFrom(w, lock, v) ==
  /\ v \in LockWindowRecords
  /\ v.life = w.life /\ v.key = w.key /\ v.at = w.at /\ v.acked = w.acked
  /\ v.size = w.size /\ v.drawn = w.drawn
  /\ v.lock = IF w.lock = 0 THEN lock ELSE w.lock
  /\ v.on = IF w.lock = 0 THEN w.at ELSE w.on

LEMMA ShownAsOK ==
  ASSUME NEW w \in LockWindowRecords, NEW lock \in Nat
  PROVE  ShownFrom(w, lock, ShownAs(w, lock))
<1>1. CASE w.lock # 0
  BY <1>1 DEF ShownAs, ShownFrom
<1>2. CASE w.lock = 0
  <2>1. ShownAs(w, lock) = [w EXCEPT !.lock = lock, !.on = w.at]
    BY <1>2 DEF ShownAs
  <2>2. ShownAs(w, lock) \in LockWindowRecords
    BY <2>1 DEF LockWindowRecords
  <2> QED BY <1>2, <2>1, <2>2 DEF LockWindowRecords, ShownFrom
<1> QED BY <1>1, <1>2

LEMMA NewWindowOK ==
  ASSUME NEW o \in LockOutputs, NEW w, w = NewWindow(o)
  PROVE  /\ w \in LockWindowRecords
         /\ w.life = "held" /\ w.key = o /\ w.at = o /\ w.lock = 0 /\ w.on = NoOutput
         /\ ~w.acked /\ ~w.drawn
BY DEF NewWindow, LockWindowRecords

\* updateSurfaces numbers the new elements in some order of the missing outputs, each once.
LEMMA EachOnce ==
  ASSUME NEW missing \in SUBSET LockOutputs,
         NEW order \in [1 .. Cardinality(missing) -> missing],
         \A o \in missing : \E k \in DOMAIN order : order[k] = o
  PROVE  /\ Cardinality(missing) \in Nat
         /\ \A j, k \in 1 .. Cardinality(missing) : order[j] = order[k] => j = k
<1>1. IsFiniteSet(missing)
  BY LockWinAssumption, FS_Subset
<1>2. Cardinality(missing) \in Nat
  BY <1>1, FS_CardinalityType
<1>3. IsFiniteSet(1 .. Cardinality(missing))
      /\ Cardinality(1 .. Cardinality(missing)) = Cardinality(missing)
  BY <1>2, FS_Interval
<1>4. order \in Surjection(1 .. Cardinality(missing), missing)
  BY DEF Surjection
<1>5. order \in Injection(1 .. Cardinality(missing), missing)
  BY <1>3, <1>4, FS_SurjSameCardinalityImpliesInj
<1> QED BY <1>2, <1>5 DEF Injection, IsInjective

LEMMA ShowOnScreensOK ==
  ASSUME LockWinInv, NEW show \in BOOLEAN, ShowOnScreens(show)
  PROVE  LockWinInv'
<1> DEFINE size == Len(lockWins)
           missing == {o \in outputs : \A k \in Held : lockWins[k].key # o}
           n == Cardinality(missing)
           pruned == [k \in DOMAIN lockWins |->
                        IF k \in Held /\ lockWins[k].key \notin outputs
                        THEN [lockWins[k] EXCEPT !.life = "doomed"] ELSE lockWins[k]]
           Became(w) == IF show /\ w.life = "held" THEN ShownAs(w, lockNow') ELSE w
<1>1. /\ size \in Nat /\ DOMAIN lockWins = 1 .. size
      /\ \A k \in 1 .. size : lockWins[k] \in LockWindowRecords
  BY ElementOfSeq, LenProperties DEF LockWinInv, LockWinTypeOK
<1>2. missing \in SUBSET LockOutputs
  BY DEF LockWinInv, LockWinTypeOK
<1>3. PICK order \in [1 .. n -> missing] :
        /\ \A o \in missing : \E k \in DOMAIN order : order[k] = o
        /\ LET all == pruned \o [k \in DOMAIN order |-> NewWindow(order[k])]
           IN lockWins' = [k \in DOMAIN all |-> Became(all[k])]
  BY DEF ShowOnScreens
<1>4. n \in Nat /\ \A j, k \in 1 .. n : order[j] = order[k] => j = k
  BY <1>2, <1>3, EachOnce
<1>5. \* The lock of the step: that of an earlier call, or a new one.
      /\ lockNow' \in Nat /\ locksMade' \in Nat /\ locksMade <= locksMade'
      /\ lockNow' \in {0, locksMade'}
      /\ ~show => lockNow = 0 /\ lockNow' = 0
      /\ lockNow # 0 => lockNow' = lockNow
      /\ lockNow = 0 /\ lockNow' # 0 => lockNow' > locksMade
      /\ UNCHANGED <<outputs, bufsReady, keyReused>>
  BY DEF ShowOnScreens, LockWinInv, LockWinTypeOK
<1>6. /\ DOMAIN lockWins' = 1 .. (size + n)
      /\ lockWins' = [k \in 1 .. (size + n) |-> lockWins'[k]]
      /\ \A k \in 1 .. size : lockWins'[k] = Became(pruned[k])
      /\ \A k \in 1 .. n : lockWins'[size + k] = Became(NewWindow(order[k]))
  <2> DEFINE more == [k \in DOMAIN order |-> NewWindow(order[k])]
             all == pruned \o more
  <2>1. DOMAIN pruned = 1 .. size /\ DOMAIN more = 1 .. n
    BY <1>1, <1>3
  <2>2. Len(pruned) = size /\ Len(more) = n
    BY <1>1, <1>4, <2>1
  <2>3. \A k \in 1 .. n : more[k] = NewWindow(order[k])
    BY <1>3
  <2> HIDE DEF pruned, more, missing, n, size
  <2>4. /\ DOMAIN all = 1 .. (size + n)
        /\ \A k \in 1 .. size : all[k] = pruned[k]
        /\ \A k \in 1 .. n : all[size + k] = more[k]
    BY <1>1, <1>4, <2>1, <2>2
  <2>5. lockWins' = [k \in DOMAIN all |-> Became(all[k])]
    BY <1>3 DEF more
  <2> HIDE DEF all, Became
  <2>6. \A k \in 1 .. n : size + k \in 1 .. (size + n)
    BY <1>1, <1>4
  <2>7. \A k \in 1 .. size : k \in 1 .. (size + n)
    BY <1>1, <1>4
  <2> QED BY <2>3, <2>4, <2>5, <2>6, <2>7
<1>7. \* An element that was there: it leaves with its output, or is shown.
      ASSUME NEW k \in 1 .. size
      PROVE  /\ lockWins'[k] \in LockWindowRecords
             /\ lockWins'[k].life = IF lockWins[k].life = "held" /\ lockWins[k].key \notin outputs
                                    THEN "doomed" ELSE lockWins[k].life
             /\ lockWins'[k].key = lockWins[k].key /\ lockWins'[k].at = lockWins[k].at
             /\ lockWins'[k].acked = lockWins[k].acked /\ lockWins'[k].size = lockWins[k].size
             /\ lockWins'[k].drawn = lockWins[k].drawn
             /\ IF show /\ lockWins'[k].life = "held" /\ lockWins[k].lock = 0
                THEN lockWins'[k].lock = lockNow' /\ lockWins'[k].on = lockWins[k].at
                ELSE lockWins'[k].lock = lockWins[k].lock /\ lockWins'[k].on = lockWins[k].on
  <2>1. pruned[k] = IF k \in Held /\ lockWins[k].key \notin outputs
                    THEN [lockWins[k] EXCEPT !.life = "doomed"] ELSE lockWins[k]
    BY <1>1
  <2>2. /\ pruned[k] \in LockWindowRecords
        /\ pruned[k].life = IF lockWins[k].life = "held" /\ lockWins[k].key \notin outputs
                            THEN "doomed" ELSE lockWins[k].life
        /\ pruned[k].key = lockWins[k].key /\ pruned[k].at = lockWins[k].at
        /\ pruned[k].acked = lockWins[k].acked /\ pruned[k].size = lockWins[k].size
        /\ pruned[k].drawn = lockWins[k].drawn /\ pruned[k].lock = lockWins[k].lock
        /\ pruned[k].on = lockWins[k].on
    <3>1. lockWins[k] \in LockWindowRecords /\ (k \in Held <=> lockWins[k].life = "held")
      BY <1>1 DEF Held
    <3> HIDE DEF pruned
    <3>2. CASE k \in Held /\ lockWins[k].key \notin outputs
      BY <2>1, <3>1, <3>2 DEF LockWindowRecords
    <3>3. CASE ~(k \in Held /\ lockWins[k].key \notin outputs)
      BY <2>1, <3>1, <3>3
    <3> QED BY <3>2, <3>3
  <2> HIDE DEF pruned
  <2>3. CASE show /\ pruned[k].life = "held"
    <3>1. lockWins'[k] = ShownAs(pruned[k], lockNow')
      BY <1>6, <2>3
    <3>2. ShownFrom(pruned[k], lockNow', lockWins'[k])
      BY <1>5, <2>2, <3>1, ShownAsOK
    <3> HIDE DEF size
    <3> QED BY <2>2, <2>3, <3>2 DEF ShownFrom
  <2>4. CASE ~(show /\ pruned[k].life = "held")
    <3>1. lockWins'[k] = pruned[k]
      BY <1>6, <2>4
    <3> HIDE DEF size
    <3> QED BY <2>2, <2>4, <3>1
  <2> QED BY <2>3, <2>4
<1>8. \* A new element, which is shown at once or waits.
      ASSUME NEW k \in 1 .. n
      PROVE  /\ lockWins'[size + k] \in LockWindowRecords
             /\ lockWins'[size + k].life = "held"
             /\ lockWins'[size + k].key = order[k] /\ lockWins'[size + k].at = order[k]
             /\ ~lockWins'[size + k].acked /\ ~lockWins'[size + k].drawn
             /\ IF show THEN /\ lockWins'[size + k].lock = lockNow'
                             /\ lockWins'[size + k].on = order[k]
                        ELSE lockWins'[size + k].lock = 0 /\ lockWins'[size + k].on = NoOutput
  <2>1. order[k] \in LockOutputs
    BY <1>2, <1>3
  <2>2. lockWins'[size + k] = Became(NewWindow(order[k]))
    BY <1>6
  <2> HIDE DEF size, missing, n
  <2>3. /\ NewWindow(order[k]) \in LockWindowRecords
        /\ NewWindow(order[k]).life = "held" /\ NewWindow(order[k]).key = order[k]
        /\ NewWindow(order[k]).at = order[k] /\ NewWindow(order[k]).lock = 0
        /\ NewWindow(order[k]).on = NoOutput
        /\ ~NewWindow(order[k]).acked /\ ~NewWindow(order[k]).drawn
    BY <2>1, NewWindowOK
  <2>4. CASE ~show
    BY <2>2, <2>3, <2>4
  <2>5. CASE show
    <3>1. lockWins'[size + k] = ShownAs(NewWindow(order[k]), lockNow')
      BY <2>2, <2>3, <2>5
    <3>2. lockNow' \in Nat
      BY <1>5
    <3>3. ShownFrom(NewWindow(order[k]), lockNow', lockWins'[size + k])
      BY <2>3, <3>1, <3>2, ShownAsOK
    <3> QED BY <2>3, <2>5, <3>3 DEF ShownFrom
  <2> QED BY <2>4, <2>5
<1> HIDE DEF Became, pruned
<1>9. ASSUME NEW k \in DOMAIN lockWins'
      PROVE  k \in 1 .. size \/ \E j \in 1 .. n : k = size + j
  <2> HIDE DEF size, missing, n
  <2>1. CASE k > size
    <3>1. k - size \in 1 .. n /\ k = size + (k - size)
      BY <1>1, <1>4, <1>6, <2>1
    <3> QED BY <3>1
  <2> QED BY <1>1, <1>4, <1>6, <2>1
<1>10. LockWinTypeOK'
  <2>1. \A k \in DOMAIN lockWins' : lockWins'[k] \in LockWindowRecords
    BY <1>7, <1>8, <1>9
  <2>2. lockWins' \in Seq(LockWindowRecords)
    <3>1. size + n \in Nat
      BY <1>1, <1>4
    <3> HIDE DEF size, missing, n
    <3> QED BY <1>6, <2>1, <3>1
  <2> QED BY <1>5, <2>2 DEF LockWinInv, LockWinTypeOK
<1>11. OneElement'
  <2> SUFFICES ASSUME NEW j \in Held', NEW k \in Held', lockWins'[j].key = lockWins'[k].key
               PROVE  j = k
    BY DEF OneElement
  <2>1. j \in DOMAIN lockWins' /\ k \in DOMAIN lockWins'
        /\ lockWins'[j].life = "held" /\ lockWins'[k].life = "held"
    BY DEF Held
  <2>2. ASSUME NEW a \in 1 .. size, lockWins'[a].life = "held"
        PROVE  a \in Held /\ lockWins'[a].key = lockWins[a].key
    BY <1>1, <1>7, <2>2 DEF Held
  <2>3. ASSUME NEW a \in 1 .. n
        PROVE  lockWins'[size + a].key = order[a] /\ order[a] \in missing
    BY <1>3, <1>8
  <2>4. CASE j \in 1 .. size /\ k \in 1 .. size
    BY <2>1, <2>2, <2>4 DEF LockWinInv, OneElement
  <2>5. ASSUME NEW a \in 1 .. size, NEW c \in 1 .. n, lockWins'[a].life = "held",
               lockWins'[a].key = lockWins'[size + c].key
        PROVE  FALSE
    BY <2>2, <2>3, <2>5
  <2>6. ASSUME NEW a \in 1 .. n, NEW c \in 1 .. n, j = size + a, k = size + c
        PROVE  j = k
    BY <1>4, <2>3, <2>6
  <2> QED BY <1>9, <2>1, <2>4, <2>5, <2>6
<1>12. ASSUME NEW k \in 1 .. size PROVE Drawable(lockWins[k])' /\ Placed(lockWins[k])'
  <2>1. lockWins[k] \in LockWindowRecords /\ Drawable(lockWins[k]) /\ Placed(lockWins[k])
    BY <1>1 DEF LockWinInv
  <2>2. lockNow \in {0, locksMade} /\ locksMade \in Nat
    BY DEF LockWinInv, LockWinTypeOK
  <2>3. Drawable(lockWins[k])'
    BY <1>5, <1>7, <2>1, <2>2 DEF Drawable, LockWindowRecords
  <2>4. Placed(lockWins[k])'
    BY <1>5, <1>7, <2>1, <2>2 DEF Drawable, Placed, LockWindowRecords
  <2> QED BY <2>3, <2>4
<1>13. ASSUME NEW k \in 1 .. n, NEW j, j = size + k
       PROVE  Drawable(lockWins[j])' /\ Placed(lockWins[j])'
  <2>1. order[k] \in outputs
    BY <1>3
  <2>2. Drawable(lockWins[j])'
    BY <1>5, <1>8, <1>13 DEF Drawable
  <2>3. Placed(lockWins[j])'
    BY <1>5, <1>8, <1>13, <2>1 DEF Placed
  <2> QED BY <2>2, <2>3
<1> QED BY <1>9, <1>10, <1>11, <1>12, <1>13 DEF LockWinInv

LEMMA NextLockWinInv == LockWinInv /\ [LockWinNext]_lockWinVars => LockWinInv'
<1> SUFFICES ASSUME LockWinInv, [LockWinNext]_lockWinVars PROVE LockWinInv'
  OBVIOUS
<1>1. CASE UNCHANGED lockWinVars
  BY <1>1 DEF lockWinVars, LockWinInv, LockWinTypeOK, OneElement, Held, Drawable, Placed
<1>2. ASSUME NEW show \in BOOLEAN, ShowOnScreens(show) PROVE LockWinInv'
  BY <1>2, ShowOnScreensOK
<1>3. ASSUME WindowsUnlock \/ BufsReady PROVE LockWinInv'
  BY <1>3, UnlockOK, BufsReadyOK
<1>4. ASSUME NEW k \in DOMAIN lockWins, WindowDeleted(k) \/ ScreenshotArrives(k) \/ Draws(k)
      PROVE  LockWinInv'
  BY <1>4, DeletedWindowOK, DrawsOK
<1>5. ASSUME NEW k \in DOMAIN lockWins, NEW s \in WinSizes, Configure(k, s) PROVE LockWinInv'
  BY <1>5, ConfigureOK
<1>6. ASSUME NEW o \in LockOutputs, OutputGone(o) \/ OutputComes(o) PROVE LockWinInv'
  BY <1>6, OutputsChange
<1> QED BY <1>1, <1>2, <1>3, <1>4, <1>5, <1>6 DEF LockWinNext

\* No buffer is committed before the first configure is acknowledged, an output has one
\* surface of the lock, and no element of an earlier lock is shown, however outputs come and
\* go while deleteLater is pending, unless a new output took the address of one that left.
THEOREM LockWindowsAlwaysSound == LockWinSpec => []LockWindowsSound
<1>1. ASSUME LockWinInv PROVE LockWindowsSound
  <2>1. LiveWins \subseteq DOMAIN lockWins /\ Held \subseteq DOMAIN lockWins
    BY DEF LiveWins, Held
  <2>2. ProtocolKept
    BY <1>1, <2>1 DEF LockWinInv, ProtocolKept, Drawable
  <2>3. \A k \in Held : lockWins[k].lock \in {0, lockNow}
    BY <1>1, <2>1 DEF LockWinInv, Drawable, Held
  <2>4. OnePerOutput
    <3> SUFFICES ASSUME ~keyReused, NEW j \in LiveWins, NEW k \in LiveWins, lockNow # 0,
                        lockWins[j].lock = lockNow, lockWins[k].lock = lockNow,
                        lockWins[j].on = lockWins[k].on, lockWins[j].on # NoOutput
                 PROVE  j = k
      BY DEF OnePerOutput
    <3>1. ASSUME NEW i \in LiveWins, lockWins[i].lock = lockNow, lockWins[i].on # NoOutput
          PROVE  i \in Held /\ lockWins[i].on = lockWins[i].key
      <4>1. lockWins[i] \in LockWindowRecords
        BY <1>1, <2>1, ElementOfSeq, LenProperties DEF LockWinInv, LockWinTypeOK
      <4>2. lockWins[i].life \in {"held", "doomed"}
        BY <4>1 DEF LiveWins, LockWindowRecords
      <4>3. Placed(lockWins[i])
        BY <1>1, <2>1 DEF LockWinInv
      <4> QED BY <2>1, <3>1, <4>2, <4>3 DEF Placed, Held
    <3> QED BY <1>1, <3>1 DEF LockWinInv, OneElement
  <2> QED BY <2>2, <2>3, <2>4 DEF LockWindowsSound
<1> QED BY <1>1, InitLockWinInv, NextLockWinInv, PTL DEF LockWinSpec

-----------------------------------------------------------------------------
(* Buffers for screen captures *)

CaptureFormats == [format : STRING, mods : SUBSET Nat, implicit : BOOLEAN]

\* What a capture's format can become: its name, some of the modifiers it names, if any,
\* the implicit one only if the capture named it or none, and never neither.
From(c, f) == /\ c.format = f.format
              /\ f.mods # {} => c.mods \subseteq f.mods /\ (c.implicit => f.implicit)
              /\ c.implicit \/ c.mods # {}

LEMMA SharedFrom ==
  ASSUME NEW f, NEW tranche, NEW c \in Shared(f, tranche), c.implicit \/ c.mods # {}
  PROVE  From(c, f)
<1>1. PICK r \in Named(renderFormats, f.format),
           t \in IF f.mods # {} THEN {f} ELSE Named(tranche.formats, f.format) :
             c = Fmt(f.format, t.mods \cap r.mods, t.implicit /\ r.implicit)
  BY DEF Shared
<1>2. c.format = f.format /\ c.mods = t.mods \cap r.mods /\ c.implicit = (t.implicit /\ r.implicit)
  BY <1>1 DEF Fmt
<1>3. f.mods # {} => t = f
  BY <1>1
<1> QED BY <1>2, <1>3 DEF From

\* The formats in common are a list of such formats of the request.
FromRequest(request, tranche) ==
  {c \in UNION {Shared(request.formats[k], tranche) : k \in DOMAIN request.formats} :
     \E k \in DOMAIN request.formats : From(c, request.formats[k])}

LEMMA CommonFrom ==
  ASSUME NEW request, NEW tranche, request.formats \in Seq(CaptureFormats)
  PROVE  Common(request, tranche) \in Seq(FromRequest(request, tranche))
<1> DEFINE N == Len(request.formats)
           Lists == Seq(FromRequest(request, tranche))
           usable(n) == {c \in Shared(request.formats[n], tranche) : c.implicit \/ c.mods # {}}
           Kept(list, n) == IF usable(n) = {} THEN list ELSE Append(list, CHOOSE c \in usable(n) : TRUE)
           step == [n \in 1 .. N |-> [list \in Lists |-> Kept(list, n)]]
           Rec(g) == [n \in 0 .. N |-> IF n = 0 THEN <<>> ELSE Kept(g[n - 1], n)]
<1>1. N \in Nat /\ <<>> \in Lists /\ DOMAIN request.formats = 1 .. N
  OBVIOUS
<1>2. \A n \in 1 .. N : \A list \in Lists : Kept(list, n) \in Lists
  <2> SUFFICES ASSUME NEW n \in 1 .. N, NEW list \in Lists, usable(n) # {}
               PROVE  Append(list, CHOOSE c \in usable(n) : TRUE) \in Lists
    OBVIOUS
  <2>1. (CHOOSE c \in usable(n) : TRUE) \in usable(n)
    OBVIOUS
  <2>2. \A c \in usable(n) : c \in FromRequest(request, tranche)
    BY <1>1, SharedFrom DEF FromRequest
  <2> HIDE DEF usable
  <2> QED BY <2>1, <2>2
<1> HIDE DEF N, Lists, Kept
<1>3. step \in [1 .. N -> [Lists -> Lists]]
  BY <1>2
<1>4. /\ \A n \in 1 .. N, list \in Lists : step[n][list] = Kept(list, n)
      /\ \A n \in 1 .. N : n \in 0 .. N /\ n - 1 \in 0 .. N /\ n # 0
  BY <1>1
<1> HIDE DEF step
<1>5. PICK g \in [0 .. N -> Lists] : Recursion(g, N, <<>>, step)
  BY <1>1, <1>3, RecursionDefines
<1>6. \A n \in 1 .. N : g[n] = Kept(g[n - 1], n)
  BY <1>4, <1>5 DEF Recursion
<1>7. g = Rec(g)
  BY <1>1, <1>5, <1>6 DEF Recursion
<1>8. CommonSoFar(request, tranche) = Rec(CommonSoFar(request, tranche))
  BY <1>7 DEF CommonSoFar, Kept, N
<1> HIDE DEF Rec
<1>9. \A n \in 0 .. N : CommonSoFar(request, tranche)[n] = Rec(CommonSoFar(request, tranche))[n]
  BY <1>8
<1>10. \A n \in 0 .. N : CommonSoFar(request, tranche)[n] \in Lists
  <2> DEFINE T == {n \in 0 .. N : CommonSoFar(request, tranche)[n] \in Lists}
  <2>1. 0 \in T
    BY <1>1, <1>9 DEF Rec
  <2>2. ASSUME NEW n \in 1 .. N, n - 1 \in T PROVE n \in T
    <3>1. CommonSoFar(request, tranche)[n] = Kept(CommonSoFar(request, tranche)[n - 1], n)
      BY <1>4, <1>9 DEF Rec
    <3> QED BY <1>2, <1>4, <2>2, <3>1
  <2> HIDE DEF T
  <2>3. \A n \in 0 .. N : n \in T
    BY <1>1, <2>1, <2>2, UpTo
  <2> QED BY <2>3 DEF T
<1> QED BY <1>1, <1>10 DEF N, Lists, Common

\* The first format of that name, or 0.
LEMMA PlaceOfFirst ==
  ASSUME NEW S, NEW fs \in Seq(S), NEW f
  PROVE  PlaceOf(fs, f) = 0 \/ (PlaceOf(fs, f) \in 1 .. Len(fs) /\ fs[PlaceOf(fs, f)].format = f)
<1>1. CASE ~\E k \in DOMAIN fs : fs[k].format = f
  BY <1>1 DEF PlaceOf
<1>2. CASE \E k \in DOMAIN fs : fs[k].format = f
  <2> DEFINE K == {k \in 1 .. Len(fs) : fs[k].format = f}
  <2>1. K \in SUBSET Nat /\ K # {} /\ DOMAIN fs = 1 .. Len(fs)
    BY <1>2
  <2>2. PICK k \in K : \A j \in K : k <= j
    <3> HIDE DEF K
    <3> QED BY <2>1, LeastNumber
  <2>3. k \in DOMAIN fs /\ fs[k].format = f /\ \A j \in 1 .. k - 1 : fs[j].format # f
    <3>1. ASSUME NEW j \in 1 .. k - 1 PROVE fs[j].format # f
      <4>1. j \in 1 .. Len(fs) /\ ~(k <= j)
        BY <2>2
      <4> QED BY <2>2, <4>1
    <3> QED BY <2>1, <2>2, <3>1
  <2> QED BY <1>2, <2>1, <2>3 DEF PlaceOf
<1> QED BY <1>1, <1>2

LEMMA SwappedOK ==
  ASSUME NEW S, NEW fs \in Seq(S), NEW i \in 1 .. Len(fs), NEW j \in 1 .. Len(fs)
  PROVE  /\ Swapped(fs, i, j) \in Seq(S) /\ Len(Swapped(fs, i, j)) = Len(fs)
         /\ Swapped(fs, i, j)[i] = fs[j]
<1>1. Swapped(fs, i, j) \in [1 .. Len(fs) -> S] /\ Len(fs) \in Nat
  BY DEF Swapped
<1>2. Swapped(fs, i, j)[i] = fs[j]
  BY DEF Swapped
<1> QED BY <1>1, <1>2

\* ensureSorted changes the order only.
LEMMA SortedOK == ASSUME NEW S, NEW fs \in Seq(S) PROVE SortedFormats(fs) \in Seq(S)
<1> DEFINE a == PlaceOf(fs, "argb")
           one == IF a = 0 THEN fs ELSE Swapped(fs, 1, a)
           x == PlaceOf(one, "xrgb")
           to == IF a = 0 THEN 1 ELSE 2
<1>1. Len(fs) \in Nat /\ (a = 0 \/ (a \in 1 .. Len(fs) /\ fs[a].format = "argb"))
  BY PlaceOfFirst
<1> HIDE DEF a
<1>2. one \in Seq(S) /\ Len(one) = Len(fs) /\ (a # 0 => one[1].format = "argb")
  <2>1. CASE a = 0
    BY <2>1
  <2>2. CASE a # 0
    <3>1. 1 \in 1 .. Len(fs) /\ a \in 1 .. Len(fs)
      BY <1>1, <2>2
    <3> QED BY <1>1, <2>2, <3>1, SwappedOK
  <2> QED BY <2>1, <2>2
<1> HIDE DEF one
<1>3. x = 0 \/ (x \in 1 .. Len(one) /\ one[x].format = "xrgb")
  BY <1>2, PlaceOfFirst
<1> HIDE DEF x
<1>4. SortedFormats(fs) = IF x = 0 THEN one ELSE Swapped(one, to, x)
  BY DEF SortedFormats, a, one, x
<1>5. x # 0 => x \in 1 .. Len(one) /\ to \in 1 .. Len(one)
  <2>1. x # 0 /\ a # 0 => x # 1
    BY <1>2, <1>3
  <2> QED BY <1>1, <1>2, <1>3, <2>1
<1> HIDE DEF to
<1> QED BY <1>2, <1>4, <1>5, SwappedOK

\* What may be lent for a request.
Fits(b, request) ==
  b.kind # "none" =>
    /\ b.size = request.size
    /\ b.kind = "shm" => \E k \in DOMAIN request.shm : request.shm[k] = b.format
    /\ b.kind = "dma" =>
         \E k \in DOMAIN request.formats :
           LET f == request.formats[k]
           IN /\ f.format = b.format
              /\ f.mods # {} => \/ b.mod \in f.mods
                                \/ f.implicit /\ b.mod = 0

\* createDmabufFromRequest lends what was asked for.
LEMMA DmaBuffersFit ==
  ASSUME NEW request \in Requests, NEW b \in DmaBuffers(request)
  PROVE  Fits(b, request) /\ b.kind = "dma"
<1> DEFINE usable(k) == request.device \in {0, tranches[k].device}
           list(k) == SortedFormats(Common(request, tranches[k]))
           good == {p \in (1 .. Len(tranches)) \X (1 .. Len(request.formats)) :
                      /\ usable(p[1]) /\ p[2] <= Len(list(p[1]))
                      /\ Works(GbmOf(tranches[p[1]].device), list(p[1])[p[2]])}
           best == CHOOSE p \in good : \A q \in good :
                     p[1] < q[1] \/ (p[1] = q[1] /\ p[2] <= q[2])
           c == list(best[1])[best[2]]
<1>1. /\ ~renderFailed /\ good # {}
      /\ \E m \in IF c.mods = {} THEN {0} ELSE c.mods :
           b = DmaBuffer(request.size, c.format, m, GbmOf(tranches[best[1]].device))
  BY DEF DmaBuffers
<1>2. \A p \in good : p[1] \in Nat /\ p[2] \in Nat \ {0} /\ p[2] <= Len(list(p[1]))
  OBVIOUS
<1> HIDE DEF good
<1>3. best \in good
  <2> DEFINE Firsts == {n \in Nat : \E p \in good : p[1] = n}
  <2>1. Firsts # {}
    BY <1>1, <1>2
  <2>2. PICK n \in Firsts : \A m \in Firsts : n <= m
    BY <2>1, LeastNumber
  <2> DEFINE Seconds == {n2 \in Nat : \E p \in good : p[1] = n /\ p[2] = n2}
  <2>3. Seconds # {}
    BY <1>2, <2>2
  <2>4. PICK n2 \in Seconds : \A m \in Seconds : n2 <= m
    BY <2>3, LeastNumber
  <2>5. PICK p \in good : p[1] = n /\ p[2] = n2
    BY <2>4
  <2>6. ASSUME NEW q \in good PROVE p[1] < q[1] \/ (p[1] = q[1] /\ p[2] <= q[2])
    <3>1. n <= q[1] /\ q[1] \in Nat /\ n \in Nat
      BY <1>2, <2>2
    <3>2. q[1] = n => n2 <= q[2]
      BY <1>2, <2>4
    <3> QED BY <2>5, <3>1, <3>2
  <2> QED BY <2>5, <2>6
<1> HIDE DEF best
<1>4. list(best[1]) \in Seq(FromRequest(request, tranches[best[1]]))
  BY BufferAssumption, CommonFrom, SortedOK DEF CaptureFormats
<1>5. c \in FromRequest(request, tranches[best[1]])
  <2>1. best[2] \in 1 .. Len(list(best[1]))
    BY <1>2, <1>3
  <2> HIDE DEF list
  <2> QED BY <1>4, <2>1
<1> HIDE DEF c
<1>6. PICK k \in DOMAIN request.formats : From(c, request.formats[k])
  BY <1>5 DEF FromRequest
<1>7. PICK m \in IF c.mods = {} THEN {0} ELSE c.mods :
             b = DmaBuffer(request.size, c.format, m, GbmOf(tranches[best[1]].device))
  BY <1>1
<1>8. b.kind = "dma" /\ b.size = request.size /\ b.format = c.format /\ b.mod = m
  BY <1>7 DEF DmaBuffer
<1>9. request.formats[k].mods # {} => m \in request.formats[k].mods \/ (request.formats[k].implicit /\ m = 0)
  BY <1>6, <1>7 DEF From
<1> QED BY <1>6, <1>8, <1>9 DEF Fits, From

\* Whatever is lent was asked for, whether it is made for the request or used again.
LEMMA BuffersForFit ==
  ASSUME NEW request \in Requests, NEW b \in BuffersFor(request) PROVE Fits(b, request)
<1>1. CASE b = NoBuffer
  BY <1>1 DEF NoBuffer, Fits
<1>2. CASE b \in DmaBuffers(request)
  BY <1>2, DmaBuffersFit
<1>3. CASE b \in ShmBuffers(request) /\ b # NoBuffer
  <2>1. request.shm # <<>> /\ b = ShmBuffer(request.size, request.shm[1])
    BY <1>3 DEF ShmBuffers
  <2>2. 1 \in DOMAIN request.shm
    BY <2>1, BufferAssumption
  <2> QED BY <2>1, <2>2 DEF ShmBuffer, Fits
<1> QED BY <1>1, <1>2, <1>3 DEF BuffersFor

LEMMA CompatibleFits ==
  ASSUME NEW b, NEW request, Compatible(b, request) PROVE Fits(b, request)
<1>1. CASE b.kind = "shm" /\ b.size = request.size /\ b.format \in {request.shm[k] : k \in DOMAIN request.shm}
  BY <1>1 DEF Fits
<1>2. CASE b.kind = "dma" /\ b.size = request.size /\
            \E k \in DOMAIN request.formats :
              LET f == request.formats[k]
              IN /\ f.format = b.format
                 /\ f.mods = {} \/ (f.implicit /\ b.mod = 0) \/ b.mod \in f.mods
  <2>1. PICK k \in DOMAIN request.formats :
                 /\ request.formats[k].format = b.format
                 /\ \/ request.formats[k].mods = {} \/ b.mod \in request.formats[k].mods
                    \/ request.formats[k].implicit /\ b.mod = 0
    BY <1>2
  <2> QED BY <1>2, <2>1 DEF Fits
<1> QED BY <1>1, <1>2 DEF Compatible

\* An import that fails releases what it made, unless it fails to bind the memory.
LEMMA ReleasesAll ==
  ASSUME NEW k \in DOMAIN ImportSteps, NEW stop, stop = ImportSteps[k], stop # "bind"
  PROVE  Made(stop) \ Released(stop) = IF stop = "done" THEN {"image", "memory"} ELSE {}
<1>1. k \in 1 .. 8
  BY DEF ImportSteps
<1>2. \A r \in {"image", "memory", "descriptor"} :
        Before(r, stop) <=> k > (IF r = "image" THEN 2 ELSE IF r = "descriptor" THEN 3 ELSE 6)
  BY <1>1 DEF Before, ImportSteps
<1> QED BY <1>1, <1>2 DEF Made, Released, ImportSteps

BufInv ==
  /\ DOMAIN slots = {1, 2} /\ fellBack \in BOOLEAN
  /\ BuffersFit

LEMMA InitBufInv == BufInit => BufInv
<1> SUFFICES ASSUME BufInit PROVE BufInv
  OBVIOUS
<1>1. LentFits
  BY DEF BufInit, LentFits, NoBuffer
<1>2. DOMAIN slots = {1, 2} /\ slots[1].kind = "none" /\ slots[2].kind = "none"
  <2>1. slots = <<NoBuffer, NoBuffer>> /\ NoBuffer.kind = "none"
    BY DEF BufInit, NoBuffer
  <2>2. DOMAIN slots = 1 .. 2 /\ slots[1] = NoBuffer /\ slots[2] = NoBuffer
    BY <2>1
  <2> QED BY <2>1, <2>2
<1>3. gbmDevices = {} /\ fellBack = FALSE
  BY DEF BufInit
<1>4. DevicesLive
  BY <1>2, <1>3 DEF DevicesLive
<1>5. ReadyAnnounced /\ ImportsClean
  BY DEF BufInit, ReadyAnnounced, ImportsClean
<1> QED BY <1>1, <1>2, <1>3, <1>4, <1>5 DEF BufInv, BuffersFit

LEMMA CreateBackBufferOK ==
  ASSUME BufInv, NEW r \in Requests, CreateBackBuffer(r) PROVE BufInv'
<1>1. PICK b \in IF Compatible(slots[BackSlot], r) THEN {slots[BackSlot]} ELSE BuffersFor(r) :
        /\ slots' = [slots EXCEPT ![BackSlot] = b]
        /\ gbmDevices' = LiveDevices(IF b.kind = "dma" THEN gbmDevices \cup {b.gbm}
                                     ELSE gbmDevices, slots')
        /\ lent' = [buffer |-> b, of |-> r]
  BY DEF CreateBackBuffer
<1>2. Fits(b, r)
  BY BuffersForFit, CompatibleFits
<1>3. LentFits'
  BY <1>1, <1>2 DEF Fits, LentFits, Range
<1>4. DevicesLive'
  <2>1. BackSlot \in {1, 2} /\ DOMAIN slots = {1, 2} /\ DevicesLive
    BY DEF BackSlot, BufInv, BuffersFit
  <2>2. /\ DOMAIN slots' = {1, 2} /\ slots'[BackSlot] = b
        /\ \A k \in {1, 2} : k # BackSlot => slots'[k] = slots[k]
    BY <1>1, <2>1
  <2>3. \A k \in {1, 2} : slots'[k].kind = "dma" =>
          slots'[k].gbm \in IF b.kind = "dma" THEN gbmDevices \cup {b.gbm} ELSE gbmDevices
    BY <2>1, <2>2 DEF DevicesLive
  <2> QED BY <1>1, <2>2, <2>3 DEF DevicesLive, LiveDevices
<1>5. (ReadyAnnounced /\ ImportsClean)'
  BY DEF BufInv, BuffersFit, CreateBackBuffer, ReadyAnnounced, ImportsClean, initVars
<1> QED BY <1>1, <1>3, <1>4, <1>5 DEF BufInv, BuffersFit, CreateBackBuffer

LEMMA NextBufInv == BufInv /\ [BufNext]_bufVars => BufInv'
<1> SUFFICES ASSUME BufInv, [BufNext]_bufVars PROVE BufInv'
  OBVIOUS
<1> USE DEF BufInv, BuffersFit
<1>1. CASE UNCHANGED bufVars
  BY <1>1 DEF bufVars, initVars, LentFits, DevicesLive, ReadyAnnounced, ImportsClean
<1>2. ASSUME UNCHANGED <<lent, slots, gbmDevices, fellBack, textures>>, ReadyAnnounced' PROVE BufInv'
  BY <1>2 DEF LentFits, DevicesLive, ImportsClean
<1>3. ASSUME NEW r \in Renderers, RenderFormats(r), UNCHANGED dmabufReady PROVE ReadyAnnounced'
  BY <1>3 DEF RenderFormats, ReadyAnnounced
<1>4. ASSUME NoRenderFormats, UNCHANGED dmabufReady PROVE ReadyAnnounced'
  BY <1>4 DEF NoRenderFormats, ReadyAnnounced
<1>5. ASSUME NEW w \in BufWindows, InitWindow(w) PROVE BufInv'
  BY <1>2, <1>3, <1>4, <1>5 DEF InitWindow
<1>6. ASSUME NEW w \in BufWindows, WindowExposed(w) PROVE BufInv'
  BY <1>2, <1>3, <1>4, <1>6 DEF WindowExposed
<1>7. ASSUME NEW w \in BufWindows, WindowGone(w) PROVE BufInv'
  BY <1>2, <1>4, <1>7 DEF WindowGone
<1>8. ASSUME NEW f \in Feedbacks, FeedbackDone(f) PROVE BufInv'
  <2>1. ReadyAnnounced'
    BY <1>8 DEF FeedbackDone, ReadyAnnounced
  <2> QED BY <1>2, <1>8, <2>1 DEF FeedbackDone
<1>9. CASE SwapBuffers
  BY <1>9 DEF SwapBuffers, initVars, LentFits, DevicesLive, ReadyAnnounced, ImportsClean
<1>10. ASSUME NEW k \in DOMAIN ImportSteps, ImportTexture(ImportSteps[k]) PROVE BufInv'
  <2>1. ImportsClean'
    BY <1>10, ReleasesAll DEF ImportTexture, ImportsClean
  <2>2. UNCHANGED <<lent, slots, gbmDevices, fellBack, readyTold, renderReady, dmabufReady>>
    BY <1>10 DEF ImportTexture, initVars
  <2> QED BY <2>1, <2>2 DEF LentFits, DevicesLive, ReadyAnnounced
<1> QED BY <1>1, <1>5, <1>6, <1>7, <1>8, <1>9, <1>10, CreateBackBufferOK DEF BufNext

\* No capture gets a buffer it did not ask for, the list of GBM devices holds those in use
\* and no dead one, ready() has been emitted when the manager is ready, and a failed import
\* leaves nothing behind unless it fails to bind: for all feedbacks, renderers and requests.
THEOREM BuffersAlwaysFit == BufSpec => []BuffersFit
<1>1. BufInv => BuffersFit
  BY DEF BufInv
<1> QED BY <1>1, InitBufInv, NextBufInv, PTL DEF BufSpec

-----------------------------------------------------------------------------
(* The list of open windows.  A window is at one stage of the way to its   *)
(* address at most, an open one has not left it, and what takes a closed   *)
(* one out is behind whatever brings it in; a line that tells a window's    *)
(* workspace, or the focus, wrongly has one that tells it right behind it. *)

Stages(w) == {Msg("wlr", w), Msg("address", w)}
Given(w) == {Msg("address", w)}
ExtStages(w) == {Msg("ext", w), Msg("extAddress", w)}
ExtGiven(w) == {Msg("extAddress", w)}
Ends(w) == {Msg("closed", w), Msg("extClosed", w)}
End(w) == {Msg("closed", w)}

\* Lines that put w on one of the workspaces S, and lines that focus one of W.
Puts(w, S) == {Line(k, w, s) : k \in {"openwindow", "movewindowv2"}, s \in S}
Focuses(W) == {Line("activewindowv2", w, 0) : w \in W}

TopMsgs == {Msg(k, w) : k \in {"wlr", "ext", "address", "extAddress", "closed", "extClosed"},
                        w \in Windows}
TopAsks == {Msg(k, w) : k \in {"address", "extAddress"}, w \in Windows}
TopLines == {Line(k, w, s) : k \in {"openwindow", "movewindowv2"}, w \in Windows, s \in Spaces}
              \cup Focuses(Windows \cup {NoWindow})

TopTypeOK ==
  /\ home \in [Windows -> Spaces \cup {0}] /\ focused \in Windows \cup {NoWindow}
  /\ topEvents \in Seq(TopLines) /\ wlQueue \in Seq(TopMsgs) /\ mapAsks \in Seq(TopAsks)
  /\ DOMAIN wid = Windows /\ DOMAIN leftover = Windows /\ announced \in Seq(Windows)

OnTheWay(w) == Holds(wlQueue, Stages(w))
AddressAsked(w) == Holds(mapAsks, Given(w))

OneStage(w) ==
  /\ Single(wlQueue, Stages(w)) /\ Single(mapAsks, Given(w))
  /\ ~(OnTheWay(w) /\ AddressAsked(w)) /\ ~(OnTheWay(w) /\ w \in addresses)
  /\ ~(AddressAsked(w) /\ w \in addresses)
  /\ AddressAsked(w) \/ Holds(wlQueue, Given(w)) \/ w \in addresses => w \in instances

OpenKept(w) ==
  w \in Open => /\ OnTheWay(w) \/ AddressAsked(w) \/ w \in addresses
                /\ \/ Holds(wlQueue, ExtStages(w)) \/ Holds(mapAsks, ExtGiven(w))
                   \/ w \in extWaiting \cup extOf
                /\ ~Holds(wlQueue, Ends(w))

ClosedLeaves(w) ==
  w \notin Open => /\ Mended(wlQueue, Given(w), End(w))
                   /\ w \in addresses => Holds(wlQueue, End(w))

WindowSound(w) == OneStage(w) /\ OpenKept(w) /\ ClosedLeaves(w)

InPlace(w) == IF w \in addresses THEN wid[w] = home[w]
                                 ELSE w \in DOMAIN opening /\ opening[w] = home[w]
PlaceTold(w) ==
  w \in Open /\ w \notin addresses \cap Garbled
    => /\ Mended(topEvents, Puts(w, Spaces \ {home[w]}), Puts(w, {home[w]}))
       /\ Holds(topEvents, Puts(w, Spaces)) \/ w \in outrun \/ InPlace(w)

FocusTold ==
  /\ Mended(topEvents, Focuses(Windows \ {focused}), Focuses({focused} \ {NoWindow}))
  /\ Holds(topEvents, Focuses(Windows)) \/ activeTop \in {NoWindow, focused}

HandlesSound ==
  /\ Ready = addresses \ Garbled /\ extWaiting \cap addresses = {}
  /\ DOMAIN opening \cap addresses \subseteq Garbled
  /\ Ready \cap following \cap extOf \subseteq extSeen

ListsSound ==
  /\ IsInjective(announced) /\ items = Filtered(announced, search)
  /\ ToSet(items) \subseteq itemsSeen

TopInv ==
  /\ TopTypeOK /\ HandlesSound /\ ListsSound /\ FocusTold
  /\ \A w \in Windows : WindowSound(w) /\ PlaceTold(w)

\* The filtered list is the one list of what matches, in the order of the full one.
LEMMA Filters ==
  ASSUME NEW M, NEW list \in Seq(M), IsInjective(list), NEW q
  PROVE  Enlists(Filtered(list, q), ToSet(list) \cap q, OrderOf(list))
<1> DEFINE S == ToSet(list) \cap q
           c == Cardinality(S)
<1>1. IsFiniteSet(S) /\ Orders(OrderOf(list), S)
  <2>1. IsFiniteSet(ToSet(list)) /\ Orders(OrderOf(list), ToSet(list))
    BY ListOrders
  <2> QED BY <2>1, FS_Subset DEF Orders
<1>2. ASSUME NEW r \in [1 .. c -> S]
      PROVE  InOrder(r, OrderOf(list)) <=>
               \A i, j \in DOMAIN r : i < j =>
                 \E k, l \in DOMAIN list : k < l /\ list[k] = r[i] /\ list[l] = r[j]
  <2>1. \A i \in DOMAIN r : r[i] \in ToSet(list)
    OBVIOUS
  <2>2. \A a, b \in ToSet(list) :
          <<a, b>> \in OrderOf(list) <=> \E k, l \in DOMAIN list : k < l /\ list[k] = a /\ list[l] = b
    BY DEF OrderOf
  <2>3. ASSUME NEW i \in DOMAIN r, NEW j \in DOMAIN r
        PROVE  <<r[i], r[j]>> \in OrderOf(list)
                 <=> \E k, l \in DOMAIN list : k < l /\ list[k] = r[i] /\ list[l] = r[j]
    <3>1. r[i] \in ToSet(list) /\ r[j] \in ToSet(list)
      BY <2>1
    <3> QED BY <2>2, <3>1, Zenon
  <2> QED BY <2>3 DEF InOrder
<1>3. PICK r \in [1 .. c -> S] : InOrder(r, OrderOf(list))
  BY <1>1, OrderExists
<1>4. /\ Filtered(list, q) \in [1 .. c -> S]
      /\ InOrder(Filtered(list, q), OrderOf(list))
  <2> DEFINE Kept(x) == \A i, j \in DOMAIN x : i < j =>
                           \E k, l \in DOMAIN list : k < l /\ list[k] = x[i] /\ list[l] = x[j]
  <2>1. Kept(r)
    BY <1>2, <1>3
  <2>2. Filtered(list, q) = CHOOSE x \in [1 .. c -> S] : Kept(x)
    BY DEF Filtered
  <2> HIDE DEF Kept
  <2>3. Filtered(list, q) \in [1 .. c -> S] /\ Kept(Filtered(list, q))
    BY <2>1, <2>2
  <2>4. ASSUME NEW x \in [1 .. c -> S], Kept(x) PROVE InOrder(x, OrderOf(list))
    BY <1>2, <2>4 DEF Kept
  <2> QED BY <2>3, <2>4
<1> QED BY <1>1, <1>4, ListsAll

LEMMA FiltersOnly ==
  ASSUME NEW M, NEW list \in Seq(M), IsInjective(list), NEW q,
         NEW r, Enlists(r, ToSet(list) \cap q, OrderOf(list))
  PROVE  r = Filtered(list, q)
<1> DEFINE S == ToSet(list) \cap q
<1>1. IsFiniteSet(S) /\ Orders(OrderOf(list), S)
  <2>1. IsFiniteSet(ToSet(list)) /\ Orders(OrderOf(list), ToSet(list))
    BY ListOrders
  <2> QED BY <2>1, FS_Subset DEF Orders
<1>2. Enlists(Filtered(list, q), S, OrderOf(list))
  BY Filters
<1> HIDE DEF S
<1>3. Filtered(list, q) \in [1 .. Cardinality(S) -> S] /\ InOrder(Filtered(list, q), OrderOf(list))
  BY <1>1, <1>2, ListsOnly DEF Enlists
<1> QED BY <1>1, <1>3, ListsOnly DEF S

\* A window leaves both lists, or goes to the front of both.
LEMMA BothLeft ==
  ASSUME NEW M, NEW list \in Seq(M), IsInjective(list), NEW q, NEW w
  PROVE  RemoveFirst(Filtered(list, q), w) = Filtered(RemoveFirst(list, w), q)
<1> DEFINE S == ToSet(list) \cap q
           new == RemoveFirst(list, w)
<1>1. Orders(OrderOf(list), S) /\ Enlists(Filtered(list, q), S, OrderOf(list))
  BY ListOrders, Filters DEF Orders
<1>2. /\ new \in Seq(M) /\ IsInjective(new) /\ ToSet(new) = ToSet(list) \ {w}
      /\ \A b, c \in ToSet(list) \ {w} : <<b, c>> \in OrderOf(list) <=> <<b, c>> \in OrderOf(new)
  BY TakeOut
<1>3. S \ {w} = ToSet(new) \cap q /\ S \ {w} \subseteq ToSet(list) \ {w}
  BY <1>2
<1> HIDE DEF S, new
<1>4. Enlists(RemoveFirst(Filtered(list, q), w), S \ {w}, OrderOf(list))
  BY <1>1, ListsTaken
<1>5. Enlists(RemoveFirst(Filtered(list, q), w), S \ {w}, OrderOf(new))
  <2>1. \A b, c \in S \ {w} : <<b, c>> \in OrderOf(list) => <<b, c>> \in OrderOf(new)
    BY <1>2, <1>3
  <2> QED BY <1>4, <2>1, ListsAlike
<1>6. RemoveFirst(Filtered(list, q), w) = Filtered(new, q)
  BY <1>2, <1>3, <1>5, FiltersOnly
<1> QED BY <1>6 DEF new

LEMMA HasIt ==
  ASSUME NEW M, NEW list \in Seq(M), NEW w
  PROVE  Contains(list, w) <=> w \in ToSet(list)
<1>1. DOMAIN list = 1 .. Len(list)
  BY LenProperties
<1> QED BY <1>1 DEF Contains, ToSet

LEMMA BothFronted ==
  ASSUME NEW M, NEW list \in Seq(M), IsInjective(list), NEW q, NEW w \in ToSet(list)
  PROVE  /\ ToFront(list, w) \in Seq(M) /\ IsInjective(ToFront(list, w))
         /\ ToSet(ToFront(list, w)) = ToSet(list)
         /\ ToFront(Filtered(list, q), w) = Filtered(ToFront(list, w), q)
<1> DEFINE S == ToSet(list) \cap q
           rest == RemoveFirst(list, w)
           new == InsertAt(rest, 1, w)
           shown == Filtered(list, q)
<1>1. ToFront(list, w) = new /\ w \in M
  <2>1. w \in M
    BY ElementOfSeq DEF ToSet
  <2> QED BY <2>1, HasIt DEF ToFront
<1>2. Orders(OrderOf(list), S) /\ Enlists(shown, S, OrderOf(list))
  BY ListOrders, Filters DEF Orders
<1>3. /\ rest \in Seq(M) /\ IsInjective(rest) /\ ToSet(rest) = ToSet(list) \ {w}
      /\ \A b, c \in ToSet(list) \ {w} : <<b, c>> \in OrderOf(list) <=> <<b, c>> \in OrderOf(rest)
  BY TakeOut
<1> HIDE DEF rest, new, shown
<1>4. /\ new \in Seq(M) /\ IsInjective(new) /\ ToSet(new) = ToSet(rest) \cup {w}
      /\ \A b \in ToSet(rest) : <<w, b>> \in OrderOf(new)
      /\ \A b, c \in ToSet(rest) : <<b, c>> \in OrderOf(rest) => <<b, c>> \in OrderOf(new)
  <2>1. w \notin ToSet(rest)
    BY <1>3
  <2> QED BY <1>1, <1>3, <2>1, PutFirst DEF new
<1>5. ToSet(new) = ToSet(list)
  BY <1>3, <1>4
<1>6. ToFront(shown, w) = Filtered(new, q)
  <2>1. shown \in Seq(S) /\ ToSet(shown) = S
    BY <1>2, SameOrder DEF Enlists
  <2>2. CASE w \notin q
    <3>1. ToFront(shown, w) = shown
      BY <2>1, <2>2, HasIt DEF ToFront
    <3>2. \A b, c \in S : <<b, c>> \in OrderOf(list) => <<b, c>> \in OrderOf(new)
      BY <1>3, <1>4, <2>2
    <3>3. Enlists(shown, S, OrderOf(new))
      <4> HIDE DEF S
      <4> QED BY <1>2, <3>2, ListsAlike
    <3>4. shown = Filtered(new, q)
      BY <1>4, <1>5, <3>3, FiltersOnly
    <3> QED BY <3>1, <3>4
  <2>3. CASE w \in q
    <3> DEFINE others == RemoveFirst(shown, w)
               T == S \ {w}
    <3>1. ToFront(shown, w) = InsertAt(others, 1, w)
      BY <2>1, <2>3, HasIt DEF ToFront
    <3>2. Enlists(others, T, OrderOf(list))
      <4> HIDE DEF S
      <4> QED BY <1>2, ListsTaken
    <3>3. \A b, c \in T : <<b, c>> \in OrderOf(list) => <<b, c>> \in OrderOf(new)
      BY <1>3, <1>4
    <3>4. \A b \in T : <<w, b>> \in OrderOf(new)
      BY <1>3, <1>4
    <3>5. Orders(OrderOf(new), S)
      BY <1>4, <1>5, ListOrders DEF Orders
    <3>6. T \in SUBSET S /\ w \in S \ T /\ T \cup {w} = S
      BY <2>3
    <3> HIDE DEF others, T
    <3>7. Enlists(others, T, OrderOf(new))
      BY <3>2, <3>3, ListsAlike
    <3>8. others \in Seq(T) /\ Len(others) \in Nat
      BY <3>7, LenProperties DEF Enlists
    <3>9. \A j \in DOMAIN others : IF j < 1 THEN <<others[j], w>> \in OrderOf(new) ELSE <<w, others[j]>> \in OrderOf(new)
      <4>1. ASSUME NEW j \in DOMAIN others PROVE ~(j < 1) /\ others[j] \in T
        BY <3>8, LenProperties, ElementOfSeq
      <4> QED BY <3>4, <4>1
    <3>10. 1 \in 1 .. Len(others) + 1
      BY <3>8
    <3> HIDE DEF S
    <3>11. Enlists(InsertAt(others, 1, w), S, OrderOf(new))
      BY <3>5, <3>6, <3>7, <3>9, <3>10, ListsPut
    <3>12. InsertAt(others, 1, w) = Filtered(new, q)
      BY <1>4, <1>5, <3>11, FiltersOnly DEF S
    <3> QED BY <3>1, <3>12
  <2> QED BY <2>2, <2>3
<1> QED BY <1>1, <1>4, <1>5, <1>6 DEF shown

ForWindow(w) == {Stages(w), Given(w), ExtStages(w), ExtGiven(w), Ends(w), End(w)}

\* For w the queue r has what q has.
KeptFor(q, r, w) ==
  /\ Single(q, Stages(w)) => Single(r, Stages(w))
  /\ Single(q, Given(w)) => Single(r, Given(w))
  /\ Mended(q, Given(w), End(w)) => Mended(r, Given(w), End(w))
  /\ \A B \in ForWindow(w) :
       Holds(q, B) <=> Holds(r, B)

\* What concerns another window, put on a queue or taken from one.
LEMMA OthersMsgs ==
  ASSUME NEW q \in Seq(TopMsgs), NEW w
  PROVE  /\ \A m \in TopMsgs : m.win # w => KeptFor(q, Append(q, m), w)
         /\ q # <<>> /\ Head(q).win # w => KeptFor(q, Tail(q), w)
<1>1. \A B \in ForWindow(w) : \A m \in B : m.win = w
  BY DEF ForWindow, Stages, Given, ExtStages, ExtGiven, Ends, End, Msg
<1> Stages(w) \in ForWindow(w) /\ Given(w) \in ForWindow(w)
  BY DEF ForWindow
<1>2. ASSUME NEW m \in TopMsgs, m.win # w PROVE KeptFor(q, Append(q, m), w)
  <2>1. \A B \in ForWindow(w) : m \notin B
    BY <1>1, <1>2
  <2>2. ASSUME NEW B, m \notin B
        PROVE  /\ Holds(q, B) <=> Holds(Append(q, m), B)
               /\ Single(q, B) => Single(Append(q, m), B)
    BY <2>2, PutSingle
  <2>3. Mended(q, Given(w), End(w)) => Mended(Append(q, m), Given(w), End(w))
    BY <2>1, PutOne
  <2> QED BY <2>1, <2>2, <2>3 DEF KeptFor
<1>3. ASSUME q # <<>>, Head(q).win # w PROVE KeptFor(q, Tail(q), w)
  <2>1. \A B \in ForWindow(w) : Head(q) \notin B
    BY <1>1, <1>3
  <2>2. ASSUME NEW B, Head(q) \notin B
        PROVE  (Holds(q, B) <=> Holds(Tail(q), B)) /\ (Single(q, B) => Single(Tail(q), B))
    BY <1>3, <2>2, TakeSingle
  <2>3. Mended(q, Given(w), End(w)) => Mended(Tail(q), Given(w), End(w))
    BY <1>3, TakeOne
  <2> QED BY <2>1, <2>2, <2>3 DEF KeptFor
<1> QED BY <1>2, <1>3

LEMMA KeptOn == ASSUME NEW q, NEW r, NEW t, NEW w, KeptFor(q, r, w), KeptFor(r, t, w) PROVE KeptFor(q, t, w)
BY DEF KeptFor

LEMMA KeptSame == ASSUME NEW q, NEW w PROVE KeptFor(q, q, w)
BY DEF KeptFor

LEMMA WindowKept ==
  ASSUME NEW w, WindowSound(w), KeptFor(wlQueue, wlQueue', w), KeptFor(mapAsks, mapAsks', w),
         w \in Open' <=> w \in Open, w \in addresses' <=> w \in addresses,
         w \in instances => w \in instances',
         w \in extWaiting \cup extOf => w \in (extWaiting \cup extOf)'
  PROVE  WindowSound(w)'
<1>1. ASSUME NEW q, NEW r, KeptFor(q, r, w)
      PROVE  /\ Holds(q, Stages(w)) <=> Holds(r, Stages(w))
             /\ Holds(q, Given(w)) <=> Holds(r, Given(w))
             /\ Holds(q, ExtStages(w)) <=> Holds(r, ExtStages(w))
             /\ Holds(q, ExtGiven(w)) <=> Holds(r, ExtGiven(w))
             /\ Holds(q, Ends(w)) <=> Holds(r, Ends(w))
             /\ Holds(q, End(w)) <=> Holds(r, End(w))
  BY <1>1 DEF KeptFor, ForWindow
<1>2. OneStage(w)'
  BY <1>1 DEF KeptFor, WindowSound, OneStage, OnTheWay, AddressAsked
<1>3. OpenKept(w)'
  BY <1>1 DEF WindowSound, OpenKept, OnTheWay, AddressAsked
<1>4. ClosedLeaves(w)'
  BY <1>1 DEF KeptFor, WindowSound, ClosedLeaves
<1> QED BY <1>2, <1>3, <1>4 DEF WindowSound

LEMMA TwoPut ==
  ASSUME NEW M, NEW q \in Seq(M), NEW a \in M, NEW b \in M
  PROVE  q \o <<a, b>> = Append(Append(q, a), b) /\ Append(q, a) \in Seq(M) /\ q \o <<a, b>> \in Seq(M)
OBVIOUS

\* A message, a request and a line are what they are, and of one window.
LEMMA MsgSound ==
  /\ TopAsks \subseteq TopMsgs
  /\ \A k \in {"wlr", "ext", "address", "extAddress", "closed", "extClosed"}, w \in Windows :
       Msg(k, w) \in TopMsgs /\ Msg(k, w).win = w /\ Msg(k, w).kind = k
  /\ \A m \in TopMsgs : m.win \in Windows /\ m = Msg(m.kind, m.win)
  /\ \A m \in TopAsks : m.kind \in {"address", "extAddress"}
<1>1. \A m \in TopMsgs : m.win \in Windows /\ m = Msg(m.kind, m.win)
  BY DEF TopMsgs, Msg
<1>2. \A m \in TopAsks : m.kind \in {"address", "extAddress"}
  BY DEF TopAsks, Msg
<1>3. \A k \in {"wlr", "ext", "address", "extAddress", "closed", "extClosed"}, w \in Windows :
        Msg(k, w) \in TopMsgs /\ Msg(k, w).win = w /\ Msg(k, w).kind = k
  BY DEF TopMsgs, Msg
<1>4. TopAsks \subseteq TopMsgs
  BY DEF TopAsks, TopMsgs
<1> QED BY <1>1, <1>2, <1>3, <1>4

WindowsSound == \A w \in Windows : WindowSound(w)

LEMMA OpenInit == TopInit => TopTypeOK /\ WindowsSound
<1> SUFFICES ASSUME TopInit PROVE TopTypeOK /\ WindowsSound
  OBVIOUS
<1>1. \A B : ~Holds(<<>>, B) /\ Single(<<>>, B)
  BY DEF Holds, Single
<1>2. TopTypeOK
  BY DEF TopInit, TopTypeOK
<1>3. WindowsSound
  <2> SUFFICES ASSUME NEW w \in Windows PROVE WindowSound(w)
    BY DEF WindowsSound
  <2>1. w \notin Open /\ w \notin addresses /\ wlQueue = <<>> /\ mapAsks = <<>>
    BY DEF TopInit, Open
  <2>2. Mended(<<>>, Given(w), End(w))
    BY DEF Mended
  <2> QED BY <1>1, <2>1, <2>2 DEF WindowSound, OneStage, OpenKept, ClosedLeaves, OnTheWay, AddressAsked
<1> QED BY <1>2, <1>3

LEMMA OpensSound ==
  ASSUME TopTypeOK, WindowsSound, NEW w \in Windows, NEW s \in Spaces, WindowOpens(w, s)
  PROVE  WindowsSound'
<1>1. PICK a \in {Msg("wlr", w)}, b \in {Msg("ext", w)} : wlQueue' \in {wlQueue \o <<a, b>>, wlQueue \o <<b, a>>}
  BY DEF WindowOpens
<1>2. a \in TopMsgs /\ b \in TopMsgs /\ a.win = w /\ b.win = w
  BY <1>1, MsgSound
<1>3. PICK x \in {a, b}, y \in {a, b} :
        /\ wlQueue' = Append(Append(wlQueue, x), y) /\ Append(wlQueue, x) \in Seq(TopMsgs)
        /\ {x, y} = {a, b} /\ x \in TopMsgs /\ y \in TopMsgs
  <2>1. CASE wlQueue' = wlQueue \o <<a, b>>
    BY <1>2, <2>1, TwoPut DEF TopTypeOK
  <2>2. CASE wlQueue' = wlQueue \o <<b, a>>
    BY <1>2, <2>2, TwoPut DEF TopTypeOK
  <2> QED BY <1>1, <2>1, <2>2
<1> SUFFICES ASSUME NEW v \in Windows PROVE WindowSound(v)'
  BY DEF WindowsSound
<1>4. CASE v # w
  <2>1. KeptFor(wlQueue, wlQueue', v)
    <3>1. KeptFor(wlQueue, Append(wlQueue, x), v) /\ KeptFor(Append(wlQueue, x), wlQueue', v)
      BY <1>2, <1>3, <1>4, OthersMsgs DEF TopTypeOK
    <3> QED BY <3>1, KeptOn
  <2>2. /\ v \in Open' <=> v \in Open
        /\ UNCHANGED <<mapAsks, addresses, instances, extWaiting, extOf>>
    BY <1>4 DEF WindowOpens, Open, TopTypeOK, shellTops, mappingVars, listVars
  <2> QED BY <2>1, <2>2, KeptSame, WindowKept DEF WindowsSound
<1>5. CASE v = w
  <2>1. ~Holds(wlQueue, Stages(w)) /\ ~Holds(wlQueue, Given(w)) /\ ~Holds(wlQueue, Ends(w))
    BY DEF WindowOpens, Holds, Stages, Given, Ends, Msg
  <2>2. ~AddressAsked(w) /\ w \notin addresses
    BY DEF WindowOpens, WindowsSound, WindowSound, OneStage
  <2>3. Single(wlQueue, Stages(w)) /\ Single(mapAsks, Given(w))
    BY DEF WindowsSound, WindowSound, OneStage
  <2>4. /\ w \in Open'
        /\ UNCHANGED <<mapAsks, addresses, instances, extWaiting, extOf>>
    BY TopAssumption DEF WindowOpens, Open, TopTypeOK, shellTops, mappingVars, listVars
  <2>5. \A B : Holds(wlQueue', B) <=> Holds(wlQueue, B) \/ a \in B \/ b \in B
    <3>1. ASSUME NEW B PROVE Holds(wlQueue', B) <=> Holds(wlQueue, B) \/ x \in B \/ y \in B
      <4> DEFINE q == Append(wlQueue, x)
      <4>1. Holds(q, B) <=> Holds(wlQueue, B) \/ x \in B
        BY <1>3, PutSingle DEF TopTypeOK
      <4>2. wlQueue' = Append(q, y) /\ q \in Seq(TopMsgs) /\ y \in TopMsgs
        BY <1>3
      <4> HIDE DEF q
      <4>3. Holds(Append(q, y), B) <=> Holds(q, B) \/ y \in B
        BY <4>2, PutSingle
      <4> QED BY <4>1, <4>2, <4>3
    <3> QED BY <1>3, <3>1
  <2>6. /\ a \in Stages(w) /\ b \notin Stages(w) /\ b \in ExtStages(w)
        /\ a \notin Given(w) /\ b \notin Given(w) /\ a \notin Ends(w) /\ b \notin Ends(w)
    BY <1>1 DEF Stages, ExtStages, Given, Ends, Msg
  <2>7. Single(wlQueue', Stages(w))
    <3>1. x \notin Stages(w) \/ y \notin Stages(w)
      BY <1>3, <2>6
    <3> DEFINE q == Append(wlQueue, x)
               B == Stages(w)
    <3>2. Single(q, B)
      BY <1>2, <1>3, <2>1, <2>3, PutSingle DEF TopTypeOK
    <3>3. Holds(q, B) <=> x \in B
      BY <1>2, <1>3, <2>1, PutSingle DEF TopTypeOK
    <3>4. wlQueue' = Append(q, y) /\ q \in Seq(TopMsgs) /\ y \in TopMsgs
      BY <1>3
    <3> HIDE DEF q, B
    <3>5. Single(Append(q, y), B)
      BY <3>1, <3>2, <3>3, <3>4, PutSingle DEF B
    <3> QED BY <3>4, <3>5 DEF B
  <2> QED BY <1>5, <2>1, <2>2, <2>3, <2>4, <2>5, <2>6, <2>7
          DEF WindowSound, OneStage, OpenKept, ClosedLeaves, OnTheWay, AddressAsked
<1> QED BY <1>4, <1>5

LEMMA ClosesSound ==
  ASSUME TopTypeOK, WindowsSound, NEW w \in Windows, WindowCloses(w)
  PROVE  WindowsSound'
<1> DEFINE a == Msg("extClosed", w)
           b == Msg("closed", w)
           q == Append(wlQueue, a)
<1>1. a \in TopMsgs /\ b \in TopMsgs /\ a.win = w /\ b.win = w
  BY MsgSound
<1>2. wlQueue' = Append(q, b) /\ q \in Seq(TopMsgs) /\ wlQueue \in Seq(TopMsgs)
  BY <1>1, TwoPut DEF WindowCloses, TopTypeOK
<1>3. UNCHANGED <<mapAsks, addresses, instances, extWaiting, extOf>>
  BY DEF WindowCloses, shellTops, mappingVars, listVars
<1> SUFFICES ASSUME NEW v \in Windows PROVE WindowSound(v)'
  BY DEF WindowsSound
<1>4. CASE v # w
  <2> HIDE DEF q
  <2>1. KeptFor(wlQueue, wlQueue', v)
    <3>1. KeptFor(wlQueue, q, v) /\ KeptFor(q, wlQueue', v)
      BY <1>1, <1>2, <1>4, OthersMsgs DEF q
    <3> QED BY <3>1, KeptOn
  <2>2. v \in Open' <=> v \in Open
    BY <1>4 DEF WindowCloses, Open, TopTypeOK
  <2> QED BY <1>3, <2>1, <2>2, KeptSame, WindowKept DEF WindowsSound
<1>5. CASE v = w
  <2>1. w \notin Open'
    BY DEF WindowCloses, Open, TopTypeOK
  <2>2. /\ a \notin Stages(w) /\ b \notin Stages(w) /\ a \notin Given(w) /\ b \notin Given(w) /\ b \in End(w)
    BY DEF Stages, Given, End, Msg
  <2> HIDE DEF a, b, q
  <2>3. \A B : a \notin B /\ b \notin B => Holds(wlQueue', B) <=> Holds(wlQueue, B)
    <3>1. ASSUME NEW B, a \notin B, b \notin B PROVE Holds(wlQueue', B) <=> Holds(wlQueue, B)
      BY <1>1, <1>2, <3>1, PutSingle DEF q
    <3> QED BY <3>1
  <2>4. Single(wlQueue', Stages(w))
    <3>1. Single(q, Stages(w))
      BY <1>1, <1>2, <2>2, PutSingle DEF q, WindowsSound, WindowSound, OneStage
    <3> QED BY <1>1, <1>2, <2>2, <3>1, PutSingle
  <2>5. Mended(wlQueue', Given(w), End(w)) /\ Holds(wlQueue', End(w))
    BY <1>1, <1>2, <2>2, PutOne
  <2> QED BY <1>3, <1>5, <2>1, <2>2, <2>3, <2>4, <2>5
          DEF WindowsSound, WindowSound, OneStage, OpenKept, ClosedLeaves, OnTheWay, AddressAsked
<1> QED BY <1>4, <1>5

\* What comes next on a queue.
LEMMA HeadOf ==
  ASSUME NEW M, NEW q \in Seq(M), q # <<>>
  PROVE  Head(q) \in M /\ Tail(q) \in Seq(M)
OBVIOUS

LEMMA KindOf ==
  ASSUME NEW k, NEW w, NEW l, NEW v
  PROVE  Msg(k, w) = Msg(l, v) <=> k = l /\ w = v
BY DEF Msg

LEMMA MapSound ==
  ASSUME TopTypeOK, WindowsSound, MapAnswered
  PROVE  WindowsSound'
<1> PICK ask \in TopAsks : ask = Head(mapAsks)
  BY HeadOf DEF MapAnswered, TopTypeOK
<1> DEFINE w == ask.win
<1>1. mapAsks # <<>> /\ mapAsks \in Seq(TopAsks) /\ mapAsks \in Seq(TopMsgs) /\ wlQueue \in Seq(TopMsgs)
      /\ mapAsks' = Tail(mapAsks)
  <2>1. mapAsks \in Seq(TopMsgs)
    BY MsgSound, SeqDef DEF TopTypeOK
  <2> QED BY <2>1 DEF MapAnswered, TopTypeOK
<1>2. /\ ask \in TopMsgs /\ w \in Windows /\ ask = Msg(ask.kind, w)
      /\ ask.kind \in {"address", "extAddress"}
  BY MsgSound
<1>3. /\ UNCHANGED <<home, addresses, instances, extWaiting, extOf>>
      /\ w \in Open => wlQueue' = Append(wlQueue, ask)
      /\ w \notin Open => wlQueue' = wlQueue
  BY DEF MapAnswered, shellTops, mappingVars, listVars
<1> HIDE DEF w
<1> SUFFICES ASSUME NEW v \in Windows PROVE WindowSound(v)'
  BY DEF WindowsSound
<1>4. v \in Open' <=> v \in Open
  BY <1>3 DEF Open
<1>5. CASE v # w
  <2>1. KeptFor(mapAsks, mapAsks', v)
    BY <1>1, <1>5, OthersMsgs DEF w
  <2>2. KeptFor(wlQueue, wlQueue', v)
    BY <1>1, <1>2, <1>3, <1>5, OthersMsgs, KeptSame DEF w
  <2> QED BY <1>3, <1>4, <2>1, <2>2, WindowKept DEF WindowsSound
<1>6. CASE v = w
  <2>1. WindowSound(w)
    BY <1>2 DEF WindowsSound
  <2>2. \A B : Holds(mapAsks, B) <=> ask \in B \/ Holds(mapAsks', B)
    <3>1. ASSUME NEW B PROVE Holds(mapAsks, B) <=> ask \in B \/ Holds(mapAsks', B)
      BY <1>1, TakeSingle
    <3> QED BY <3>1
  <2>3. Single(mapAsks', Given(w)) /\ (ask \in Given(w) => ~Holds(mapAsks', Given(w)))
    BY <1>1, <2>1, TakeSingle DEF WindowSound, OneStage
  <2>4. CASE w \notin Open
    BY <1>3, <1>4, <1>6, <2>1, <2>2, <2>3, <2>4
       DEF WindowSound, OneStage, OpenKept, ClosedLeaves, OnTheWay, AddressAsked
  <2>5. CASE w \in Open
    <3>0. wlQueue' = Append(wlQueue, ask)
      BY <1>3, <2>5
    <3>1. \A B : Holds(wlQueue', B) <=> Holds(wlQueue, B) \/ ask \in B
      <4>1. ASSUME NEW B PROVE Holds(Append(wlQueue, ask), B) <=> Holds(wlQueue, B) \/ ask \in B
        BY <1>1, <1>2, PutSingle
      <4> QED BY <3>0, <4>1
    <3>2. ask \notin Ends(w)
      BY <1>2, KindOf DEF Ends
    <3>3. CASE ask.kind = "address"
      <4>1. ask \in Stages(w) /\ ask \in Given(w) /\ ask \notin ExtStages(w) /\ ask \notin ExtGiven(w)
        BY <1>2, <3>3, KindOf DEF Stages, Given, ExtStages, ExtGiven
      <4>2. ~OnTheWay(w) /\ AddressAsked(w)
        BY <2>1, <2>2, <4>1 DEF WindowSound, OneStage, AddressAsked
      <4>3. Single(wlQueue', Stages(w))
        BY <1>1, <1>2, <2>1, <3>0, <4>2, PutSingle DEF WindowSound, OneStage, OnTheWay
      <4> QED BY <1>3, <1>4, <1>6, <2>1, <2>2, <2>3, <2>5, <3>1, <3>2, <4>1, <4>2, <4>3
              DEF WindowSound, OneStage, OpenKept, ClosedLeaves, OnTheWay, AddressAsked
    <3>4. CASE ask.kind = "extAddress"
      <4>1. ask \notin Stages(w) /\ ask \notin Given(w) /\ ask \in ExtStages(w) /\ ask \in ExtGiven(w)
        BY <1>2, <3>4, KindOf DEF Stages, Given, ExtStages, ExtGiven
      <4>2. Single(wlQueue', Stages(w))
        BY <1>1, <1>2, <2>1, <3>0, <4>1, PutSingle DEF WindowSound, OneStage
      <4> QED BY <1>3, <1>4, <1>6, <2>1, <2>2, <2>3, <2>5, <3>1, <3>2, <4>1, <4>2
              DEF WindowSound, OneStage, OpenKept, ClosedLeaves, OnTheWay, AddressAsked
    <3> QED BY <1>2, <3>3, <3>4
  <2> QED BY <2>4, <2>5
<1> QED BY <1>5, <1>6

\* A step that takes a message of w from Wayland leaves the other windows as they were.
LEMMA TakenSound ==
  ASSUME TopTypeOK, WindowsSound, wlQueue # <<>>, wlQueue' = Tail(wlQueue), UNCHANGED home,
         NEW w, w = Head(wlQueue).win,
         \A v \in Windows \ {w} : /\ KeptFor(mapAsks, mapAsks', v)
                                  /\ v \in addresses' <=> v \in addresses
                                  /\ v \in instances => v \in instances'
                                  /\ v \in extWaiting \cup extOf => v \in (extWaiting \cup extOf)',
         w \in Windows => WindowSound(w)'
  PROVE  WindowsSound'
<1> SUFFICES ASSUME NEW v \in Windows, v # w PROVE WindowSound(v)'
  BY DEF WindowsSound
<1>1. KeptFor(wlQueue, wlQueue', v)
  BY OthersMsgs DEF TopTypeOK
<1>2. v \in Open' <=> v \in Open
  BY DEF Open
<1> QED BY <1>1, <1>2, WindowKept DEF WindowsSound

LEMMA HeadWindow ==
  ASSUME TopTypeOK, wlQueue # <<>>
  PROVE  \E w \in Windows : w = Head(wlQueue).win
<1>1. Head(wlQueue) \in TopMsgs
  BY HeadOf DEF TopTypeOK
<1> QED BY <1>1, MsgSound

\* What the message says of its own window.
LEMMA TakenOwn ==
  ASSUME TopTypeOK, WindowsSound, wlQueue # <<>>, NEW w, w = Head(wlQueue).win,
         NEW k, k = Head(wlQueue).kind
  PROVE  /\ w \in Windows /\ Head(wlQueue) = Msg(k, w) /\ WindowSound(w)
         /\ \A B : Holds(wlQueue, B) <=> Msg(k, w) \in B \/ Holds(Tail(wlQueue), B)
         /\ Single(Tail(wlQueue), Stages(w))
         /\ Msg(k, w) \in Stages(w) => ~Holds(Tail(wlQueue), Stages(w))
         /\ w \notin Open => /\ Mended(Tail(wlQueue), Given(w), End(w))
                             /\ Msg(k, w) \in Given(w) => Holds(Tail(wlQueue), End(w))
<1>1. wlQueue \in Seq(TopMsgs) /\ Head(wlQueue) \in TopMsgs
  BY HeadOf DEF TopTypeOK
<1>2. w \in Windows /\ Head(wlQueue) = Msg(k, w)
  BY <1>1, MsgSound
<1>3. WindowSound(w)
  BY <1>2 DEF WindowsSound
<1>4. ASSUME NEW B PROVE Holds(wlQueue, B) <=> Msg(k, w) \in B \/ Holds(Tail(wlQueue), B)
  BY <1>1, <1>2, TakeSingle
<1>5. Single(wlQueue, Stages(w)) /\ (w \notin Open => Mended(wlQueue, Given(w), End(w)))
  BY <1>3 DEF WindowSound, OneStage, ClosedLeaves
<1>6. Single(Tail(wlQueue), Stages(w)) /\ (Msg(k, w) \in Stages(w) => ~Holds(Tail(wlQueue), Stages(w)))
  BY <1>1, <1>2, <1>5, TakeSingle
<1>7. w \notin Open => /\ Mended(Tail(wlQueue), Given(w), End(w))
                       /\ Msg(k, w) \in Given(w) => Holds(Tail(wlQueue), End(w))
  BY <1>1, <1>2, <1>5, TakeOne
<1> QED BY <1>2, <1>3, <1>4, <1>6, <1>7

\* The message of each kind is one of some of the sets.
LEMMA Kinds ==
  ASSUME NEW w
  PROVE  /\ Msg("wlr", w) \in Stages(w) /\ Msg("address", w) \in Stages(w)
         /\ Msg("address", w) \in Given(w) /\ Msg("ext", w) \in ExtStages(w)
         /\ Msg("extAddress", w) \in ExtStages(w) /\ Msg("extAddress", w) \in ExtGiven(w)
         /\ \A k \in {"ext", "extAddress", "closed", "extClosed"} : Msg(k, w) \notin Stages(w)
         /\ \A k \in {"wlr", "ext", "extAddress", "closed", "extClosed"} : Msg(k, w) \notin Given(w)
         /\ \A k \in {"wlr", "address", "closed", "extClosed"} : Msg(k, w) \notin ExtStages(w)
         /\ \A k \in {"wlr", "ext", "address", "closed", "extClosed"} : Msg(k, w) \notin ExtGiven(w)
         /\ \A k \in {"wlr", "ext", "address", "extAddress"} : Msg(k, w) \notin Ends(w)
         /\ \A k \in {"wlr", "ext", "address", "extAddress", "extClosed"} : Msg(k, w) \notin End(w)
         /\ \A k \in {"closed", "extClosed"} : Msg(k, w) \in Ends(w)
BY KindOf DEF Stages, Given, ExtStages, ExtGiven, Ends, End

LEMMA ReadySound ==
  ASSUME TopTypeOK, WindowsSound, ToplevelReady
  PROVE  WindowsSound'
<1> PICK w \in Windows : w = Head(wlQueue).win
  BY HeadWindow DEF ToplevelReady
<1>1. /\ wlQueue # <<>> /\ Head(wlQueue).kind = "wlr" /\ wlQueue' = Tail(wlQueue)
      /\ instances' = instances \cup {w} /\ mapAsks' = Append(mapAsks, Msg("address", w))
      /\ UNCHANGED <<home, addresses, extWaiting, extOf>>
  BY DEF ToplevelReady, AskAddress
<1>2. w \in Windows /\ WindowSound(w) /\ mapAsks \in Seq(TopMsgs)
  <2>1. mapAsks \in Seq(TopMsgs)
    BY MsgSound, SeqDef DEF TopTypeOK
  <2> QED BY <1>1, <2>1, TakenOwn
<1>3. /\ \A B : Holds(wlQueue, B) <=> Msg("wlr", w) \in B \/ Holds(wlQueue', B)
      /\ Single(wlQueue', Stages(w)) /\ ~Holds(wlQueue', Stages(w))
      /\ w \notin Open => Mended(wlQueue', Given(w), End(w))
  BY <1>1, TakenOwn, Kinds
<1>4. Msg("address", w) \in TopMsgs /\ Msg("address", w).win = w
  BY <1>2, MsgSound
<1>5. ASSUME NEW v \in Windows \ {w} PROVE KeptFor(mapAsks, mapAsks', v)
  BY <1>1, <1>2, <1>4, OthersMsgs
<1>6. WindowSound(w)'
  <2>1. ~AddressAsked(w) /\ w \notin addresses
    BY <1>2, <1>3, Kinds DEF WindowSound, OneStage, OnTheWay
  <2>2. \A B : Holds(mapAsks', B) <=> Holds(mapAsks, B) \/ Msg("address", w) \in B
    <3>1. ASSUME NEW B PROVE Holds(mapAsks', B) <=> Holds(mapAsks, B) \/ Msg("address", w) \in B
      BY <1>1, <1>2, <1>4, PutSingle
    <3> QED BY <3>1
  <2>3. Single(mapAsks', Given(w))
    BY <1>1, <1>2, <1>4, <2>1, PutSingle DEF WindowSound, OneStage, AddressAsked
  <2>4. w \in Open' <=> w \in Open
    BY <1>1 DEF Open
  <2>5. ~Holds(wlQueue', Given(w))
    BY <1>3 DEF Holds, Given, Stages
  <2> QED BY <1>1, <1>2, <1>3, <2>1, <2>2, <2>3, <2>4, <2>5, Kinds
          DEF WindowSound, OneStage, OpenKept, ClosedLeaves, OnTheWay, AddressAsked
<1> QED BY <1>1, <1>5, <1>6, TakenSound

LEMMA ExtReadySound ==
  ASSUME TopTypeOK, WindowsSound, ExtToplevelReady
  PROVE  WindowsSound'
<1> PICK w \in Windows : w = Head(wlQueue).win
  BY HeadWindow DEF ExtToplevelReady
<1>1. /\ wlQueue # <<>> /\ Head(wlQueue).kind = "ext" /\ wlQueue' = Tail(wlQueue)
      /\ mapAsks' = Append(mapAsks, Msg("extAddress", w))
      /\ UNCHANGED <<home, addresses, instances, extWaiting, extOf>>
  BY DEF ExtToplevelReady, AskAddress, shellTops, mappingVars, listVars
<1>2. w \in Windows /\ WindowSound(w) /\ mapAsks \in Seq(TopMsgs)
  <2>1. mapAsks \in Seq(TopMsgs)
    BY MsgSound, SeqDef DEF TopTypeOK
  <2> QED BY <1>1, <2>1, TakenOwn
<1>3. /\ \A B : Holds(wlQueue, B) <=> Msg("ext", w) \in B \/ Holds(wlQueue', B)
      /\ Single(wlQueue', Stages(w))
      /\ w \notin Open => Mended(wlQueue', Given(w), End(w))
  BY <1>1, TakenOwn
<1>4. Msg("extAddress", w) \in TopMsgs /\ Msg("extAddress", w).win = w
  BY <1>2, MsgSound
<1>5. ASSUME NEW v \in Windows \ {w} PROVE KeptFor(mapAsks, mapAsks', v)
  BY <1>1, <1>2, <1>4, OthersMsgs
<1>6. WindowSound(w)'
  <2>1. \A B : Holds(mapAsks', B) <=> Holds(mapAsks, B) \/ Msg("extAddress", w) \in B
    <3>1. ASSUME NEW B PROVE Holds(mapAsks', B) <=> Holds(mapAsks, B) \/ Msg("extAddress", w) \in B
      BY <1>1, <1>2, <1>4, PutSingle
    <3> QED BY <3>1
  <2>2. Single(mapAsks', Given(w))
    BY <1>1, <1>2, <1>4, Kinds, PutSingle DEF WindowSound, OneStage
  <2>3. w \in Open' <=> w \in Open
    BY <1>1 DEF Open
  <2> QED BY <1>1, <1>2, <1>3, <2>1, <2>2, <2>3, Kinds
          DEF WindowSound, OneStage, OpenKept, ClosedLeaves, OnTheWay, AddressAsked
<1> QED BY <1>1, <1>5, <1>6, TakenSound

LEMMA AssignSound ==
  ASSUME TopTypeOK, WindowsSound, AssignAddressWlr
  PROVE  WindowsSound'
<1> PICK w \in Windows : w = Head(wlQueue).win
  BY HeadWindow DEF AssignAddressWlr
<1>1. /\ wlQueue # <<>> /\ Head(wlQueue).kind = "address" /\ wlQueue' = Tail(wlQueue)
      /\ addresses' = addresses \cup {w} /\ extWaiting' = extWaiting \ {w}
      /\ extOf' = IF w \in extOf \cup extWaiting THEN extOf \cup {w} ELSE extOf
      /\ UNCHANGED <<home, mapAsks, instances>>
  BY DEF AssignAddressWlr
<1>2. w \in Windows /\ WindowSound(w)
  BY <1>1, TakenOwn
<1>3. /\ \A B : Holds(wlQueue, B) <=> Msg("address", w) \in B \/ Holds(wlQueue', B)
      /\ Single(wlQueue', Stages(w)) /\ ~Holds(wlQueue', Stages(w))
      /\ w \notin Open => Mended(wlQueue', Given(w), End(w)) /\ Holds(wlQueue', End(w))
  BY <1>1, TakenOwn, Kinds
<1>4. w \in instances /\ ~AddressAsked(w)
  BY <1>2, <1>3, Kinds DEF WindowSound, OneStage, OnTheWay
<1>5. w \in Open' <=> w \in Open
  BY <1>1 DEF Open
<1>6. WindowSound(w)'
  BY <1>1, <1>2, <1>3, <1>4, <1>5, Kinds
     DEF WindowSound, OneStage, OpenKept, ClosedLeaves, OnTheWay, AddressAsked
<1> QED BY <1>1, <1>6, KeptSame, TakenSound

LEMMA AssignExtSound ==
  ASSUME TopTypeOK, WindowsSound, AssignAddressWlExt
  PROVE  WindowsSound'
<1> PICK w \in Windows : w = Head(wlQueue).win
  BY HeadWindow DEF AssignAddressWlExt
<1>1. /\ wlQueue # <<>> /\ Head(wlQueue).kind = "extAddress" /\ wlQueue' = Tail(wlQueue)
      /\ (extWaiting \cup extOf)' = extWaiting \cup extOf \cup {w}
      /\ UNCHANGED <<home, mapAsks, addresses, instances>>
  BY DEF AssignAddressWlExt
<1>2. w \in Windows /\ WindowSound(w)
  BY <1>1, TakenOwn
<1>3. /\ \A B : Holds(wlQueue, B) <=> Msg("extAddress", w) \in B \/ Holds(wlQueue', B)
      /\ Single(wlQueue', Stages(w))
      /\ w \notin Open => Mended(wlQueue', Given(w), End(w))
  BY <1>1, TakenOwn
<1>4. w \in Open' <=> w \in Open
  BY <1>1 DEF Open
<1>5. WindowSound(w)'
  BY <1>1, <1>2, <1>3, <1>4, Kinds
     DEF WindowSound, OneStage, OpenKept, ClosedLeaves, OnTheWay, AddressAsked
<1> QED BY <1>1, <1>5, KeptSame, TakenSound

LEMMA ExtClosedSound ==
  ASSUME TopTypeOK, WindowsSound, ExtClosed
  PROVE  WindowsSound'
<1> PICK w \in Windows : w = Head(wlQueue).win
  BY HeadWindow DEF ExtClosed
<1>1. /\ wlQueue # <<>> /\ Head(wlQueue).kind = "extClosed" /\ wlQueue' = Tail(wlQueue)
      /\ extWaiting' = extWaiting \ {w} /\ extOf' = extOf \ {w}
      /\ UNCHANGED <<home, mapAsks, addresses, instances>>
  BY DEF ExtClosed
<1>2. w \in Windows /\ WindowSound(w)
  BY <1>1, TakenOwn
<1>3. /\ \A B : Holds(wlQueue, B) <=> Msg("extClosed", w) \in B \/ Holds(wlQueue', B)
      /\ Single(wlQueue', Stages(w))
      /\ w \notin Open => Mended(wlQueue', Given(w), End(w))
  BY <1>1, TakenOwn
<1>4. w \notin Open /\ w \notin Open'
  BY <1>1, <1>2, <1>3, Kinds DEF Open, WindowSound, OpenKept
<1>5. WindowSound(w)'
  BY <1>1, <1>2, <1>3, <1>4, Kinds
     DEF WindowSound, OneStage, OpenKept, ClosedLeaves, OnTheWay, AddressAsked
<1> QED BY <1>1, <1>5, KeptSame, TakenSound

LEMMA ClosedSound ==
  ASSUME TopTypeOK, WindowsSound, HandlesSound, ToplevelClosed
  PROVE  WindowsSound'
<1> PICK w \in Windows : w = Head(wlQueue).win
  BY HeadWindow DEF ToplevelClosed
<1>1. /\ wlQueue # <<>> /\ Head(wlQueue).kind = "closed" /\ wlQueue' = Tail(wlQueue)
      /\ addresses' = addresses \ {w} /\ UNCHANGED <<home, mapAsks, extWaiting, extOf>>
      /\ \A v \in instances : v # w => v \in instances'
      /\ w \notin addresses => instances' = instances
  BY DEF ToplevelClosed, HandlesSound
<1>2. w \in Windows /\ WindowSound(w)
  BY <1>1, TakenOwn
<1>3. /\ \A B : Holds(wlQueue, B) <=> Msg("closed", w) \in B \/ Holds(wlQueue', B)
      /\ Single(wlQueue', Stages(w))
      /\ w \notin Open => Mended(wlQueue', Given(w), End(w))
  BY <1>1, TakenOwn
<1>4. w \notin Open /\ w \notin Open'
  BY <1>1, <1>2, <1>3, Kinds DEF Open, WindowSound, OpenKept
<1>5. Holds(wlQueue', Given(w)) => OnTheWay(w)
  BY <1>3 DEF OnTheWay, Holds, Given, Stages
<1>6. WindowSound(w)'
  BY <1>1, <1>2, <1>3, <1>4, <1>5, Kinds
     DEF WindowSound, OneStage, OpenKept, ClosedLeaves, OnTheWay, AddressAsked
<1> QED BY <1>1, <1>6, KeptSame, TakenSound

LEMMA NextWindows ==
  ASSUME TopTypeOK, WindowsSound, HandlesSound, [TopNext]_topVars
  PROVE  WindowsSound'
<1>1. ASSUME UNCHANGED <<home, wlQueue, mapAsks, addresses, instances, extWaiting, extOf>>
      PROVE  WindowsSound'
  BY <1>1 DEF WindowsSound, WindowSound, OneStage, OpenKept, ClosedLeaves, OnTheWay, AddressAsked, Open
<1>2. CASE UNCHANGED topVars
  BY <1>1, <1>2 DEF topVars, shellTops, mappingVars, listVars
<1>3. ASSUME NEW w \in Windows, NEW s \in Spaces, WindowMoves(w, s) PROVE WindowsSound'
  <2>1. \A v \in Windows : v \in Open' <=> v \in Open
    BY <1>3, TopAssumption DEF WindowMoves, Open, TopTypeOK
  <2>2. UNCHANGED <<wlQueue, mapAsks, addresses, instances, extWaiting, extOf>>
    BY <1>3 DEF WindowMoves, shellTops, mappingVars, listVars
  <2> QED BY <2>1, <2>2, KeptSame, WindowKept DEF WindowsSound
<1>4. CASE FocusLeaves \/ \E w \in Windows : WindowFocused(w)
  BY <1>1, <1>4 DEF FocusLeaves, WindowFocused, shellTops, mappingVars, listVars
<1>5. ASSUME NEW q \in Searches, SetSearchQuery(q) PROVE WindowsSound'
  BY <1>1, <1>5 DEF SetSearchQuery
<1>6. CASE ClientsAnswered \/ ClientsFailed
  BY <1>1, <1>6 DEF ClientsAnswered, ClientsFailed, shellTops, mappingVars, listVars
<1>7. CASE OnHyprWindowOpened \/ OnWindowMoveWorkspace
  BY <1>1, <1>7 DEF OnHyprWindowOpened, OnWindowMoveWorkspace
<1>8. CASE OnAddressActivated \/ DropActivation \/ HandleHyprClientsPayload
  BY <1>1, <1>8 DEF OnAddressActivated, DropActivation, HandleHyprClientsPayload,
                    shellTops, mappingVars, listVars
<1> QED BY <1>2, <1>3, <1>4, <1>5, <1>6, <1>7, <1>8, OpensSound, ClosesSound, MapSound, ReadySound,
           ExtReadySound, AssignSound, AssignExtSound, ExtClosedSound, ClosedSound DEF TopNext

LEMMA FilteredHas ==
  ASSUME NEW M, NEW list \in Seq(M), IsInjective(list), NEW q
  PROVE  Filtered(list, q) \in Seq(M) /\ ToSet(Filtered(list, q)) = ToSet(list) \cap q
<1> DEFINE S == ToSet(list) \cap q
<1>1. Enlists(Filtered(list, q), S, OrderOf(list)) /\ Orders(OrderOf(list), S)
  BY Filters, ListOrders DEF Orders
<1>2. S \subseteq M
  BY ElementOfSeq DEF ToSet
<1> HIDE DEF S
<1>3. ToSet(Filtered(list, q)) = S
  BY <1>1, SameOrder
<1>4. Filtered(list, q) \in Seq(M)
  BY <1>1, <1>2, SeqDef DEF Enlists
<1> QED BY <1>3, <1>4 DEF S

\* A window whose address is known is one, and has an instance the address finds.
LEMMA AddressedHeld ==
  ASSUME TopTypeOK, WindowsSound, HandlesSound, NEW w \in addresses
  PROVE  w \in Windows /\ w \in Holders(w)
<1>1. w \in Windows
  <2>1. Ready \subseteq Windows
    BY ElementOfSeq, LenProperties DEF TopTypeOK, Ready, ToSet
  <2> QED BY <2>1 DEF HandlesSound, Garbled
<1>2. w \in instances
  BY <1>1 DEF WindowsSound, WindowSound, OneStage
<1> QED BY <1>1, <1>2 DEF Holders, AddressOf

LEMMA NextLists ==
  ASSUME TopTypeOK, WindowsSound, HandlesSound, ListsSound, [TopNext]_topVars
  PROVE  announced' \in Seq(Windows) /\ ListsSound' /\ HandlesSound'
<1>0. announced \in Seq(Windows) /\ IsInjective(announced) /\ items = Filtered(announced, search)
      /\ ToSet(items) \subseteq itemsSeen
  BY DEF TopTypeOK, ListsSound
<1>1. ASSUME UNCHANGED <<announced, items, search, itemsSeen>>
      PROVE  announced' \in Seq(Windows) /\ ListsSound' /\ Ready' = Ready
  BY <1>0, <1>1 DEF ListsSound, Ready
<1>2. ASSUME UNCHANGED <<announced, items, search, itemsSeen, addresses, extWaiting, extOf, following, extSeen,
                          leftover, opening>>
      PROVE  announced' \in Seq(Windows) /\ ListsSound' /\ HandlesSound'
  BY <1>1, <1>2 DEF HandlesSound, Garbled
<1>3. CASE UNCHANGED topVars
  BY <1>2, <1>3 DEF topVars, shellTops, mappingVars, listVars, instanceVars
<1>4. ASSUME NEW w \in Windows, NEW s \in Spaces, WindowOpens(w, s) \/ WindowMoves(w, s)
      PROVE  announced' \in Seq(Windows) /\ ListsSound' /\ HandlesSound'
  BY <1>2, <1>4 DEF WindowOpens, WindowMoves, shellTops, mappingVars, listVars, instanceVars
<1>5. CASE FocusLeaves \/ DropActivation \/ \E w \in Windows : WindowFocused(w) \/ WindowCloses(w)
  BY <1>2, <1>5 DEF FocusLeaves, DropActivation, WindowFocused, WindowCloses, shellTops, mappingVars, listVars, instanceVars
<1>6. CASE MapAnswered \/ ClientsAnswered \/ ClientsFailed \/ ExtToplevelReady
  BY <1>2, <1>6 DEF MapAnswered, ClientsAnswered, ClientsFailed, ExtToplevelReady,
                    shellTops, mappingVars, listVars, instanceVars
<1>7. CASE OnWindowMoveWorkspace
  BY <1>2, <1>7 DEF OnWindowMoveWorkspace
<1>14. CASE ToplevelReady
  <2> PICK w \in Windows : w = Head(wlQueue).win
    BY <1>14, HeadWindow DEF ToplevelReady
  <2>1. /\ wlQueue # <<>> /\ Head(wlQueue).kind = "wlr"
        /\ \A v \in Windows \ {w} : v \in Garbled' <=> v \in Garbled
        /\ UNCHANGED <<announced, items, search, itemsSeen, addresses, extWaiting, extOf, following, extSeen, opening>>
    BY <1>14 DEF ToplevelReady, Garbled, TopTypeOK
  <2>2. w \notin addresses
    <3>1. OnTheWay(w) /\ WindowSound(w)
      BY <2>1, TakenOwn, Kinds DEF OnTheWay
    <3> QED BY <3>1 DEF WindowSound, OneStage
  <2>3. Ready \subseteq Windows
    BY <1>0, ElementOfSeq, LenProperties DEF Ready, ToSet
  <2>4. addresses \ Garbled' = addresses \ Garbled /\ addresses \cap Garbled' = addresses \cap Garbled
    BY <2>1, <2>2 DEF Garbled
  <2> HIDE DEF Garbled
  <2> QED BY <1>1, <2>1, <2>4 DEF HandlesSound
<1>15. CASE OnHyprWindowOpened
  <2>1. UNCHANGED <<announced, items, search, itemsSeen, addresses, extWaiting, extOf, following, extSeen, leftover>>
    BY <1>15 DEF OnHyprWindowOpened
  <2>2. \A w \in DOMAIN opening' \ DOMAIN opening : w \notin Ready
    BY <1>15 DEF OnHyprWindowOpened, WithOpening
  <2>3. Garbled' = Garbled
    BY <2>1 DEF Garbled
  <2> QED BY <1>1, <2>1, <2>2, <2>3 DEF HandlesSound
<1>16. CASE HandleHyprClientsPayload
  <2>1. UNCHANGED <<announced, items, search, itemsSeen, addresses, extWaiting, extOf, following, extSeen, leftover>>
    BY <1>16 DEF HandleHyprClientsPayload
  <2>2. ASSUME NEW w \in DOMAIN opening' \ DOMAIN opening PROVE w \notin addresses
    <3>1. Holders(w) = {}
      BY <1>16, <2>2 DEF HandleHyprClientsPayload
    <3> QED BY <3>1, AddressedHeld
  <2>3. Garbled' = Garbled
    BY <2>1 DEF Garbled
  <2> QED BY <1>1, <2>1, <2>2, <2>3 DEF HandlesSound
<1>8. ASSUME NEW q \in Searches, SetSearchQuery(q)
      PROVE  announced' \in Seq(Windows) /\ ListsSound' /\ HandlesSound'
  <2>1. /\ announced' = announced /\ search' = q /\ items' = Filtered(announced, q)
        /\ itemsSeen' = IF items' = items THEN itemsSeen ELSE ToSet(items')
        /\ UNCHANGED <<addresses, extWaiting, extOf, following, extSeen, leftover, opening>>
    BY <1>8 DEF SetSearchQuery
  <2> QED BY <1>0, <2>1 DEF ListsSound, HandlesSound, Ready, Garbled
<1>9. CASE AssignAddressWlr
  <2> PICK w \in Windows : w = Head(wlQueue).win
    BY <1>9, HeadWindow DEF AssignAddressWlr
  <2>1. /\ wlQueue # <<>> /\ Head(wlQueue).kind = "address" /\ search' = search
        /\ leftover' = IF w \in Garbled THEN leftover ELSE [leftover EXCEPT ![w] = NoWindow]
        /\ addresses' = addresses \cup {w} /\ extWaiting' = extWaiting \ {w}
        /\ IF w \in extOf \cup extWaiting
           THEN extOf' = extOf \cup {w} /\ (w \notin Garbled => extSeen' = extSeen \cup {w})
           ELSE extOf' = extOf /\ extSeen' = extSeen
        /\ w \in Garbled => extSeen' = extSeen
    BY <1>9 DEF AssignAddressWlr
  <2>2. IF w \in Garbled
        THEN UNCHANGED <<announced, items, itemsSeen, following>>
        ELSE /\ ListBecomes(Append(announced, w))
             /\ following \subseteq following' /\ following' \subseteq following \cup {w}
    BY <1>9 DEF AssignAddressWlr, InstanceReady
  <2>3. DOMAIN opening' = DOMAIN opening \ (addresses \cup {w})
    BY <1>9 DEF AssignAddressWlr, PendingAssigned
  <2>4. w \notin addresses
    <3>1. OnTheWay(w) /\ WindowSound(w)
      BY <2>1, TakenOwn, Kinds DEF OnTheWay
    <3> QED BY <3>1 DEF WindowSound, OneStage
  <2>5. Garbled' = Garbled
    BY <2>1, TopAssumption DEF Garbled, TopTypeOK
  <2>6. CASE w \in Garbled
    <3>1. ListsSound' /\ Ready' = Ready /\ announced' \in Seq(Windows)
      BY <1>1, <2>1, <2>2, <2>6
    <3>2. w \notin Ready
      BY <2>4 DEF HandlesSound
    <3>3. HandlesSound'
      <4> HIDE DEF Garbled
      <4>1. Ready' = addresses' \ Garbled' /\ extWaiting' \cap addresses' = {}
        BY <2>1, <2>5, <2>6, <3>1 DEF HandlesSound
      <4>2. DOMAIN opening' \cap addresses' \subseteq Garbled'
        BY <2>1, <2>3
      <4>3. Ready' \cap following' \cap extOf' \subseteq extSeen'
        BY <2>1, <2>2, <2>6, <3>1, <3>2 DEF HandlesSound
      <4> QED BY <4>1, <4>2, <4>3 DEF HandlesSound
    <3> QED BY <3>1, <3>3
  <2>7. CASE w \notin Garbled
    <3>1. w \notin Ready
      BY <2>4 DEF HandlesSound
    <3>2. announced' \in Seq(Windows) /\ IsInjective(announced') /\ Ready' = Ready \cup {w}
      <4>1. announced' = Append(announced, w)
        BY <2>2, <2>7 DEF ListBecomes
      <4> QED BY <1>0, <3>1, <4>1, PutLast DEF Ready
    <3>3. ListsSound'
      BY <1>0, <2>1, <2>2, <2>7, <3>2 DEF ListBecomes, ListsSound
    <3>4. HandlesSound'
      <4> HIDE DEF Garbled
      <4>1. Ready' = addresses' \ Garbled' /\ extWaiting' \cap addresses' = {}
        BY <2>1, <2>5, <2>7, <3>2 DEF HandlesSound
      <4>2. DOMAIN opening' \cap addresses' \subseteq Garbled'
        BY <2>1, <2>3
      <4>3. Ready' \cap following' \cap extOf' \subseteq extSeen'
        BY <2>1, <2>2, <2>7, <3>2 DEF HandlesSound
      <4> QED BY <4>1, <4>2, <4>3 DEF HandlesSound
    <3> QED BY <3>2, <3>3, <3>4
  <2> QED BY <2>6, <2>7
<1>10. CASE AssignAddressWlExt
  <2> PICK w \in Windows : w = Head(wlQueue).win
    BY <1>10, HeadWindow DEF AssignAddressWlExt
  <2>1. UNCHANGED <<announced, items, search, itemsSeen, addresses, following, leftover, opening>>
    BY <1>10 DEF AssignAddressWlExt
  <2>2. IF w \in addresses
        THEN /\ extOf' = extOf \cup {w} /\ extWaiting' = extWaiting
             /\ extSeen' = IF w \in following THEN extSeen \cup {w} ELSE extSeen
        ELSE extWaiting' = extWaiting \cup {w} /\ extOf' = extOf /\ extSeen' = extSeen
    BY <1>10 DEF AssignAddressWlExt
  <2>3. Garbled' = Garbled
    BY <2>1 DEF Garbled
  <2> QED BY <1>1, <2>1, <2>2, <2>3 DEF HandlesSound
<1>11. CASE ExtClosed
  <2> PICK w \in Windows : w = Head(wlQueue).win
    BY <1>11, HeadWindow DEF ExtClosed
  <2>1. UNCHANGED <<announced, items, search, itemsSeen, addresses, following, leftover, opening>>
    BY <1>11 DEF ExtClosed
  <2>2. extWaiting' = extWaiting \ {w} /\ extOf' = extOf \ {w} /\ extSeen' = extSeen \ {w}
    BY <1>11 DEF ExtClosed
  <2>3. Garbled' = Garbled
    BY <2>1 DEF Garbled
  <2> QED BY <1>1, <2>1, <2>2, <2>3 DEF HandlesSound
<1>12. CASE ToplevelClosed
  <2> PICK w \in Windows : w = Head(wlQueue).win
    BY <1>12, HeadWindow DEF ToplevelClosed
  <2>1. /\ addresses' = addresses \ {w} /\ following' = following \ {w}
        /\ UNCHANGED <<search, itemsSeen, extWaiting, extOf, extSeen, leftover, opening>>
    BY <1>12 DEF ToplevelClosed
  <2>4. Garbled' = Garbled
    BY <2>1 DEF Garbled
  <2>2. CASE w \notin Ready
    <3>1. UNCHANGED <<announced, items>>
      BY <1>12, <2>2 DEF ToplevelClosed
    <3>2. announced' \in Seq(Windows) /\ ListsSound' /\ Ready' = Ready
      BY <1>1, <2>1, <3>1
    <3> QED BY <2>1, <2>2, <2>4, <3>2 DEF HandlesSound
  <2>3. CASE w \in Ready
    <3>1. announced' = RemoveFirst(announced, w) /\ items' = RemoveFirst(items, w)
      BY <1>12, <2>3 DEF ToplevelClosed
    <3>2. /\ announced' \in Seq(Windows) /\ IsInjective(announced') /\ Ready' = Ready \ {w}
      BY <1>0, <3>1, TakeOut DEF Ready
    <3>3. items' = Filtered(announced', search)
      BY <1>0, <3>1, BothLeft
    <3>4. ToSet(items') \subseteq ToSet(items)
      <4>1. ToSet(items) = Ready \cap search /\ ToSet(Filtered(announced', search)) = Ready' \cap search
        BY <1>0, <3>2, FilteredHas DEF Ready
      <4> QED BY <3>2, <3>3, <4>1
    <3>5. ListsSound'
      BY <1>0, <2>1, <3>2, <3>3, <3>4 DEF ListsSound
    <3> QED BY <2>1, <2>4, <3>2, <3>5 DEF HandlesSound
  <2> QED BY <2>2, <2>3
<1>13. CASE OnAddressActivated
  <2> DEFINE w == Head(topEvents).win
  <2>1. /\ announced' = ToFront(announced, w) /\ items' = ToFront(items, w)
        /\ UNCHANGED <<search, itemsSeen, addresses, extWaiting, extOf, following, extSeen, leftover, opening>>
    BY <1>13 DEF OnAddressActivated
  <2>5. Garbled' = Garbled
    BY <2>1 DEF Garbled
  <2>2. ToSet(items) = Ready \cap search /\ items \in Seq(Windows)
    BY <1>0, FilteredHas DEF Ready
  <2> HIDE DEF w
  <2>3. CASE w \notin Ready
    <3>1. announced' = announced /\ items' = items
      BY <1>0, <2>1, <2>2, <2>3, HasIt DEF ToFront, Ready
    <3> QED BY <1>2, <2>1, <3>1
  <2>4. CASE w \in Ready
    <3>1. /\ announced' \in Seq(Windows) /\ IsInjective(announced') /\ Ready' = Ready
          /\ items' = Filtered(announced', search)
      BY <1>0, <2>1, <2>4, BothFronted DEF Ready
    <3>2. ToSet(Filtered(announced', search)) = Ready' \cap search
      BY <3>1, FilteredHas DEF Ready
    <3>3. ListsSound'
      BY <1>0, <2>1, <2>2, <3>1, <3>2 DEF ListsSound
    <3> QED BY <2>1, <2>5, <3>1, <3>3 DEF HandlesSound
  <2> QED BY <2>3, <2>4
<1> QED BY <1>3, <1>4, <1>5, <1>6, <1>7, <1>8, <1>9, <1>10, <1>11, <1>12, <1>13, <1>14, <1>15, <1>16
        DEF TopNext

LEMMA LineSound ==
  /\ \A k \in {"openwindow", "movewindowv2"}, w \in Windows, s \in Spaces : Line(k, w, s) \in TopLines
  /\ \A w \in Windows \cup {NoWindow} : Line("activewindowv2", w, 0) \in TopLines
  /\ \A e \in TopLines : IF e.kind = "activewindowv2"
                         THEN e.win \in Windows \cup {NoWindow} /\ e = Line("activewindowv2", e.win, 0)
                         ELSE /\ e.kind \in {"openwindow", "movewindowv2"} /\ e.win \in Windows
                              /\ e.space \in Spaces /\ e = Line(e.kind, e.win, e.space)
<1>1. \A k \in {"openwindow", "movewindowv2"}, w \in Windows, s \in Spaces : Line(k, w, s) \in TopLines
  BY DEF TopLines
<1>2. \A w \in Windows \cup {NoWindow} : Line("activewindowv2", w, 0) \in TopLines
  BY DEF TopLines, Focuses
<1>3. ASSUME NEW e \in TopLines
      PROVE  IF e.kind = "activewindowv2"
             THEN e.win \in Windows \cup {NoWindow} /\ e = Line("activewindowv2", e.win, 0)
             ELSE /\ e.kind \in {"openwindow", "movewindowv2"} /\ e.win \in Windows
                  /\ e.space \in Spaces /\ e = Line(e.kind, e.win, e.space)
  BY DEF TopLines, Focuses, Line
<1> QED BY <1>1, <1>2, <1>3

LEMMA NextTopType ==
  ASSUME TopTypeOK, announced' \in Seq(Windows), [TopNext]_topVars
  PROVE  TopTypeOK'
<1> SUFFICES /\ home' \in [Windows -> Spaces \cup {0}] /\ focused' \in Windows \cup {NoWindow}
             /\ topEvents' \in Seq(TopLines) /\ wlQueue' \in Seq(TopMsgs) /\ mapAsks' \in Seq(TopAsks)
             /\ DOMAIN wid' = Windows /\ DOMAIN leftover' = Windows
  BY DEF TopTypeOK
<1> USE DEF TopTypeOK
<1>1. ASSUME UNCHANGED <<home, focused, topEvents, wlQueue, mapAsks, wid, leftover>> PROVE TopTypeOK'
  BY <1>1
<1>2. CASE UNCHANGED topVars
  BY <1>2 DEF topVars, shellTops, instanceVars
<1>3. ASSUME NEW w \in Windows, NEW s \in Spaces, WindowOpens(w, s) PROVE TopTypeOK'
  <2>1. Msg("wlr", w) \in TopMsgs /\ Msg("ext", w) \in TopMsgs /\ Line("openwindow", w, s) \in TopLines
    BY MsgSound, LineSound
  <2>2. wlQueue' \in Seq(TopMsgs)
    <3>1. \A a, b \in TopMsgs : wlQueue \o <<a, b>> \in Seq(TopMsgs)
      BY TwoPut
    <3> QED BY <1>3, <2>1, <3>1 DEF WindowOpens
  <2>3. topEvents' \in Seq(TopLines)
    BY <1>3, <2>1, AppendProperties DEF WindowOpens
  <2> QED BY <1>3, <2>2, <2>3 DEF WindowOpens, shellTops, instanceVars
<1>4. ASSUME NEW w \in Windows, NEW s \in Spaces, WindowMoves(w, s) PROVE TopTypeOK'
  <2>1. Line("movewindowv2", w, s) \in TopLines
    BY LineSound
  <2>2. topEvents' \in Seq(TopLines)
    BY <1>4, <2>1, AppendProperties DEF WindowMoves
  <2> QED BY <1>4, <2>2 DEF WindowMoves, shellTops, instanceVars
<1>5. ASSUME NEW w \in Windows, WindowFocused(w) PROVE TopTypeOK'
  <2>1. Line("activewindowv2", w, 0) \in TopLines
    BY LineSound
  <2>2. topEvents' \in Seq(TopLines)
    BY <1>5, <2>1, AppendProperties DEF WindowFocused
  <2> QED BY <1>5, <2>2 DEF WindowFocused, shellTops, instanceVars
<1>14. CASE FocusLeaves
  <2>1. Line("activewindowv2", NoWindow, 0) \in TopLines
    BY LineSound
  <2>2. topEvents' \in Seq(TopLines)
    BY <1>14, <2>1, AppendProperties DEF FocusLeaves
  <2> QED BY <1>14, <2>2 DEF FocusLeaves, shellTops, instanceVars
<1>6. ASSUME NEW w \in Windows, WindowCloses(w) PROVE TopTypeOK'
  <2>1. /\ Line("activewindowv2", NoWindow, 0) \in TopLines
        /\ Msg("extClosed", w) \in TopMsgs /\ Msg("closed", w) \in TopMsgs
    BY LineSound, MsgSound
  <2>2. topEvents' \in Seq(TopLines)
    BY <1>6, <2>1, AppendProperties DEF WindowCloses
  <2>3. wlQueue' \in Seq(TopMsgs)
    BY <1>6, <2>1, TwoPut DEF WindowCloses
  <2> QED BY <1>6, <2>2, <2>3 DEF WindowCloses, shellTops, instanceVars
<1>7. CASE MapAnswered
  <2>1. Head(mapAsks) \in TopAsks /\ Tail(mapAsks) \in Seq(TopAsks)
    BY <1>7, HeadOf DEF MapAnswered
  <2>2. Append(wlQueue, Head(mapAsks)) \in Seq(TopMsgs)
    BY <2>1, MsgSound, AppendProperties
  <2> QED BY <1>7, <2>1, <2>2 DEF MapAnswered, shellTops, instanceVars
<1>8. CASE ToplevelReady \/ ExtToplevelReady
  <2>1. wlQueue # <<>>
    BY <1>8 DEF ToplevelReady, ExtToplevelReady
  <2> PICK w \in Windows : w = Head(wlQueue).win
    BY <2>1, HeadWindow
  <2>2. wlQueue' \in Seq(TopMsgs)
    BY <1>8, <2>1, HeadOf DEF ToplevelReady, ExtToplevelReady
  <2>3. Msg("address", w) \in TopAsks /\ Msg("extAddress", w) \in TopAsks
    BY DEF TopAsks
  <2>4. mapAsks' \in Seq(TopAsks)
    <3>1. mapAsks' = Append(mapAsks, Msg("address", w)) \/ mapAsks' = Append(mapAsks, Msg("extAddress", w))
      BY <1>8 DEF ToplevelReady, ExtToplevelReady, AskAddress
    <3>2. \A a \in TopAsks : Append(mapAsks, a) \in Seq(TopAsks)
      BY AppendProperties
    <3> QED BY <2>3, <3>1, <3>2
  <2> QED BY <1>8, <2>2, <2>4 DEF ToplevelReady, ExtToplevelReady, shellTops, instanceVars
<1>9. CASE AssignAddressWlr \/ AssignAddressWlExt \/ ExtClosed \/ ToplevelClosed
  <2>1. wlQueue # <<>> /\ wlQueue' = Tail(wlQueue) /\ UNCHANGED <<home, focused, topEvents, mapAsks>>
    BY <1>9 DEF AssignAddressWlr, AssignAddressWlExt, ExtClosed, ToplevelClosed
  <2>2. wlQueue' \in Seq(TopMsgs)
    BY <2>1, HeadOf
  <2>3. DOMAIN wid' = Windows /\ DOMAIN leftover' = Windows
    BY <1>9 DEF AssignAddressWlr, PendingAssigned, AssignAddressWlExt, ExtClosed, ToplevelClosed
  <2> QED BY <2>1, <2>2, <2>3
<1>10. CASE OnHyprWindowOpened \/ OnWindowMoveWorkspace \/ OnAddressActivated \/ DropActivation
  <2>1. topEvents # <<>> /\ topEvents' = Tail(topEvents) /\ UNCHANGED <<home, focused, wlQueue, mapAsks>>
    BY <1>10 DEF OnHyprWindowOpened, OnWindowMoveWorkspace, OnAddressActivated, DropActivation
  <2>2. topEvents' \in Seq(TopLines)
    BY <2>1, HeadOf
  <2>3. DOMAIN wid' = Windows /\ DOMAIN leftover' = Windows
    BY <1>10 DEF OnHyprWindowOpened, OnWindowMoveWorkspace, OnAddressActivated, DropActivation,
                 shellTops, instanceVars
  <2> QED BY <2>1, <2>2, <2>3
<1>11. CASE HandleHyprClientsPayload
  BY <1>11 DEF HandleHyprClientsPayload
<1>12. CASE ClientsAnswered \/ ClientsFailed
  BY <1>12 DEF ClientsAnswered, ClientsFailed, shellTops, instanceVars
<1>13. ASSUME NEW q \in Searches, SetSearchQuery(q) PROVE TopTypeOK'
  BY <1>13 DEF SetSearchQuery
<1> QED BY <1>2, <1>3, <1>4, <1>5, <1>6, <1>7, <1>8, <1>9, <1>10, <1>11, <1>12, <1>13, <1>14 DEF TopNext

\* What a line tells of the place of w, and of the focus.
ToldOf(q, r, w) ==
  /\ Mended(q, Puts(w, Spaces \ {home[w]}), Puts(w, {home[w]}))
       => Mended(r, Puts(w, Spaces \ {home[w]}), Puts(w, {home[w]}))
  /\ Holds(q, Puts(w, Spaces)) => Holds(r, Puts(w, Spaces))

FocusOf(q, r, f) ==
  /\ Mended(q, Focuses(Windows \ {f}), Focuses({f} \ {NoWindow})) => Mended(r, Focuses(Windows \ {f}), Focuses({f} \ {NoWindow}))
  /\ Holds(q, Focuses(Windows)) => Holds(r, Focuses(Windows))

LEMMA OthersLines ==
  ASSUME NEW q \in Seq(TopLines), NEW w
  PROVE  /\ \A e \in TopLines : e.win # w \/ e.kind = "activewindowv2" => ToldOf(q, Append(q, e), w)
         /\ q # <<>> /\ (Head(q).win # w \/ Head(q).kind = "activewindowv2") => ToldOf(q, Tail(q), w)
<1>1. \A S : \A e \in Puts(w, S) : e.win = w /\ e.kind # "activewindowv2"
  BY DEF Puts, Line
<1>2. ASSUME NEW e \in TopLines, e.win # w \/ e.kind = "activewindowv2" PROVE ToldOf(q, Append(q, e), w)
  <2>1. e \notin Puts(w, Spaces) /\ e \notin Puts(w, Spaces \ {home[w]})
    BY <1>1, <1>2
  <2> QED BY <2>1, PutOne DEF ToldOf
<1>3. ASSUME q # <<>>, Head(q).win # w \/ Head(q).kind = "activewindowv2" PROVE ToldOf(q, Tail(q), w)
  <2>1. Head(q) \notin Puts(w, Spaces)
    BY <1>1, <1>3
  <2> QED BY <1>3, <2>1, TakeOne DEF ToldOf
<1> QED BY <1>2, <1>3

LEMMA OthersFocus ==
  ASSUME NEW q \in Seq(TopLines), NEW f
  PROVE  /\ \A e \in TopLines : e.kind # "activewindowv2" \/ e.win = NoWindow => FocusOf(q, Append(q, e), f)
         /\ q # <<>> /\ (Head(q).kind # "activewindowv2" \/ Head(q).win = NoWindow) => FocusOf(q, Tail(q), f)
<1>1. \A S : \A e \in Focuses(S) : e.kind = "activewindowv2" /\ e.win \in S
  BY DEF Focuses, Line
<1>2. ASSUME NEW e \in TopLines, e.kind # "activewindowv2" \/ e.win = NoWindow PROVE FocusOf(q, Append(q, e), f)
  <2>1. e \notin Focuses(Windows \ {f})
    BY <1>1, <1>2, TopAssumption
  <2> QED BY <2>1, PutOne DEF FocusOf
<1>3. ASSUME q # <<>>, Head(q).kind # "activewindowv2" \/ Head(q).win = NoWindow PROVE FocusOf(q, Tail(q), f)
  <2>1. Head(q) \notin Focuses(Windows)
    BY <1>1, <1>3, TopAssumption
  <2> QED BY <1>3, <2>1, TakeOne DEF FocusOf
<1> QED BY <1>2, <1>3

LEMMA NextFocus ==
  ASSUME TopTypeOK, HandlesSound, FocusTold, [TopNext]_topVars
  PROVE  FocusTold'
<1>1. ASSUME UNCHANGED <<focused, topEvents>>, activeTop' \in {activeTop, NoWindow} PROVE FocusTold'
  BY <1>1 DEF FocusTold
<1>2. ASSUME FocusOf(topEvents, topEvents', focused), UNCHANGED <<focused, activeTop>> PROVE FocusTold'
  BY <1>2 DEF FocusTold, FocusOf
<1>3. ASSUME NEW f \in Windows, focused' = f,
             topEvents' = Append(topEvents, Line("activewindowv2", f, 0))
      PROVE  FocusTold'
  <2> DEFINE e == Line("activewindowv2", f, 0)
  <2>1. e \in TopLines
    BY LineSound
  <2>2. /\ e \in Focuses({f} \ {NoWindow}) /\ e \notin Focuses(Windows \ {f}) /\ e \in Focuses(Windows)
    BY TopAssumption DEF Focuses, Line
  <2> HIDE DEF e
  <2>3. /\ Mended(Append(topEvents, e), Focuses(Windows \ {f}), Focuses({f} \ {NoWindow}))
        /\ Holds(Append(topEvents, e), Focuses(Windows))
    BY <2>1, <2>2, PutOne DEF TopTypeOK
  <2>4. topEvents' = Append(topEvents, e)
    BY <1>3 DEF e
  <2> QED BY <1>3, <2>3, <2>4 DEF FocusTold
<1>4. CASE UNCHANGED topVars
  BY <1>1, <1>4 DEF topVars, shellTops, listVars
<1>5. ASSUME NEW w \in Windows, NEW s \in Spaces, WindowOpens(w, s) \/ WindowMoves(w, s) PROVE FocusTold'
  <2>1. PICK k \in {"openwindow", "movewindowv2"} : topEvents' = Append(topEvents, Line(k, w, s))
    BY <1>5 DEF WindowOpens, WindowMoves
  <2>2. Line(k, w, s) \in TopLines /\ Line(k, w, s).kind # "activewindowv2"
    <3>1. Line(k, w, s) \in TopLines
      BY LineSound
    <3>2. Line(k, w, s).kind # "activewindowv2"
      BY DEF Line
    <3> QED BY <3>1, <3>2
  <2>3. FocusOf(topEvents, topEvents', focused)
    BY <2>1, <2>2, OthersFocus DEF TopTypeOK
  <2>4. UNCHANGED <<focused, activeTop>>
    BY <1>5 DEF WindowOpens, WindowMoves, shellTops, listVars
  <2> QED BY <1>2, <2>3, <2>4
<1>6. ASSUME NEW w \in Windows, WindowFocused(w) PROVE FocusTold'
  BY <1>3, <1>6 DEF WindowFocused
<1>7. ASSUME topEvents' = topEvents \/ topEvents' = Append(topEvents, Line("activewindowv2", NoWindow, 0)),
             UNCHANGED <<focused, activeTop>>
      PROVE  FocusTold'
  <2>1. Line("activewindowv2", NoWindow, 0) \in TopLines
    BY LineSound
  <2>2. Line("activewindowv2", NoWindow, 0).win = NoWindow
    BY DEF Line
  <2>3. FocusOf(topEvents, topEvents', focused)
    BY <1>7, <2>1, <2>2, OthersFocus DEF TopTypeOK, FocusOf
  <2> QED BY <1>2, <1>7, <2>3
<1>14. CASE FocusLeaves \/ \E w \in Windows : WindowCloses(w)
  BY <1>7, <1>14 DEF FocusLeaves, WindowCloses, shellTops, listVars
<1>15. CASE DropActivation
  <2>1. /\ topEvents # <<>> /\ Head(topEvents).win = NoWindow /\ topEvents' = Tail(topEvents)
        /\ UNCHANGED <<focused, activeTop>>
    BY <1>15 DEF DropActivation, shellTops, listVars
  <2> QED BY <1>2, <2>1, OthersFocus DEF TopTypeOK
<1>8. CASE OnAddressActivated
  <2>1. /\ topEvents # <<>> /\ Head(topEvents).kind = "activewindowv2" /\ topEvents' = Tail(topEvents)
        /\ activeTop' \in {Head(topEvents).win, NoWindow} /\ focused' = focused
        /\ Head(topEvents).win # NoWindow
    BY <1>8 DEF OnAddressActivated
  <2>2. PICK f \in Windows : Head(topEvents) = Line("activewindowv2", f, 0)
    <3>1. Head(topEvents) \in TopLines
      BY <2>1, HeadOf DEF TopTypeOK
    <3> QED BY <2>1, <3>1, LineSound
  <2>3. /\ Mended(topEvents', Focuses(Windows \ {focused}), Focuses({focused} \ {NoWindow}))
        /\ Head(topEvents) \in Focuses(Windows \ {focused})
             => Holds(topEvents', Focuses({focused} \ {NoWindow}))
    BY <2>1, TakeOne DEF TopTypeOK, FocusTold
  <2>4. CASE f = focused
    BY <2>1, <2>2, <2>3, <2>4 DEF FocusTold, Line
  <2>5. CASE f # focused
    <3>1. Head(topEvents) \in Focuses(Windows \ {focused})
      BY <2>2, <2>5 DEF Focuses
    <3>2. Holds(topEvents', Focuses({focused} \ {NoWindow}))
      BY <2>3, <3>1
    <3>3. Holds(topEvents', Focuses(Windows))
      BY <3>2 DEF Holds, Focuses, TopTypeOK
    <3> QED BY <2>1, <2>3, <3>3 DEF FocusTold
  <2> QED BY <2>4, <2>5
<1>9. CASE OnHyprWindowOpened \/ OnWindowMoveWorkspace
  <2>1. /\ topEvents # <<>> /\ Head(topEvents).kind # "activewindowv2" /\ topEvents' = Tail(topEvents)
        /\ UNCHANGED <<focused, activeTop>>
    BY <1>9 DEF OnHyprWindowOpened, OnWindowMoveWorkspace
  <2> QED BY <1>2, <2>1, OthersFocus DEF TopTypeOK
<1>10. CASE ToplevelClosed
  BY <1>1, <1>10 DEF ToplevelClosed
<1>11. CASE ToplevelReady \/ AssignAddressWlr \/ AssignAddressWlExt \/ ExtClosed
  BY <1>1, <1>11 DEF ToplevelReady, AssignAddressWlr, AssignAddressWlExt, ExtClosed
<1>12. CASE MapAnswered \/ ClientsAnswered \/ ClientsFailed \/ ExtToplevelReady \/ HandleHyprClientsPayload
  BY <1>1, <1>12 DEF MapAnswered, ClientsAnswered, ClientsFailed, ExtToplevelReady,
                     HandleHyprClientsPayload, shellTops, listVars
<1>13. ASSUME NEW q \in Searches, SetSearchQuery(q) PROVE FocusTold'
  BY <1>1, <1>13 DEF SetSearchQuery
<1> QED BY <1>4, <1>5, <1>6, <1>7, <1>8, <1>9, <1>10, <1>11, <1>12, <1>13, <1>14, <1>15 DEF TopNext

LEMMA PlaceKept ==
  ASSUME NEW w, PlaceTold(w), ToldOf(topEvents, topEvents', w), home'[w] = home[w],
         w \in Open' => w \in Open, w \in (addresses \cap Garbled) => w \in (addresses \cap Garbled)',
         w \in Open /\ w \in outrun => w \in outrun' \/ InPlace(w)',
         w \in Open /\ InPlace(w) => InPlace(w)'
  PROVE  PlaceTold(w)'
<1> SUFFICES ASSUME w \in Open', w \notin (addresses \cap Garbled)' PROVE PlaceTold(w)'
  BY DEF PlaceTold
<1>1. /\ Mended(topEvents', Puts(w, Spaces \ {home[w]}), Puts(w, {home[w]}))
      /\ Holds(topEvents', Puts(w, Spaces)) \/ w \in outrun' \/ InPlace(w)'
  BY DEF PlaceTold, ToldOf
<1> QED BY <1>1 DEF PlaceTold

PlacesTold == \A w \in Windows : PlaceTold(w)

\* A line that puts w where it is makes up for those before it.
LEMMA RightPlace ==
  ASSUME TopTypeOK, NEW w \in Windows, NEW s \in Spaces, NEW k \in {"openwindow", "movewindowv2"},
         home'[w] = s, topEvents' = Append(topEvents, Line(k, w, s))
  PROVE  PlaceTold(w)'
<1> DEFINE e == Line(k, w, s)
<1>1. e \in TopLines
  BY LineSound
<1>2. e \in Puts(w, {s}) /\ e \notin Puts(w, Spaces \ {s}) /\ e \in Puts(w, Spaces)
  <2>1. e.space = s /\ \A S : \A x \in Puts(w, S) : x.space \in S
    BY DEF Puts, Line
  <2>2. e \in Puts(w, {s}) /\ e \in Puts(w, Spaces)
    BY DEF Puts
  <2> QED BY <2>1, <2>2
<1> HIDE DEF e
<1>3. Mended(Append(topEvents, e), Puts(w, Spaces \ {s}), Puts(w, {s}))
  BY <1>1, <1>2, PutOne DEF TopTypeOK
<1>4. Holds(Append(topEvents, e), Puts(w, Spaces))
  BY <1>1, <1>2, PutOne DEF TopTypeOK
<1>5. topEvents' = Append(topEvents, e)
  BY DEF e
<1> QED BY <1>3, <1>4, <1>5 DEF PlaceTold

LEMMA ToldSame == ASSUME NEW q, NEW w PROVE ToldOf(q, q, w)
BY DEF ToldOf

\* The first line puts w somewhere: if not where it is, another does.
LEMMA FirstPlace ==
  ASSUME TopTypeOK, NEW w \in Windows, PlaceTold(w), w \in Open, w \notin addresses \cap Garbled, topEvents # <<>>,
         Head(topEvents).kind # "activewindowv2", Head(topEvents).win = w
  PROVE  /\ Mended(Tail(topEvents), Puts(w, Spaces \ {home[w]}), Puts(w, {home[w]}))
         /\ Head(topEvents).space = home[w] \/ Holds(Tail(topEvents), Puts(w, Spaces))
<1> DEFINE e == Head(topEvents)
<1>1. e.kind \in {"openwindow", "movewindowv2"} /\ e.space \in Spaces /\ e = Line(e.kind, w, e.space)
  BY HeadOf, LineSound DEF TopTypeOK
<1>2. e.space # home[w] => e \in Puts(w, Spaces \ {home[w]})
  BY <1>1 DEF Puts
<1>3. Mended(topEvents, Puts(w, Spaces \ {home[w]}), Puts(w, {home[w]}))
  BY DEF PlaceTold
<1>4. /\ Mended(Tail(topEvents), Puts(w, Spaces \ {home[w]}), Puts(w, {home[w]}))
      /\ e \in Puts(w, Spaces \ {home[w]}) => Holds(Tail(topEvents), Puts(w, {home[w]}))
  BY <1>3, TakeOne DEF TopTypeOK
<1>5. Puts(w, {home[w]}) \subseteq Puts(w, Spaces)
  BY DEF Puts, Open, TopTypeOK
<1>6. Holds(Tail(topEvents), Puts(w, {home[w]})) => Holds(Tail(topEvents), Puts(w, Spaces))
  BY <1>5 DEF Holds
<1> QED BY <1>2, <1>4, <1>6

LEMMA NextPlaces ==
  ASSUME TopTypeOK, HandlesSound, WindowsSound, PlacesTold, [TopNext]_topVars
  PROVE  PlacesTold'
<1> SUFFICES ASSUME NEW v \in Windows PROVE PlaceTold(v)'
  BY DEF PlacesTold
<1>0. PlaceTold(v)
  BY DEF PlacesTold
<1>1. ASSUME UNCHANGED <<home, outrun, addresses, leftover, wid, opening>>, ToldOf(topEvents, topEvents', v)
      PROVE  PlaceTold(v)'
  BY <1>0, <1>1, PlaceKept DEF Open, InPlace, Garbled
<1>2. CASE UNCHANGED topVars
  BY <1>1, <1>2, ToldSame DEF topVars, shellTops, mappingVars, instanceVars, listVars
<1>3. ASSUME NEW w \in Windows, NEW s \in Spaces, WindowOpens(w, s) \/ WindowMoves(w, s) PROVE PlaceTold(v)'
  <2>1. PICK k \in {"openwindow", "movewindowv2"} :
          topEvents' = Append(topEvents, Line(k, w, s)) /\ home' = [home EXCEPT ![w] = s]
    BY <1>3 DEF WindowOpens, WindowMoves
  <2>2. CASE v = w
    BY <2>1, <2>2, RightPlace DEF TopTypeOK
  <2>3. CASE v # w
    <3>1. Line(k, w, s) \in TopLines /\ Line(k, w, s).win = w
      <4>1. Line(k, w, s) \in TopLines
        BY LineSound
      <4> QED BY <4>1 DEF Line
    <3>2. ToldOf(topEvents, topEvents', v)
      BY <2>1, <2>3, <3>1, OthersLines DEF TopTypeOK
    <3>3. home'[v] = home[v] /\ UNCHANGED <<outrun, addresses, leftover, wid, opening>>
      BY <1>3, <2>1, <2>3 DEF TopTypeOK, WindowOpens, WindowMoves, shellTops, mappingVars, instanceVars, listVars
    <3> QED BY <1>0, <3>2, <3>3, PlaceKept DEF Open, InPlace, Garbled
  <2> QED BY <2>2, <2>3
<1>4. ASSUME NEW w \in Windows, WindowFocused(w) PROVE PlaceTold(v)'
  <2>1. Line("activewindowv2", w, 0) \in TopLines /\ Line("activewindowv2", w, 0).kind = "activewindowv2"
    <3>1. Line("activewindowv2", w, 0) \in TopLines
      BY LineSound
    <3> QED BY <3>1 DEF Line
  <2>2. ToldOf(topEvents, topEvents', v)
    BY <1>4, <2>1, OthersLines DEF TopTypeOK, WindowFocused
  <2> QED BY <1>1, <1>4, <2>2 DEF WindowFocused, shellTops, mappingVars, instanceVars, listVars
<1>14. CASE FocusLeaves \/ DropActivation
  <2>1. Line("activewindowv2", NoWindow, 0) \in TopLines /\ Line("activewindowv2", NoWindow, 0).kind = "activewindowv2"
    <3>1. Line("activewindowv2", NoWindow, 0) \in TopLines
      BY LineSound
    <3> QED BY <3>1 DEF Line
  <2>2. ToldOf(topEvents, topEvents', v)
    BY <1>14, <2>1, OthersLines DEF TopTypeOK, FocusLeaves, DropActivation
  <2> QED BY <1>1, <1>14, <2>2 DEF FocusLeaves, DropActivation, shellTops, mappingVars, instanceVars, listVars
<1>5. ASSUME NEW w \in Windows, WindowCloses(w) PROVE PlaceTold(v)'
  <2>1. Line("activewindowv2", NoWindow, 0) \in TopLines /\ Line("activewindowv2", NoWindow, 0).kind = "activewindowv2"
    <3>1. Line("activewindowv2", NoWindow, 0) \in TopLines
      BY LineSound
    <3> QED BY <3>1 DEF Line
  <2>2. ToldOf(topEvents, topEvents', v)
    BY <1>5, <2>1, OthersLines, ToldSame DEF TopTypeOK, WindowCloses
  <2>3. CASE v = w
    BY <1>5, <2>3 DEF WindowCloses, PlaceTold, Open, TopTypeOK
  <2>4. CASE v # w
    <3>1. home'[v] = home[v] /\ UNCHANGED <<outrun, addresses, leftover, wid, opening>>
      BY <1>5, <2>4 DEF TopTypeOK, WindowCloses, shellTops, mappingVars, instanceVars, listVars
    <3> QED BY <1>0, <2>2, <3>1, PlaceKept DEF Open, InPlace, Garbled
  <2> QED BY <2>3, <2>4
<1>6. CASE MapAnswered \/ ClientsAnswered \/ ClientsFailed \/ ExtToplevelReady
  BY <1>1, <1>6, ToldSame DEF MapAnswered, ClientsAnswered, ClientsFailed, ExtToplevelReady,
                              shellTops, mappingVars, instanceVars, listVars
<1>7. CASE AssignAddressWlExt \/ ExtClosed
  BY <1>1, <1>7, ToldSame DEF AssignAddressWlExt, ExtClosed
<1>15. CASE ToplevelReady
  <2> PICK w \in Windows : w = Head(wlQueue).win
    BY <1>15, HeadWindow DEF ToplevelReady
  <2>1. /\ wlQueue # <<>> /\ Head(wlQueue).kind = "wlr"
        /\ v # w => (v \in Garbled' <=> v \in Garbled)
        /\ UNCHANGED <<home, outrun, addresses, wid, opening, topEvents>>
    BY <1>15 DEF ToplevelReady, Garbled, TopTypeOK
  <2>2. w \notin addresses
    <3>1. OnTheWay(w) /\ WindowSound(w)
      BY <2>1, TakenOwn, Kinds DEF OnTheWay
    <3> QED BY <3>1 DEF WindowSound, OneStage
  <2>3. v \in addresses \cap Garbled => v \in (addresses \cap Garbled)'
    BY <2>1, <2>2
  <2> QED BY <1>0, <2>1, <2>3, ToldSame, PlaceKept DEF Open, InPlace
<1>8. ASSUME NEW q \in Searches, SetSearchQuery(q) PROVE PlaceTold(v)'
  BY <1>1, <1>8, ToldSame DEF SetSearchQuery
<1>9. CASE OnAddressActivated
  <2>1. ToldOf(topEvents, topEvents', v)
    BY <1>9, OthersLines DEF OnAddressActivated, TopTypeOK
  <2> QED BY <1>1, <1>9, <2>1 DEF OnAddressActivated
<1>10. CASE AssignAddressWlr
  <2> PICK w \in Windows : w = Head(wlQueue).win
    BY <1>10, HeadWindow DEF AssignAddressWlr
  <2>1. /\ wlQueue # <<>> /\ Head(wlQueue).kind = "address" /\ addresses' = addresses \cup {w}
        /\ UNCHANGED <<home, outrun, topEvents>> /\ PendingAssigned(w)
        /\ leftover' = IF w \in Garbled THEN leftover ELSE [leftover EXCEPT ![w] = NoWindow]
    BY <1>10 DEF AssignAddressWlr
  <2>2. w \notin addresses
    <3>1. OnTheWay(w) /\ WindowSound(w)
      BY <2>1, TakenOwn, Kinds DEF OnTheWay
    <3> QED BY <3>1 DEF WindowSound, OneStage
  <2>3. Garbled' = Garbled
    BY <2>1, TopAssumption DEF Garbled, TopTypeOK
  <2>4. v \in Open /\ v \notin addresses \cap Garbled /\ InPlace(v) => InPlace(v)'
    <3>1. v \in Open => home[v] # -1
      BY TopAssumption DEF Open, TopTypeOK
    <3> DEFINE assigned == DOMAIN opening \cap (addresses \cup {w})
    <3>2. /\ wid'[v] = IF v \in assigned /\ opening[v] # -1 THEN opening[v] ELSE wid[v]
          /\ opening' = [u \in DOMAIN opening \ assigned |-> opening[u]]
      BY <2>1 DEF PendingAssigned
    <3>3. v \in addresses /\ v \notin Garbled => v \notin assigned
      BY DEF HandlesSound
    <3>4. v \in addresses /\ v \notin Garbled => (InPlace(v) => InPlace(v)')
      BY <2>1, <3>2, <3>3 DEF InPlace
    <3>5. v # w /\ v \notin addresses => (InPlace(v) => InPlace(v)')
      BY <2>1, <3>2 DEF InPlace
    <3>6. v = w /\ v \in Open => (InPlace(v) => InPlace(v)')
      BY <2>1, <2>2, <3>1, <3>2 DEF InPlace
    <3> QED BY <3>4, <3>5, <3>6
  <2>5. CASE v \in (addresses \cap Garbled)'
    BY <2>5 DEF PlaceTold
  <2>6. CASE v \notin (addresses \cap Garbled)'
    <3>1. v \notin addresses \cap Garbled
      BY <2>1, <2>3, <2>6
    <3> QED BY <1>0, <2>1, <2>4, <3>1, ToldSame, PlaceKept DEF Open
  <2> QED BY <2>5, <2>6
<1>11. CASE ToplevelClosed
  <2> PICK w \in Windows : w = Head(wlQueue).win
    BY <1>11, HeadWindow DEF ToplevelClosed
  <2>1. /\ wlQueue # <<>> /\ Head(wlQueue).kind = "closed" /\ addresses' = addresses \ {w}
        /\ wid' = [wid EXCEPT ![w] = 0] /\ outrun' = outrun \ {w}
        /\ UNCHANGED <<home, topEvents, opening, leftover>>
    BY <1>11 DEF ToplevelClosed
  <2>2. w \notin Open
    <3>1. Holds(wlQueue, Ends(w)) /\ WindowSound(w)
      BY <2>1, TakenOwn, Kinds
    <3> QED BY <3>1 DEF WindowSound, OpenKept
  <2>3. CASE v = w
    BY <2>1, <2>2, <2>3 DEF PlaceTold, Open
  <2>4. CASE v # w
    <3>1. InPlace(v) => InPlace(v)'
      BY <2>1, <2>4 DEF InPlace, TopTypeOK
    <3> QED BY <1>0, <2>1, <2>4, <3>1, ToldSame, PlaceKept DEF Open, Garbled
  <2> QED BY <2>3, <2>4
<1>12. CASE OnHyprWindowOpened \/ OnWindowMoveWorkspace
  <2>1. /\ topEvents # <<>> /\ topEvents' = Tail(topEvents) /\ Head(topEvents).kind # "activewindowv2"
        /\ UNCHANGED <<home, addresses, leftover>>
    BY <1>12 DEF OnHyprWindowOpened, OnWindowMoveWorkspace
  <2> PICK w \in Windows : w = Head(topEvents).win
    BY <2>1, HeadOf, LineSound DEF TopTypeOK
  <2> PICK s \in Spaces : s = Head(topEvents).space
    BY <2>1, HeadOf, LineSound DEF TopTypeOK
  <2>2. IF w \in addresses \ Garbled
        THEN /\ wid' = [wid EXCEPT ![w] = s] /\ opening' = opening
             /\ outrun \ {w} \subseteq outrun'
        ELSE /\ wid' = wid /\ outrun \subseteq outrun'
             /\ w \in outrun' \/ opening' = WithOpening(w, s)
             /\ opening' = opening \/ opening' = WithOpening(w, s)
    BY <1>12 DEF OnHyprWindowOpened, OnWindowMoveWorkspace, HandlesSound
  <2>3. CASE v # w
    <3>1. ToldOf(topEvents, topEvents', v)
      BY <2>1, <2>3, OthersLines DEF TopTypeOK
    <3>2. InPlace(v) => InPlace(v)'
      BY <2>1, <2>2, <2>3 DEF InPlace, TopTypeOK, WithOpening
    <3>3. v \in outrun => v \in outrun'
      BY <2>2, <2>3
    <3> QED BY <1>0, <2>1, <3>1, <3>2, <3>3, PlaceKept DEF Open, Garbled
  <2>4. CASE v = w
    <3> SUFFICES ASSUME w \in Open, w \notin addresses \cap Garbled PROVE PlaceTold(w)'
      BY <2>1, <2>4 DEF PlaceTold, Open, Garbled
    <3>1. /\ Mended(topEvents', Puts(w, Spaces \ {home[w]}), Puts(w, {home[w]}))
          /\ s = home[w] \/ Holds(topEvents', Puts(w, Spaces))
      BY <1>0, <2>1, <2>4, FirstPlace
    <3>2. s = home[w] => w \in outrun' \/ InPlace(w)'
      BY <2>1, <2>2 DEF InPlace, TopTypeOK, WithOpening
    <3> QED BY <2>1, <3>1, <3>2 DEF PlaceTold
  <2> QED BY <2>3, <2>4
<1>13. CASE HandleHyprClientsPayload
  <2> DEFINE told == clients.of
             late == {w \in DOMAIN told \ DOMAIN opening : Holders(w) = {}}
  <2> PICK found \in FoundFor(DOMAIN told) :
        /\ wid' = [u \in Windows |-> IF u \in found THEN told[AddressOf(u)] ELSE wid[u]]
        /\ opening' = [w \in DOMAIN opening \cup late |-> IF w \in late THEN -1 ELSE opening[w]]
        /\ outrun' = (outrun \ (found \cap addresses))
                       \cup {w \in found \cap addresses : told[w] # home[w] /\ ~MoveUnderWay(w)}
    BY <1>13 DEF HandleHyprClientsPayload
  <2>1. UNCHANGED <<home, topEvents, addresses, leftover>>
    BY <1>13 DEF HandleHyprClientsPayload
  <2>2. MoveUnderWay(v) => Holds(topEvents, Puts(v, Spaces))
    <3> SUFFICES ASSUME NEW i \in DOMAIN topEvents, topEvents[i].win = v, topEvents[i].kind # "activewindowv2"
                 PROVE  topEvents[i] \in Puts(v, Spaces)
      BY DEF MoveUnderWay, Holds
    <3>1. topEvents[i] \in TopLines
      BY ElementOfSeq, LenProperties DEF TopTypeOK
    <3>2. /\ topEvents[i].kind \in {"openwindow", "movewindowv2"} /\ topEvents[i].space \in Spaces
          /\ topEvents[i] = Line(topEvents[i].kind, v, topEvents[i].space)
      BY <3>1, LineSound
    <3> QED BY <3>2 DEF Puts
  <2>3. CASE v \in found \cap addresses
    <3>1. v \in addresses /\ v \in addresses' /\ wid'[v] = told[v]
      BY <2>1, <2>3 DEF AddressOf
    <3>2. v \in outrun' \/ told[v] = home[v] \/ MoveUnderWay(v)
      <4> HIDE DEF told
      <4> QED BY <2>1, <2>3
    <3>3. told[v] = home[v] => InPlace(v)'
      BY <2>1, <3>1 DEF InPlace
    <3> HIDE DEF told, late
    <3> QED BY <1>0, <2>1, <2>2, <3>2, <3>3 DEF PlaceTold, Open, Garbled
  <2>4. CASE v \notin found \cap addresses
    <3>1. InPlace(v) => InPlace(v)'
      <4>1. v \in addresses => wid'[v] = wid[v]
        BY <2>1, <2>4
      <4>2. v \in DOMAIN opening => v \in DOMAIN opening' /\ opening'[v] = opening[v]
        BY <2>1
      <4> QED BY <2>1, <4>1, <4>2 DEF InPlace
    <3>2. v \in outrun => v \in outrun'
      BY <2>1, <2>4
    <3> QED BY <1>0, <2>1, <3>1, <3>2, ToldSame, PlaceKept DEF Open, Garbled
  <2> QED BY <2>3, <2>4
<1> QED BY <1>2, <1>3, <1>4, <1>5, <1>6, <1>7, <1>8, <1>9, <1>10, <1>11, <1>12, <1>13, <1>14, <1>15 DEF TopNext

LEMMA InitTopInv == TopInit => TopInv
<1> SUFFICES ASSUME TopInit PROVE TopInv
  OBVIOUS
<1>1. /\ home = [w \in Windows |-> 0] /\ announced = <<>> /\ items = <<>> /\ itemsSeen = {}
      /\ topEvents = <<>> /\ activeTop = NoWindow /\ addresses = {} /\ extOf = {} /\ extWaiting = {}
  BY DEF TopInit
<1>2. IsInjective(announced) /\ ToSet(announced) = {} /\ announced \in Seq(Windows)
  BY <1>1 DEF IsInjective, ToSet
<1>3. ListsSound
  <2>1. Enlists(<<>>, ToSet(announced) \cap search, OrderOf(announced))
    BY <1>2 DEF Enlists, InOrder, Covers
  <2>2. items = Filtered(announced, search)
    BY <1>1, <1>2, <2>1, FiltersOnly
  <2>3. ToSet(items) = {}
    BY <1>1 DEF ToSet
  <2> QED BY <1>2, <2>2, <2>3 DEF ListsSound
<1>4. HandlesSound
  BY <1>1, <1>2 DEF HandlesSound, Ready
<1>5. FocusTold
  BY <1>1 DEF FocusTold, Mended
<1>6. \A w \in Windows : PlaceTold(w)
  BY <1>1 DEF PlaceTold, Open
<1> QED BY <1>3, <1>4, <1>5, <1>6, OpenInit DEF TopInv, WindowsSound

LEMMA NextTopInv == TopInv /\ [TopNext]_topVars => TopInv'
<1> SUFFICES ASSUME TopInv, [TopNext]_topVars PROVE TopInv'
  OBVIOUS
<1>1. TopTypeOK /\ HandlesSound /\ ListsSound /\ FocusTold /\ WindowsSound /\ PlacesTold
  BY DEF TopInv, WindowsSound, PlacesTold
<1>2. announced' \in Seq(Windows) /\ ListsSound' /\ HandlesSound'
  BY <1>1, NextLists
<1>3. TopTypeOK' /\ WindowsSound' /\ PlacesTold' /\ FocusTold'
  BY <1>1, <1>2, NextTopType, NextWindows, NextPlaces, NextFocus
<1> QED BY <1>2, <1>3 DEF TopInv, WindowsSound, PlacesTold

LEMMA TopAgrees == TopInv => ToplevelsAgree
<1> SUFFICES ASSUME TopInv PROVE ToplevelsAgree
  OBVIOUS
<1>1. Ready \subseteq instances
  BY DEF TopInv, HandlesSound, WindowSound, OneStage, Ready, ToSet, TopTypeOK
<1>2. ASSUME TopQuiet
      PROVE  /\ Ready = Open \ Garbled /\ Open \subseteq extOf
             /\ \A w \in Open \ (outrun \cup Garbled) : wid[w] = home[w]
             /\ activeTop \in {NoWindow, focused}
  <2>1. \A B : ~Holds(wlQueue, B) /\ ~Holds(mapAsks, B) /\ ~Holds(topEvents, B)
    BY <1>2 DEF TopQuiet, Holds
  <2>2. Open \subseteq Windows /\ Ready \subseteq Windows /\ Ready = addresses \ Garbled /\ extWaiting \cap addresses = {}
    BY DEF Open, TopInv, TopTypeOK, HandlesSound, Ready, ToSet
  <2>3. ASSUME NEW w \in Windows
        PROVE  /\ w \in Open <=> w \in addresses
               /\ w \in Open => w \in extOf /\ (w \in outrun \cup Garbled \/ wid[w] = home[w])
    BY <2>1, <2>2 DEF TopInv, WindowSound, OpenKept, ClosedLeaves, OnTheWay, AddressAsked, PlaceTold, InPlace
  <2>4. activeTop \in {NoWindow, focused}
    BY <2>1 DEF TopInv, FocusTold
  <2> QED BY <2>2, <2>3, <2>4
<1> QED BY <1>1, <1>2 DEF ToplevelsAgree, TopInv, HandlesSound, ListsSound

\* Once the three channels are empty the list is the windows that are open, each where
\* Hyprland has it unless its last move was outrun; at every moment the filtered list is
\* the filter of the full one and QML misses none of it: for every set of windows,
\* workspaces and searches, and any number of steps.
THEOREM ToplevelsAlwaysAgree == TopSpec => []ToplevelsAgree
<1> QED BY InitTopInv, NextTopInv, TopAgrees, PTL DEF TopSpec
=============================================================================
