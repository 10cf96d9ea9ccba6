------------------------- MODULE SystemTray_proofs -------------------------
(***************************************************************************)
(* Theorems about the system tray: what the watcher, the host and the bus  *)
(* agree on, for every set of services and items, for every order in which *)
(* messages arrive and without a bound on how many are on their way.       *)
(***************************************************************************)
EXTENDS SystemTray, Induction, SequenceTheorems, FiniteSetTheorems, TLAPS

-----------------------------------------------------------------------------
(* Two queues, the first of which is read before the second: what is in    *)
(* the inbox comes before what is in the outbox.                           *)

\* A message of B is on its way.
Comes(p, q, B) == (\E j \in DOMAIN p : p[j] \in B) \/ (\E j \in DOMAIN q : q[j] \in B)

\* Every message of A that is on its way has one of B behind it.
Followed(p, q, A, B) ==
  /\ \A k \in DOMAIN p : p[k] \in A => \/ \E j \in DOMAIN p : j > k /\ p[j] \in B
                                       \/ \E j \in DOMAIN q : q[j] \in B
  /\ \A k \in DOMAIN q : q[k] \in A => \E j \in DOMAIN q : j > k /\ q[j] \in B

\* The head of the first queue is taken.
LEMMA TakeHead ==
  ASSUME NEW M, NEW p \in Seq(M), NEW q, NEW A, NEW B, p # <<>>
  PROVE  /\ Followed(p, q, A, B) => Followed(Tail(p), q, A, B)
         /\ Followed(p, q, A, B) /\ Head(p) \in A => Comes(Tail(p), q, B)
         /\ Comes(p, q, B) /\ Head(p) \notin B => Comes(Tail(p), q, B)
         /\ Comes(Tail(p), q, B) => Comes(p, q, B)
<1>1. /\ Len(p) \in Nat \ {0} /\ DOMAIN p = 1 .. Len(p) /\ DOMAIN Tail(p) = 1 .. (Len(p) - 1)
      /\ \A k \in 1 .. (Len(p) - 1) : Tail(p)[k] = p[k + 1]
      /\ Head(p) = p[1]
  BY HeadTailProperties, LenProperties, EmptySeq
<1>2. ASSUME NEW j \in DOMAIN p, j > 1 PROVE j - 1 \in DOMAIN Tail(p) /\ Tail(p)[j - 1] = p[j]
  BY <1>1, <1>2
<1>3. ASSUME NEW k \in DOMAIN Tail(p) PROVE k + 1 \in DOMAIN p /\ Tail(p)[k] = p[k + 1] /\ k \in Nat
  BY <1>1
<1>4. ASSUME Followed(p, q, A, B) PROVE Followed(Tail(p), q, A, B)
  <2> SUFFICES ASSUME NEW k \in DOMAIN Tail(p), Tail(p)[k] \in A, ~ \E j \in DOMAIN q : q[j] \in B
               PROVE  \E j \in DOMAIN Tail(p) : j > k /\ Tail(p)[j] \in B
    BY <1>4 DEF Followed
  <2>1. PICK j \in DOMAIN p : j > k + 1 /\ p[j] \in B
    BY <1>3, <1>4 DEF Followed
  <2>2. j > 1 /\ j - 1 > k
    BY <1>1, <1>3, <2>1
  <2> QED BY <1>2, <2>1, <2>2
<1>5. ASSUME Followed(p, q, A, B), Head(p) \in A PROVE Comes(Tail(p), q, B)
  <2> SUFFICES ASSUME ~ \E j \in DOMAIN q : q[j] \in B
               PROVE  \E j \in DOMAIN Tail(p) : Tail(p)[j] \in B
    BY DEF Comes
  <2>1. PICK j \in DOMAIN p : j > 1 /\ p[j] \in B
    BY <1>1, <1>5 DEF Followed
  <2> QED BY <1>2, <2>1
<1>6. ASSUME Comes(p, q, B), Head(p) \notin B PROVE Comes(Tail(p), q, B)
  <2> SUFFICES ASSUME ~ \E j \in DOMAIN q : q[j] \in B
               PROVE  \E j \in DOMAIN Tail(p) : Tail(p)[j] \in B
    BY DEF Comes
  <2>1. PICK j \in DOMAIN p : p[j] \in B
    BY <1>6 DEF Comes
  <2>2. j > 1
    BY <1>1, <1>6, <2>1
  <2> QED BY <1>2, <2>1, <2>2
<1>7. Comes(Tail(p), q, B) => Comes(p, q, B)
  BY <1>3 DEF Comes
<1> QED BY <1>4, <1>5, <1>6, <1>7

\* Messages may be put behind a queue one after the other or together, or none at all.
Associates(s, t, u) == (s \o t) \o u = s \o (t \o u)
Unchanging(s) == s \o <<>> = s
LEMMA Regroup ==
  ASSUME NEW M, NEW s \in Seq(M), NEW t \in Seq(M), NEW u \in Seq(M)
  PROVE  Associates(s, t, u)
BY ConcatAssociative DEF Associates
LEMMA PutNone == ASSUME NEW M, NEW s \in Seq(M) PROVE Unchanging(s)
BY ConcatEmptySeq DEF Unchanging

\* Messages that are not of A are put at the end of either queue.
LEMMA PutBehind ==
  ASSUME NEW M, NEW p \in Seq(M), NEW q \in Seq(M), NEW r \in Seq(M), NEW A, NEW B
  PROVE  /\ Comes(p, q, B) => Comes(p \o r, q, B) /\ Comes(p, q \o r, B)
         /\ (\E j \in DOMAIN r : r[j] \in B) => Comes(p \o r, q, B) /\ Comes(p, q \o r, B)
         /\ Comes(p \o r, q, B) => Comes(p, q, B) \/ \E j \in DOMAIN r : r[j] \in B
         /\ Followed(p, q, A, B) /\ (\A j \in DOMAIN r : r[j] \notin A) =>
              Followed(p \o r, q, A, B) /\ Followed(p, q \o r, A, B)
         /\ (\E j \in DOMAIN r : r[j] \in B) /\ (\A j \in DOMAIN r : r[j] \notin A) =>
              Followed(p \o r, <<>>, A, B) /\ Followed(p, q \o r, A, B)
<1>1. ASSUME NEW s \in Seq(M)
      PROVE  /\ DOMAIN s = 1 .. Len(s) /\ Len(s) \in Nat
             /\ DOMAIN (s \o r) = 1 .. (Len(s) + Len(r))
             /\ \A k \in DOMAIN s : k \in DOMAIN (s \o r) /\ (s \o r)[k] = s[k]
             /\ \A k \in DOMAIN r : Len(s) + k \in DOMAIN (s \o r) /\ (s \o r)[Len(s) + k] = r[k]
             /\ \A k \in DOMAIN (s \o r) :
                  k \in DOMAIN s \/ \E j \in DOMAIN r : k = Len(s) + j /\ (s \o r)[k] = r[j]
  <2>1. /\ DOMAIN s = 1 .. Len(s) /\ Len(s) \in Nat /\ Len(r) \in Nat /\ DOMAIN r = 1 .. Len(r)
        /\ DOMAIN (s \o r) = 1 .. (Len(s) + Len(r))
        /\ \A k \in 1 .. (Len(s) + Len(r)) : (s \o r)[k] = IF k <= Len(s) THEN s[k] ELSE r[k - Len(s)]
    BY ConcatProperties, LenProperties
  <2>2. \A k \in DOMAIN s : k \in DOMAIN (s \o r) /\ (s \o r)[k] = s[k]
    BY <2>1
  <2>3. \A k \in DOMAIN r : Len(s) + k \in DOMAIN (s \o r) /\ (s \o r)[Len(s) + k] = r[k]
    <3> TAKE k \in DOMAIN r
    <3>1. Len(s) + k \in DOMAIN (s \o r) /\ ~(Len(s) + k <= Len(s)) /\ (Len(s) + k) - Len(s) = k
      BY <2>1
    <3> QED BY <2>1, <3>1
  <2>4. ASSUME NEW k \in DOMAIN (s \o r), k \notin DOMAIN s
        PROVE  \E j \in DOMAIN r : k = Len(s) + j /\ (s \o r)[k] = r[j]
    <3>1. k - Len(s) \in DOMAIN r /\ k = Len(s) + (k - Len(s))
      BY <2>1, <2>4
    <3> QED BY <2>3, <3>1
  <2> QED BY <2>1, <2>2, <2>3, <2>4
<1>2. Comes(p, q, B) => Comes(p \o r, q, B) /\ Comes(p, q \o r, B)
  BY <1>1 DEF Comes
<1>3. ASSUME NEW m \in DOMAIN r, r[m] \in B PROVE Comes(p \o r, q, B) /\ Comes(p, q \o r, B)
  <2>1. /\ Len(p) + m \in DOMAIN (p \o r) /\ (p \o r)[Len(p) + m] \in B
        /\ Len(q) + m \in DOMAIN (q \o r) /\ (q \o r)[Len(q) + m] \in B
    BY <1>1, <1>3
  <2> QED BY <2>1 DEF Comes
<1>4. ASSUME Followed(p, q, A, B), \A j \in DOMAIN r : r[j] \notin A
      PROVE  Followed(p \o r, q, A, B) /\ Followed(p, q \o r, A, B)
  BY <1>1, <1>4 DEF Followed
<1>5. ASSUME \E j \in DOMAIN r : r[j] \in B, \A j \in DOMAIN r : r[j] \notin A
      PROVE  Followed(p \o r, <<>>, A, B) /\ Followed(p, q \o r, A, B)
  <2>1. PICK m \in DOMAIN r : r[m] \in B
    BY <1>5
  <2>2. \A s \in Seq(M) : \A k \in DOMAIN s : Len(s) + m > k
    BY LenProperties, <1>1
  <2>3. Followed(p \o r, <<>>, A, B)
    <3> SUFFICES ASSUME NEW k \in DOMAIN (p \o r), (p \o r)[k] \in A
                 PROVE  \E j \in DOMAIN (p \o r) : j > k /\ (p \o r)[j] \in B
      BY DEF Followed
    <3>1. Len(p) + m \in DOMAIN (p \o r) /\ (p \o r)[Len(p) + m] \in B
      BY <1>1, <2>1
    <3>2. k \in DOMAIN p
      BY <1>1, <1>5
    <3>3. Len(p) + m > k
      BY <2>2, <3>2
    <3> QED BY <3>1, <3>3
  <2>4. Followed(p, q \o r, A, B)
    <3>1. Len(q) + m \in DOMAIN (q \o r) /\ (q \o r)[Len(q) + m] \in B
      BY <1>1, <2>1
    <3>2. ASSUME NEW k \in DOMAIN (q \o r), (q \o r)[k] \in A PROVE k < Len(q) + m
      <4>1. k \in DOMAIN q
        BY <1>1, <1>5, <3>2
      <4> QED BY <1>1, <2>2, <4>1
    <3> QED BY <3>1, <3>2 DEF Followed
  <2> QED BY <2>3, <2>4
<1>6. Comes(p \o r, q, B) => Comes(p, q, B) \/ \E j \in DOMAIN r : r[j] \in B
  BY <1>1 DEF Comes
<1> QED BY <1>2, <1>3, <1>4, <1>5, <1>6

\* The head of the second queue is put behind the first, or dropped.
LEMMA Carried ==
  ASSUME NEW M, NEW p \in Seq(M), NEW q \in Seq(M), NEW A, NEW B, q # <<>>
  PROVE  /\ Comes(p, q, B) => Comes(Append(p, Head(q)), Tail(q), B)
         /\ Followed(p, q, A, B) => Followed(Append(p, Head(q)), Tail(q), A, B)
         /\ Head(q) \notin B =>
              /\ Comes(p, q, B) => Comes(p, Tail(q), B)
              /\ Followed(p, q, A, B) => Followed(p, Tail(q), A, B)
<1> DEFINE t == Tail(q)
           a == Append(p, Head(q))
<1>1. /\ Len(q) \in Nat \ {0} /\ DOMAIN q = 1 .. Len(q) /\ DOMAIN t = 1 .. (Len(q) - 1)
      /\ \A k \in 1 .. (Len(q) - 1) : t[k] = q[k + 1]
      /\ Head(q) = q[1]
  BY HeadTailProperties, LenProperties, EmptySeq
<1>2. /\ Len(p) \in Nat /\ DOMAIN p = 1 .. Len(p) /\ DOMAIN a = 1 .. (Len(p) + 1)
      /\ \A k \in DOMAIN p : a[k] = p[k]
      /\ a[Len(p) + 1] = q[1]
  BY <1>1, AppendProperties, LenProperties
<1> HIDE DEF t, a
<1>3. ASSUME NEW j \in DOMAIN q, j > 1 PROVE j - 1 \in DOMAIN t /\ t[j - 1] = q[j]
  BY <1>1, <1>3
<1>4. ASSUME NEW k \in DOMAIN t PROVE k + 1 \in DOMAIN q /\ t[k] = q[k + 1] /\ k \in Nat
  BY <1>1
<1>5. ASSUME NEW j \in DOMAIN q
      PROVE  IF j = 1 THEN Len(p) + 1 \in DOMAIN a /\ a[Len(p) + 1] = q[j]
                      ELSE j - 1 \in DOMAIN t /\ t[j - 1] = q[j]
  BY <1>1, <1>2, <1>3
<1>6. ASSUME NEW k \in DOMAIN q, q[k] \in A, Followed(p, q, A, B)
      PROVE  \E j \in DOMAIN t : j > k - 1 /\ t[j] \in B
  <2>1. PICK j \in DOMAIN q : j > k /\ q[j] \in B
    BY <1>6 DEF Followed
  <2>2. j > 1 /\ j - 1 > k - 1
    BY <1>1, <2>1
  <2> QED BY <1>3, <2>1, <2>2
<1>7. ASSUME Comes(p, q, B) PROVE Comes(a, t, B) /\ (q[1] \notin B => Comes(p, t, B))
  <2>1. ASSUME NEW j \in DOMAIN p, p[j] \in B PROVE Comes(a, t, B) /\ Comes(p, t, B)
    BY <1>2, <2>1 DEF Comes
  <2>2. ASSUME NEW j \in DOMAIN q, q[j] \in B PROVE Comes(a, t, B) /\ (j # 1 => Comes(p, t, B))
    BY <1>5, <2>2 DEF Comes
  <2> QED BY <1>7, <2>1, <2>2 DEF Comes
<1>8. ASSUME Followed(p, q, A, B) PROVE Followed(a, t, A, B) /\ (q[1] \notin B => Followed(p, t, A, B))
  <2>1. ASSUME NEW k \in DOMAIN t, t[k] \in A PROVE \E j \in DOMAIN t : j > k /\ t[j] \in B
    <3>1. \E j \in DOMAIN t : j > (k + 1) - 1 /\ t[j] \in B
      BY <1>4, <1>6, <1>8, <2>1
    <3> QED BY <1>4, <3>1
  <2>2. ASSUME NEW k \in DOMAIN p, p[k] \in A
        PROVE  /\ (\E j \in DOMAIN a : j > k /\ a[j] \in B) \/ \E j \in DOMAIN t : t[j] \in B
               /\ q[1] \notin B => (\E j \in DOMAIN p : j > k /\ p[j] \in B) \/ \E j \in DOMAIN t : t[j] \in B
    <3>1. ASSUME NEW j \in DOMAIN p, j > k, p[j] \in B PROVE j \in DOMAIN a /\ a[j] \in B
      BY <1>2, <3>1
    <3>2. Len(p) + 1 > k
      BY <1>2
    <3> QED BY <1>5, <1>8, <2>2, <3>1, <3>2 DEF Followed
  <2>3. ASSUME a[Len(p) + 1] \in A PROVE \E j \in DOMAIN t : t[j] \in B
    BY <1>1, <1>2, <1>6, <1>8, <2>3
  <2>4. ASSUME NEW k \in DOMAIN a, a[k] \in A
        PROVE  (\E j \in DOMAIN a : j > k /\ a[j] \in B) \/ \E j \in DOMAIN t : t[j] \in B
    <3>1. CASE k \in DOMAIN p
      BY <1>2, <2>2, <2>4, <3>1
    <3>2. CASE k = Len(p) + 1
      BY <2>3, <2>4, <3>2
    <3> QED BY <1>2, <3>1, <3>2
  <2> QED BY <2>1, <2>2, <2>4 DEF Followed
<1> QED BY <1>1, <1>7, <1>8 DEF a, t

\* A message that is not of A is put somewhere into the first queue.
LEMMA PutBetween ==
  ASSUME NEW M, NEW p \in Seq(M), NEW q, NEW A, NEW B, NEW m \in M, NEW n \in 1 .. (Len(p) + 1)
  PROVE  /\ InsertAt(p, n, m) \in Seq(M)
         /\ \E j \in DOMAIN InsertAt(p, n, m) : InsertAt(p, n, m)[j] = m
         /\ \A k \in DOMAIN p : \E j \in DOMAIN InsertAt(p, n, m) : InsertAt(p, n, m)[j] = p[k]
         /\ \A j \in DOMAIN InsertAt(p, n, m) :
              InsertAt(p, n, m)[j] = m \/ \E k \in DOMAIN p : InsertAt(p, n, m)[j] = p[k]
         /\ Comes(p, q, B) \/ m \in B => Comes(InsertAt(p, n, m), q, B)
         /\ Comes(InsertAt(p, n, m), q, B) => Comes(p, q, B) \/ m \in B
         /\ m \notin A /\ Followed(p, q, A, B) => Followed(InsertAt(p, n, m), q, A, B)
<1> DEFINE r == InsertAt(p, n, m)
<1>1. /\ Len(p) \in Nat /\ DOMAIN p = 1 .. Len(p) /\ n \in Nat /\ 1 <= n /\ n <= Len(p) + 1
      /\ \A k \in DOMAIN p : p[k] \in M
  BY LenProperties, ElementOfSeq
<1>2. r = [k \in 1 .. (Len(p) + 1) |-> IF k < n THEN p[k] ELSE IF k = n THEN m ELSE p[k - 1]]
  BY PutAt
<1>3. r \in Seq(M) /\ DOMAIN r = 1 .. (Len(p) + 1)
  BY <1>1, <1>2
<1> HIDE DEF r
<1>4. n \in DOMAIN r /\ r[n] = m
  BY <1>1, <1>2
<1>5. ASSUME NEW k \in DOMAIN p
      PROVE  /\ k < n => k \in DOMAIN r /\ r[k] = p[k]
             /\ k >= n => k + 1 \in DOMAIN r /\ r[k + 1] = p[k]
  <2>1. k \in 1 .. (Len(p) + 1) /\ k + 1 \in 1 .. (Len(p) + 1) /\ (k + 1) - 1 = k /\ k \in Nat
    BY <1>1
  <2> QED BY <1>1, <1>2, <2>1
<1>6. ASSUME NEW j \in DOMAIN r, j # n
      PROVE  IF j < n THEN j \in DOMAIN p /\ r[j] = p[j] ELSE j - 1 \in DOMAIN p /\ r[j] = p[j - 1]
  BY <1>1, <1>2, <1>3, <1>6
<1>7. \A k \in DOMAIN p : \E j \in DOMAIN r : r[j] = p[k]
  BY <1>1, <1>5
<1>8. \A j \in DOMAIN r : r[j] = m \/ \E k \in DOMAIN p : r[j] = p[k]
  BY <1>4, <1>6
<1>9. Comes(p, q, B) \/ m \in B => Comes(r, q, B)
  BY <1>4, <1>7 DEF Comes
<1>11. Comes(r, q, B) => Comes(p, q, B) \/ m \in B
  BY <1>8 DEF Comes
<1>10. ASSUME m \notin A, Followed(p, q, A, B) PROVE Followed(r, q, A, B)
  <2> SUFFICES ASSUME NEW k \in DOMAIN r, r[k] \in A, ~ \E j \in DOMAIN q : q[j] \in B
               PROVE  \E j \in DOMAIN r : j > k /\ r[j] \in B
    BY <1>10 DEF Followed
  <2>1. PICK l \in DOMAIN p : r[k] = p[l] /\ k = IF l < n THEN l ELSE l + 1
    <3>1. k # n
      BY <1>4, <1>10
    <3>2. CASE k < n
      BY <1>6, <3>1, <3>2
    <3>3. CASE k > n
      <4>1. k - 1 \in DOMAIN p /\ r[k] = p[k - 1] /\ ~(k - 1 < n) /\ k = (k - 1) + 1
        BY <1>1, <1>3, <1>6, <3>3
      <4> QED BY <4>1
    <3> QED BY <1>1, <1>3, <3>1, <3>2, <3>3
  <2>2. PICK j \in DOMAIN p : j > l /\ p[j] \in B
    BY <1>10, <2>1 DEF Followed
  <2>3. CASE j < n
    <3>1. j > k
      BY <1>1, <2>1, <2>2, <2>3
    <3> QED BY <1>5, <2>2, <2>3, <3>1
  <2>4. CASE j >= n
    <3>1. j + 1 > k
      BY <1>1, <2>1, <2>2
    <3> QED BY <1>5, <2>2, <2>4, <3>1
  <2> QED BY <1>1, <2>3, <2>4
<1> QED BY <1>3, <1>4, <1>7, <1>8, <1>9, <1>10, <1>11 DEF r

-----------------------------------------------------------------------------
(* The tray *)

AllMsgs == Messages \cup Requests

LEMMA MsgIs ==
  /\ \A a, b, c, d : Msg(a, b) = Msg(c, d) <=> a = c /\ b = d
  /\ \A a, b : Msg(a, b).type = a /\ Msg(a, b).of = b
BY DEF Msg

LEMMA ItemMsgs ==
  ASSUME NEW i \in Items
  PROVE  /\ Msg("call", i) \in Messages /\ Msg("reg", i) \in Messages /\ Msg("unreg", i) \in Messages
         /\ Msg("reg", i) \in Requests /\ Msg("unreg", i) \in Requests
BY DEF Msg, Messages, Requests

LEMMA ServiceMsgs ==
  ASSUME NEW s \in Services
  PROVE  /\ Msg("gone", s) \in Messages
         /\ Msg("watch", s) \in Requests /\ Msg("unwatch", s) \in Requests
BY DEF Msg, Messages, Requests

LEMMA HostMsgs == ASSUME NEW s PROVE Msg("host", s) \in Messages <=> s \in HostServices
BY DEF Msg, Messages

LEMMA OtherMsgs ==
  /\ Msg("lost", NoArg) \in Messages /\ Msg("new", NoArg) \in Messages
  /\ \A is \in SUBSET Items : Msg("list", is) \in Messages
BY DEF Msg, Messages

LEMMA RequestIs ==
  ASSUME NEW m \in Requests
  PROVE  /\ m = Msg(m.type, m.of)
         /\ \/ m.type \in {"reg", "unreg"} /\ m.of \in Items
            \/ m.type \in {"watch", "unwatch"} /\ m.of \in Services
BY DEF Msg, Requests

TrayTypes ==
  /\ alive \subseteq Services /\ owner \in {"us", "other", "none"}
  /\ otherItems \subseteq Items /\ asked \in BOOLEAN /\ handed \in BOOLEAN
  /\ items \in Seq(Items) /\ \A j, k \in DOMAIN items : items[j] = items[k] => j = k
  /\ hosts \subseteq HostServices /\ watches \subseteq Services /\ hostItems \subseteq Items
  /\ inbox \in Seq(Messages) /\ outbox \in Seq(Requests)
  /\ matched \subseteq Services /\ crashed \in BOOLEAN /\ missed \subseteq Services

LEMMA CountTo ==
  ASSUME NEW n \in Nat PROVE IsFiniteSet(1 .. n) /\ Cardinality(1 .. n) = n
BY FS_Interval

LEMMA TypesEnough == TrayTypes => TypeOK
<1> SUFFICES ASSUME TrayTypes PROVE TypeOK
  OBVIOUS
<1>1. ToSet(items) \subseteq Items /\ ToSet(inbox) \subseteq Messages /\ ToSet(outbox) \subseteq Requests
  BY ElementOfSeq, LenProperties DEF TrayTypes, ToSet
<1>2. Cardinality(ToSet(items)) = Len(items)
  <2>1. Len(items) \in Nat /\ DOMAIN items = 1 .. Len(items) /\ items \in [1 .. Len(items) -> ToSet(items)]
    BY LenProperties DEF TrayTypes, ToSet
  <2>2. \A j, k \in 1 .. Len(items) : items[j] = items[k] => j = k
    BY <2>1 DEF TrayTypes
  <2>3. \A i \in ToSet(items) : \E k \in 1 .. Len(items) : items[k] = i
    BY <2>1 DEF ToSet
  <2>4. items \in Bijection(1 .. Len(items), ToSet(items))
    BY <2>1, <2>2, <2>3 DEF Bijection, Injection, Surjection, IsInjective
  <2>5. IsFiniteSet(1 .. Len(items)) /\ Cardinality(1 .. Len(items)) = Len(items)
    BY <2>1, CountTo
  <2>6. ExistsBijection(1 .. Len(items), ToSet(items))
    BY <2>4 DEF ExistsBijection
  <2> QED BY <2>5, <2>6, FS_Bijection
<1> QED BY <1>1, <1>2 DEF TrayTypes, TypeOK

LEMMA UnregsFinite ==
  ASSUME NEW some \in SUBSET Items
  PROVE  LET u == SetToSeq({Msg("unreg", i) : i \in some})
         IN  /\ u \in Seq(Messages)
             /\ \A k \in DOMAIN u : \E i \in some : u[k] = Msg("unreg", i)
             /\ \A i \in some : \E k \in DOMAIN u : u[k] = Msg("unreg", i)
<1> DEFINE T == {Msg("unreg", i) : i \in some}
           f == [i \in some |-> Msg("unreg", i)]
<1>1. IsFiniteSet(some)
  BY ServiceOfAssumption, FS_Subset
<1>2. f \in Surjection(some, T)
  BY DEF Surjection
<1>3. IsFiniteSet(T)
  BY <1>1, <1>2, FS_Surjection
<1>4. T \subseteq Messages
  BY ItemMsgs
<1> HIDE DEF T
<1>5. /\ SetToSeq(T) \in Seq(T)
      /\ \A k \in DOMAIN SetToSeq(T) : SetToSeq(T)[k] \in T
      /\ \A x \in T : \E k \in DOMAIN SetToSeq(T) : SetToSeq(T)[k] = x
  BY <1>3, SomeOrder
<1>6. SetToSeq(T) \in Seq(Messages)
  BY <1>4, <1>5, SeqMonotonic
<1> QED BY <1>5, <1>6 DEF T

\* What onServiceUnregistered finds in the list of items.
LEMMA FirstNamed ==
  ASSUME TrayTypes, NEW s, NEW k, k = SelectInSeq(items, LAMBDA i : StartsWithService(i, s))
  PROVE  \/ k = 0 /\ \A j \in DOMAIN items : ~StartsWithService(items[j], s)
         \/ k \in DOMAIN items /\ StartsWithService(items[k], s)
<1> DEFINE I == {j \in 1 .. Len(items) : StartsWithService(items[j], s)}
<1>1. Len(items) \in Nat /\ DOMAIN items = 1 .. Len(items)
  BY LenProperties DEF TrayTypes
<1>2. CASE I = {}
  BY <1>1, <1>2 DEF SelectInSeq
<1>3. CASE I # {}
  <2>1. PICK m \in I : \A i \in I : m <= i
    <3>1. I \in SUBSET Nat
      BY <1>1
    <3> HIDE DEF I
    <3> QED BY <1>3, <3>1, LeastNumber
  <2>2. k = Min(I)
    BY <1>3 DEF SelectInSeq
  <2>3. Min(I) \in I
    BY <2>1 DEF Min
  <2> QED BY <1>1, <2>2, <2>3
<1> QED BY <1>2, <1>3

\* The list without one of its items.
LEMMA WithoutItem ==
  ASSUME TrayTypes, NEW k \in DOMAIN items
  PROVE  /\ RemoveAt(items, k) \in Seq(Items)
         /\ \A i, j \in DOMAIN RemoveAt(items, k) :
              RemoveAt(items, k)[i] = RemoveAt(items, k)[j] => i = j
         /\ ToSet(RemoveAt(items, k)) = ToSet(items) \ {items[k]}
<1> DEFINE r == RemoveAt(items, k)
<1>1. /\ Len(items) \in Nat /\ DOMAIN items = 1 .. Len(items) /\ k \in 1 .. Len(items)
      /\ \A j \in DOMAIN items : items[j] \in Items
  BY LenProperties, ElementOfSeq DEF TrayTypes
<1>2. r = [j \in 1 .. (Len(items) - 1) |-> IF j < k THEN items[j] ELSE items[j + 1]]
  <2> DEFINE x == SubSeq(items, 1, k - 1)
             y == SubSeq(items, k + 1, Len(items))
  <2>1. /\ x \in Seq(Items) /\ Len(x) = k - 1 /\ \A j \in 1 .. (k - 1) : x[j] = items[j]
        /\ y \in Seq(Items) /\ Len(y) = Len(items) - k
        /\ \A j \in 1 .. (Len(items) - k) : y[j] = items[k + j]
    <3>1. /\ x \in Seq(Items) /\ Len(x) = IF 1 <= k - 1 THEN (k - 1) - 1 + 1 ELSE 0
          /\ \A j \in 1 .. (k - 1) - 1 + 1 : x[j] = items[1 + j - 1]
      <4>1. 1 \in Int /\ k - 1 \in Int /\ \A j \in 1 .. (k - 1) : items[j] \in Items
        BY <1>1
      <4> QED BY <4>1, SubSeqProperties
    <3>2. /\ y \in Seq(Items)
          /\ Len(y) = IF k + 1 <= Len(items) THEN Len(items) - (k + 1) + 1 ELSE 0
          /\ \A j \in 1 .. Len(items) - (k + 1) + 1 : y[j] = items[(k + 1) + j - 1]
      <4>1. k + 1 \in Int /\ Len(items) \in Int /\ \A j \in (k + 1) .. Len(items) : items[j] \in Items
        BY <1>1
      <4> QED BY <4>1, SubSeqProperties, SMTT(20)
    <3> HIDE DEF x, y
    <3>3. \A j \in 1 .. (k - 1) : x[j] = items[j]
      BY <1>1, <3>1
    <3>4. ASSUME NEW j \in 1 .. (Len(items) - k) PROVE y[j] = items[k + j]
      <4>1. j \in 1 .. Len(items) - (k + 1) + 1 /\ (k + 1) + j - 1 = k + j
        BY <1>1
      <4> QED BY <3>2, <4>1
    <3> QED BY <1>1, <3>1, <3>2, <3>3, <3>4
  <2> HIDE DEF x, y
  <2>2. r = x \o y
    BY DEF RemoveAt, x, y
  <2>3. /\ x \o y \in Seq(Items) /\ Len(x \o y) = Len(x) + Len(y)
        /\ \A j \in 1 .. Len(x) + Len(y) : (x \o y)[j] = IF j <= Len(x) THEN x[j] ELSE y[j - Len(x)]
    BY <2>1, ConcatProperties
  <2>4. Len(x) + Len(y) = Len(items) - 1
    BY <1>1, <2>1
  <2> HIDE DEF r
  <2>5. ASSUME NEW j \in 1 .. (Len(items) - 1) PROVE r[j] = IF j < k THEN items[j] ELSE items[j + 1]
    <3>1. CASE j < k
      BY <1>1, <2>1, <2>2, <2>3, <2>4, <3>1
    <3>2. CASE j >= k
      <4>1. j - Len(x) \in 1 .. (Len(items) - k) /\ k + (j - Len(x)) = j + 1 /\ ~(j <= Len(x))
        BY <1>1, <2>1, <3>2
      <4>2. y[j - Len(x)] = items[j + 1]
        BY <2>1, <4>1
      <4>3. r[j] = y[j - Len(x)]
        BY <2>2, <2>3, <2>4, <4>1
      <4> QED BY <1>1, <3>2, <4>2, <4>3
    <3> QED BY <1>1, <3>1, <3>2
  <2> QED BY <1>1, <2>2, <2>3, <2>4, <2>5, LenProperties
<1> DEFINE old(j) == IF j < k THEN j ELSE j + 1
<1>3. DOMAIN r = 1 .. (Len(items) - 1) /\ \A j \in 1 .. (Len(items) - 1) : r[j] = items[old(j)]
  BY <1>1, <1>2
<1>4. \A j \in 1 .. (Len(items) - 1) : old(j) \in DOMAIN items /\ old(j) # k
  BY <1>1
<1>5. \A i, j \in 1 .. (Len(items) - 1) : old(i) = old(j) => i = j
  BY <1>1
<1>6. ASSUME NEW i \in DOMAIN items, i # k PROVE \E j \in 1 .. (Len(items) - 1) : old(j) = i
  <2>1. CASE i < k
    <3>1. i \in 1 .. (Len(items) - 1) /\ old(i) = i
      BY <1>1, <2>1
    <3> QED BY <3>1
  <2>2. CASE i > k
    <3>1. i - 1 \in 1 .. (Len(items) - 1) /\ old(i - 1) = i
      BY <1>1, <2>2
    <3> QED BY <3>1
  <2> QED BY <1>1, <1>6, <2>1, <2>2
<1> HIDE DEF r, old
<1>7. r \in Seq(Items)
  <2>1. \A j \in 1 .. (Len(items) - 1) : r[j] \in Items
    BY <1>1, <1>3, <1>4
  <2>2. Len(items) - 1 \in Nat /\ r = [j \in 1 .. (Len(items) - 1) |-> r[j]]
    BY <1>1, <1>2, <1>3
  <2> QED BY <2>1, <2>2
<1>8. \A i, j \in DOMAIN r : r[i] = r[j] => i = j
  BY <1>3, <1>4, <1>5 DEF TrayTypes
<1>9. ToSet(r) = ToSet(items) \ {items[k]}
  <2>1. \A i \in DOMAIN items : items[i] = items[k] => i = k
    BY DEF TrayTypes
  <2>2. ASSUME NEW j \in DOMAIN r PROVE r[j] \in ToSet(items) \ {items[k]}
    <3>1. r[j] = items[old(j)] /\ old(j) \in DOMAIN items /\ old(j) # k
      BY <1>3, <1>4
    <3> QED BY <2>1, <3>1 DEF ToSet
  <2>3. ASSUME NEW i \in DOMAIN items, items[i] # items[k] PROVE items[i] \in ToSet(r)
    <3>1. PICK j \in 1 .. (Len(items) - 1) : old(j) = i
      BY <1>6, <2>3
    <3>2. j \in DOMAIN r /\ r[j] = items[i]
      BY <1>3, <3>1
    <3> QED BY <3>2 DEF ToSet
  <2> QED BY <2>2, <2>3 DEF ToSet
<1> QED BY <1>7, <1>8, <1>9 DEF r

LEMMA InitTypes == Init => TrayTypes
<1> SUFFICES ASSUME Init PROVE TrayTypes
  OBVIOUS
<1>1. /\ items \in Seq(Items) /\ inbox \in Seq(Messages) /\ outbox \in Seq(Requests)
      /\ DOMAIN items = {}
  BY EmptySeq DEF Init
<1> QED BY <1>1 DEF Init, TrayTypes

\* What addWatchedService changes, and what it and a signal send.
Watched(s, signals, r) ==
  /\ watches' = watches \cup {s} /\ outbox' = outbox \o r
  /\ \A k \in DOMAIN r : r[k] = Msg("watch", s) \/ \E j \in DOMAIN signals : r[k] = signals[j]
  /\ \A j \in DOMAIN signals : \E k \in DOMAIN r : r[k] = signals[j]

LEMMA WatchSends ==
  ASSUME NEW s \in Services, NEW signals \in Seq(Requests)
  PROVE  LET r == (IF s \in watches THEN <<>> ELSE <<Msg("watch", s)>>) \o signals
         IN  /\ r \in Seq(Requests)
             /\ \A k \in DOMAIN r : r[k] = Msg("watch", s) \/ \E j \in DOMAIN signals : r[k] = signals[j]
             /\ \A j \in DOMAIN signals : \E k \in DOMAIN r : r[k] = signals[j]
<1>1. CASE s \in watches
  <2>1. (IF s \in watches THEN <<>> ELSE <<Msg("watch", s)>>) \o signals = signals
    BY <1>1, ConcatEmptySeq
  <2> QED BY <2>1
<1>2. CASE s \notin watches
  <2> DEFINE w == <<Msg("watch", s)>>
  <2>1. w \in Seq(Requests) /\ Len(w) = 1 /\ w[1] = Msg("watch", s)
    BY ServiceMsgs
  <2> HIDE DEF w
  <2>2. /\ w \o signals \in Seq(Requests) /\ Len(w \o signals) = Len(w) + Len(signals)
        /\ \A k \in 1 .. Len(w) + Len(signals) :
             (w \o signals)[k] = IF k <= Len(w) THEN w[k] ELSE signals[k - Len(w)]
    BY <2>1, ConcatProperties
  <2>3. /\ Len(signals) \in Nat /\ DOMAIN signals = 1 .. Len(signals)
        /\ DOMAIN (w \o signals) = 1 .. (1 + Len(signals))
    BY <2>1, <2>2, LenProperties
  <2>4. ASSUME NEW k \in DOMAIN (w \o signals)
        PROVE  (w \o signals)[k] = Msg("watch", s) \/ \E j \in DOMAIN signals : (w \o signals)[k] = signals[j]
    <3>1. k = 1 \/ k - 1 \in DOMAIN signals
      BY <2>3
    <3> QED BY <2>1, <2>2, <2>3, <3>1
  <2>5. ASSUME NEW j \in DOMAIN signals PROVE \E k \in DOMAIN (w \o signals) : (w \o signals)[k] = signals[j]
    <3>1. j + 1 \in DOMAIN (w \o signals) /\ ~(j + 1 <= 1) /\ (j + 1) - 1 = j
      BY <2>3
    <3> QED BY <2>1, <2>2, <2>3, <3>1
  <2>6. (IF s \in watches THEN <<>> ELSE <<Msg("watch", s)>>) = w
    BY <1>2 DEF w
  <2> QED BY <2>2, <2>4, <2>5, <2>6
<1> QED BY <1>1, <1>2

LEMMA WatchDoes ==
  ASSUME TrayTypes, NEW s \in Services, NEW signals \in Seq(Requests), Watch(s, signals)
  PROVE  \E r \in Seq(Requests) : Watched(s, signals, r)
<1> DEFINE w == IF s \in watches THEN <<>> ELSE <<Msg("watch", s)>>
           r == w \o signals
<1>1. /\ r \in Seq(Requests)
      /\ \A k \in DOMAIN r : r[k] = Msg("watch", s) \/ \E j \in DOMAIN signals : r[k] = signals[j]
      /\ \A j \in DOMAIN signals : \E k \in DOMAIN r : r[k] = signals[j]
  BY WatchSends
<1>2. w \in Seq(Requests)
  BY ServiceMsgs, EmptySeq
<1>3. watches' = watches \cup {s} /\ outbox' = (outbox \o w) \o signals
  BY DEF Watch
<1> HIDE DEF w
<1>4. outbox' = outbox \o r
  <2>1. outbox \in Seq(Requests)
    BY DEF TrayTypes
  <2>2. Associates(outbox, w, signals)
    BY <1>2, <2>1, Regroup
  <2> QED BY <1>3, <2>2 DEF Associates
<1> HIDE DEF r
<1>5. Watched(s, signals, r)
  BY <1>1, <1>3, <1>4 DEF Watched
<1> QED BY <1>1, <1>5

\* What onServiceUnregistered changes, and what it sends: the items that go, and a signal of each.
Unregistered(s, r, gone) ==
  /\ outbox' = outbox \o r
  /\ items' \in Seq(Items) /\ \A j, k \in DOMAIN items' : items'[j] = items'[k] => j = k
  /\ ToSet(items') = ToSet(items) \ gone
  /\ \A i \in gone : StartsWithService(i, s) /\ \E k \in DOMAIN r : r[k] = Msg("unreg", i)
  /\ \A k \in DOMAIN r : r[k] = Msg("unwatch", s) \/ \E i \in gone : r[k] = Msg("unreg", i)
  /\ \/ gone # {} /\ hosts' = hosts
     \/ gone = {} /\ hosts' = hosts \ {s} /\ \A i \in ToSet(items) : ~StartsWithService(i, s)
  /\ crashed' \in BOOLEAN

LEMMA UnregisterDoes ==
  ASSUME TrayTypes, NEW s \in Services, Unregister(s)
  PROVE  \E r \in Seq(Requests), gone \in SUBSET ToSet(items) : Unregistered(s, r, gone)
<1> DEFINE k == SelectInSeq(items, LAMBDA i : StartsWithService(i, s))
<1>1. \/ k = 0 /\ \A j \in DOMAIN items : ~StartsWithService(items[j], s)
      \/ k \in DOMAIN items /\ StartsWithService(items[k], s)
  BY FirstNamed
<1>2. /\ DOMAIN items = 1 .. Len(items) /\ Len(items) \in Nat
      /\ \A j \in DOMAIN items : items[j] \in Items
      /\ crashed \in BOOLEAN
  BY LenProperties, ElementOfSeq DEF TrayTypes
<1>3. \/ /\ k # 0 /\ PrepareForUnregistration(s) /\ items' = RemoveAt(items, k)
         /\ outbox' = outbox \o <<Msg("unreg", items[k]), Msg("unwatch", s)>> /\ UNCHANGED hosts
      \/ /\ k = 0 /\ hosts' = hosts \ {s} /\ outbox' = Append(outbox, Msg("unwatch", s))
         /\ UNCHANGED <<items, crashed>>
  BY DEF Unregister
<1> HIDE DEF k
<1>4. CASE k # 0
  <2>1. k \in DOMAIN items /\ items[k] \in Items /\ StartsWithService(items[k], s)
    BY <1>1, <1>2, <1>4
  <2> DEFINE r == <<Msg("unreg", items[k]), Msg("unwatch", s)>>
             gone == {items[k]}
  <2>2. r \in Seq(Requests) /\ DOMAIN r = 1 .. 2 /\ r[1] = Msg("unreg", items[k]) /\ r[2] = Msg("unwatch", s)
    BY <2>1, ItemMsgs, ServiceMsgs
  <2>3. crashed' \in BOOLEAN
    BY <1>2, <1>3, <1>4 DEF PrepareForUnregistration
  <2>4. gone \in SUBSET ToSet(items)
    BY <2>1 DEF ToSet
  <2>5. /\ items' \in Seq(Items) /\ \A i, j \in DOMAIN items' : items'[i] = items'[j] => i = j
        /\ ToSet(items') = ToSet(items) \ gone
    BY <1>3, <1>4, <2>1, WithoutItem
  <2>6. outbox' = outbox \o r /\ hosts' = hosts
    BY <1>3, <1>4
  <2>7. 1 \in DOMAIN r /\ \A j \in DOMAIN r : j = 1 \/ j = 2
    BY <2>2
  <2> HIDE DEF r
  <2>8. \A i \in gone : StartsWithService(i, s) /\ \E j \in DOMAIN r : r[j] = Msg("unreg", i)
    BY <2>1, <2>2, <2>7
  <2>9. \A j \in DOMAIN r : r[j] = Msg("unwatch", s) \/ \E i \in gone : r[j] = Msg("unreg", i)
    BY <2>2, <2>7
  <2>10. gone # {}
    OBVIOUS
  <2> HIDE DEF gone
  <2>11. Unregistered(s, r, gone)
    BY <2>3, <2>5, <2>6, <2>8, <2>9, <2>10 DEF Unregistered
  <2> QED BY <2>2, <2>4, <2>11
<1>5. CASE k = 0
  <2> DEFINE r == <<Msg("unwatch", s)>>
  <2>1. r \in Seq(Requests) /\ DOMAIN r = {1} /\ r[1] = Msg("unwatch", s)
    BY ServiceMsgs
  <2>2. outbox' = outbox \o r
    <3>1. Msg("unwatch", s) \in Requests /\ outbox \in Seq(Requests)
      BY ServiceMsgs DEF TrayTypes
    <3>2. Append(outbox, Msg("unwatch", s)) = outbox \o r
      BY <3>1, AppendIsConcat
    <3> QED BY <1>3, <1>5, <3>2
  <2>3. items' = items /\ hosts' = hosts \ {s} /\ crashed' = crashed
    BY <1>3, <1>5
  <2>4. \A i \in ToSet(items) : ~StartsWithService(i, s)
    BY <1>1, <1>2, <1>5 DEF ToSet
  <2> HIDE DEF r
  <2>5. items' \in Seq(Items) /\ \A i, j \in DOMAIN items' : items'[i] = items'[j] => i = j
    BY <2>3 DEF TrayTypes
  <2>6. Unregistered(s, r, {})
    BY <1>2, <2>1, <2>2, <2>3, <2>4, <2>5 DEF Unregistered
  <2> QED BY <2>1, <2>6
<1> QED BY <1>4, <1>5

LEMMA TailTyped == ASSUME TrayTypes, inbox # <<>> PROVE Tail(inbox) \in Seq(Messages)
BY HeadTailProperties DEF TrayTypes

LEMMA EnvironmentTypes == TrayTypes /\ Environment => TrayTypes'
<1> SUFFICES ASSUME TrayTypes, Environment PROVE TrayTypes'
  OBVIOUS
<1> USE DEF envVars, ourVars, busVars
<1>1. ASSUME NEW s \in Services, AppStarts(s) \/ AppCallsHost(s) PROVE TrayTypes'
  <2>1. s \in HostServices => Append(inbox, Msg("host", s)) \in Seq(Messages)
    BY HostMsgs, AppendProperties DEF TrayTypes
  <2> QED BY <1>1, <2>1 DEF AppStarts, AppCallsHost, TrayTypes
<1>2. ASSUME NEW s \in Services, AppExits(s) PROVE TrayTypes'
  <2> DEFINE dropped == otherItems \cap ItemsOf(s)
             g == IF s \in matched THEN <<Msg("gone", s)>> ELSE <<>>
             u == SetToSeq({Msg("unreg", i) : i \in dropped})
  <2>1. g \in Seq(Messages)
    BY ServiceMsgs, EmptySeq
  <2>2. u \in Seq(Messages)
    BY UnregsFinite DEF TrayTypes
  <2>3. inbox' = (inbox \o g) \o u
    BY <1>2 DEF AppExits
  <2> HIDE DEF g, u
  <2>4. inbox' \in Seq(Messages)
    BY <2>1, <2>2, <2>3, ConcatProperties DEF TrayTypes
  <2> QED BY <1>2, <2>4 DEF AppExits, TrayTypes
<1>3. ASSUME NEW i \in Items, AppCalls(i) PROVE TrayTypes'
  <2>1. Append(inbox, Msg("call", i)) \in Seq(Messages) /\ Append(inbox, Msg("reg", i)) \in Seq(Messages)
    BY ItemMsgs, AppendProperties DEF TrayTypes
  <2> QED BY <1>3, <2>1 DEF AppCalls, TrayTypes
<1>4. ASSUME OtherExits \/ OtherStarts PROVE TrayTypes'
  <2>1. /\ Append(inbox, Msg("lost", NoArg)) \in Seq(Messages)
        /\ Append(inbox, Msg("new", NoArg)) \in Seq(Messages)
    BY OtherMsgs, AppendProperties DEF TrayTypes
  <2> QED BY <1>4, <2>1 DEF OtherExits, OtherStarts, TrayTypes
<1>5. ASSUME OtherHandsOver PROVE TrayTypes'
  BY <1>5 DEF OtherHandsOver, TrayTypes
<1> QED BY <1>1, <1>2, <1>3, <1>4, <1>5 DEF Environment

LEMMA BusTypes == TrayTypes /\ Bus => TrayTypes'
<1> SUFFICES ASSUME TrayTypes, Bus PROVE TrayTypes'
  OBVIOUS
<1> USE DEF envVars, ourVars
<1>1. ASSUME OtherReplies PROVE TrayTypes'
  <2>1. Append(inbox, Msg("list", otherItems)) \in Seq(Messages)
    BY OtherMsgs, AppendProperties DEF TrayTypes
  <2> QED BY <1>1, <2>1 DEF OtherReplies, TrayTypes
<1>2. ASSUME BusTakes PROVE TrayTypes'
  <2> DEFINE m == Head(outbox)
  <2>1. m \in Requests /\ Tail(outbox) \in Seq(Requests) /\ m = Msg(m.type, m.of)
    BY <1>2, HeadTailProperties, RequestIs DEF BusTakes, TrayTypes
  <2>2. m.type \in {"watch", "unwatch"} => m.of \in Services
    BY <2>1, RequestIs
  <2>3. m.type \in {"reg", "unreg"} => Append(inbox, m) \in Seq(Messages)
    BY <2>1, RequestIs, ItemMsgs, AppendProperties DEF TrayTypes
  <2>4. /\ outbox' = Tail(outbox)
        /\ \/ m.type = "watch" /\ matched' = matched \cup {m.of} /\ UNCHANGED inbox
           \/ m.type = "unwatch" /\ matched' = matched \ {m.of} /\ UNCHANGED inbox
           \/ m.type \in {"reg", "unreg"} /\ inbox' = Append(inbox, m) /\ UNCHANGED matched
        /\ UNCHANGED <<envVars, ourVars, crashed, missed>>
    BY <1>2 DEF BusTakes
  <2> HIDE DEF m
  <2> QED BY <2>1, <2>2, <2>3, <2>4 DEF TrayTypes
<1> QED BY <1>1, <1>2 DEF Bus

LEMMA HandleTypes == TrayTypes /\ Handle => TrayTypes'
<1> SUFFICES ASSUME TrayTypes, Handle PROVE TrayTypes'
  OBVIOUS
<1> USE DEF envVars, ourVars
<1>1. inbox # <<>> => Tail(inbox) \in Seq(Messages)
  BY TailTyped
<1>2. ASSUME NEW i \in Items, HandleCall(i) PROVE TrayTypes'
  <2>1. inbox' \in Seq(Messages)
    BY <1>1, <1>2 DEF HandleCall, Take
  <2>2. CASE Contains(items, i) \/ ServiceOf[i] \notin alive
    BY <1>2, <2>1, <2>2 DEF HandleCall, TrayTypes
  <2>3. CASE ~(Contains(items, i) \/ ServiceOf[i] \notin alive)
    <3>1. Watch(ServiceOf[i], <<Msg("reg", i)>>) /\ items' = Append(items, i)
      BY <1>2, <2>3 DEF HandleCall
    <3>2. ServiceOf[i] \in Services /\ <<Msg("reg", i)>> \in Seq(Requests)
      BY ItemMsgs, ServiceOfAssumption
    <3>3. outbox' \in Seq(Requests)
      <4>1. PICK r \in Seq(Requests) : Watched(ServiceOf[i], <<Msg("reg", i)>>, r)
        BY <3>1, <3>2, WatchDoes
      <4> QED BY <4>1, ConcatProperties DEF Watched, TrayTypes
    <3>4. items' \in Seq(Items) /\ \A j, k \in DOMAIN items' : items'[j] = items'[k] => j = k
      <4>1. \A j \in DOMAIN items : items[j] # i
        BY <2>3, LenProperties DEF TrayTypes, Contains
      <4>2. /\ items' \in Seq(Items) /\ Len(items') = Len(items) + 1
            /\ \A j \in 1 .. Len(items) : items'[j] = items[j]
            /\ items'[Len(items) + 1] = i
        BY <3>1, AppendProperties DEF TrayTypes
      <4>3. Len(items) \in Nat /\ DOMAIN items = 1 .. Len(items) /\ DOMAIN items' = 1 .. (Len(items) + 1)
        BY <4>2, LenProperties DEF TrayTypes
      <4>4. \A j \in DOMAIN items' : j \in DOMAIN items \/ j = Len(items) + 1
        BY <4>3
      <4> QED BY <4>1, <4>2, <4>3, <4>4 DEF TrayTypes
    <3>5. /\ watches' = watches \cup {ServiceOf[i]}
          /\ UNCHANGED <<envVars, hosts, hostItems, matched, crashed, missed>>
      BY <1>2, <3>1 DEF HandleCall, Watch
    <3> QED BY <2>1, <3>2, <3>3, <3>4, <3>5 DEF TrayTypes
  <2> QED BY <2>2, <2>3
<1>3. ASSUME NEW s \in Services, HandleHost(s) PROVE TrayTypes'
  <2>1. inbox' \in Seq(Messages)
    BY <1>1, <1>3 DEF HandleHost, Take
  <2>2. CASE s \in hosts \/ s \notin alive
    BY <1>3, <2>1, <2>2 DEF HandleHost, TrayTypes
  <2>3. CASE ~(s \in hosts \/ s \notin alive)
    <3>1. Watch(s, <<>>) /\ hosts' = hosts \cup {s} /\ Head(inbox) = Msg("host", s) /\ inbox # <<>>
      BY <1>3, <2>3 DEF HandleHost, Take
    <3>2. s \in HostServices
      BY <3>1, HostMsgs, HeadTailProperties DEF TrayTypes
    <3>3. outbox' \in Seq(Requests) /\ watches' = watches \cup {s}
      <4>1. <<>> \in Seq(Requests) /\ s \in Services
        BY EmptySeq
      <4>2. PICK r \in Seq(Requests) : Watched(s, <<>>, r)
        BY <3>1, <4>1, WatchDoes
      <4> QED BY <4>2, ConcatProperties DEF Watched, TrayTypes
    <3>4. UNCHANGED <<envVars, items, hostItems, matched, crashed, missed>>
      BY <1>3 DEF HandleHost
    <3> QED BY <2>1, <3>1, <3>2, <3>3, <3>4 DEF TrayTypes
  <2> QED BY <2>2, <2>3
<1>4. ASSUME NEW s \in Services, HandleGone(s) PROVE TrayTypes'
  <2>1. inbox' \in Seq(Messages) /\ UNCHANGED <<envVars, hostItems, matched>>
    BY <1>1, <1>4 DEF HandleGone, Take
  <2>2. CASE s \notin watches
    BY <1>4, <2>1, <2>2 DEF HandleGone, TrayTypes
  <2>3. CASE s \in watches
    <3>1. Unregister(s) /\ watches' = watches \ {s} /\ missed' = missed \ {s}
      BY <1>4, <2>3 DEF HandleGone
    <3>2. PICK r \in Seq(Requests), gone \in SUBSET ToSet(items) : Unregistered(s, r, gone)
      BY <3>1, UnregisterDoes
    <3>3. outbox' \in Seq(Requests)
      BY <3>2, ConcatProperties DEF Unregistered, TrayTypes
    <3>4. /\ items' \in Seq(Items) /\ \A j, k \in DOMAIN items' : items'[j] = items'[k] => j = k
          /\ crashed' \in BOOLEAN /\ hosts' \subseteq hosts
      BY <3>2 DEF Unregistered
    <3> QED BY <2>1, <3>1, <3>3, <3>4 DEF TrayTypes
  <2> QED BY <2>2, <2>3
<1>5. ASSUME NEW i \in Items, HandleReg(i) \/ HandleUnreg(i) PROVE TrayTypes'
  <2>1. inbox' \in Seq(Messages) /\ UNCHANGED <<envVars, items, hosts, watches, outbox, matched, crashed, missed>>
    BY <1>1, <1>5 DEF HandleReg, HandleUnreg, Take
  <2>2. hostItems' \subseteq Items
    BY <1>5 DEF HandleReg, HandleUnreg, Shown, TrayTypes
  <2> QED BY <2>1, <2>2 DEF TrayTypes
<1>6. ASSUME NEW is \in SUBSET Items, HandleList(is) PROVE TrayTypes'
  <2>1. inbox' \in Seq(Messages) /\ UNCHANGED <<envVars, items, hosts, watches, outbox, matched, crashed, missed>>
    BY <1>1, <1>6 DEF HandleList, Take
  <2>2. hostItems' \subseteq Items
    BY <1>6 DEF HandleList, Shown, TrayTypes
  <2> QED BY <2>1, <2>2 DEF TrayTypes
<1>7. ASSUME HandleLost PROVE TrayTypes'
  <2>1. Tail(inbox) \in Seq(Messages) /\ Append(Tail(inbox), Msg("new", NoArg)) \in Seq(Messages)
    BY <1>1, <1>7, OtherMsgs, AppendProperties DEF HandleLost
  <2> QED BY <1>7, <2>1 DEF HandleLost, TryRegister, TrayTypes
<1>8. ASSUME HandleNew PROVE TrayTypes'
  <2>1. Tail(inbox) \in Seq(Messages) /\ Len(inbox) = Len(Tail(inbox)) + 1
    BY <1>1, <1>8, HeadTailProperties, LenProperties DEF HandleNew, TrayTypes
  <2>2. ToSet(items) \in SUBSET Items
    BY ElementOfSeq, LenProperties DEF TrayTypes, ToSet
  <2>3. \A k \in 1 .. Len(inbox) : InsertAt(Tail(inbox), k, Msg("list", ToSet(items))) \in Seq(Messages)
    BY <2>1, <2>2, OtherMsgs, PutBetween
  <2> QED BY <1>8, <2>1, <2>3 DEF HandleNew, TrayTypes
<1> QED BY <1>2, <1>3, <1>4, <1>5, <1>6, <1>7, <1>8 DEF Handle

-----------------------------------------------------------------------------
(* What is on its way in the tray *)

\* Messages that show an item, and messages that take it away.
RegOf(i) == {Msg("reg", i)}
Shows(i) == RegOf(i) \cup {Msg("list", is) : is \in {is \in SUBSET Items : i \in is}}
Hides(i) == {Msg("unreg", i), Msg("lost", NoArg)}
Coming(m) == Comes(inbox, <<>>, {m})

\* Messages that only the owner of the watcher's name gets.
OwnersMsgs == {m \in Messages : m.type \in {"call", "host", "gone"}}

LEMMA Kinds ==
  ASSUME NEW i, NEW t, NEW x
  PROVE  /\ t \notin {"unreg", "lost"} => Msg(t, x) \notin Hides(i)
         /\ t \notin {"reg", "list"} => Msg(t, x) \notin Shows(i)
         /\ t # "reg" => Msg(t, x) \notin RegOf(i)
         /\ Msg("unreg", x) \in Hides(i) <=> x = i
         /\ Msg("lost", NoArg) \in Hides(i)
         /\ Msg("reg", x) \in Shows(i) <=> x = i
         /\ Msg("reg", x) \in RegOf(i) <=> x = i
         /\ Msg("list", x) \in Shows(i) => i \in x
         /\ x \in SUBSET Items /\ i \in x => Msg("list", x) \in Shows(i)
<1>1. t \notin {"unreg", "lost"} => Msg(t, x) \notin Hides(i)
  BY MsgIs DEF Hides
<1>2. t \notin {"reg", "list"} => Msg(t, x) \notin Shows(i)
  BY MsgIs DEF Shows, RegOf
<1>3. t # "reg" => Msg(t, x) \notin RegOf(i)
  BY MsgIs DEF RegOf
<1>4. (Msg("unreg", x) \in Hides(i) <=> x = i) /\ Msg("lost", NoArg) \in Hides(i)
  BY MsgIs DEF Hides
<1>5. (Msg("reg", x) \in Shows(i) <=> x = i) /\ (Msg("reg", x) \in RegOf(i) <=> x = i)
  BY MsgIs DEF Shows, RegOf
<1>6. Msg("list", x) \in Shows(i) => i \in x
  BY MsgIs DEF Shows, RegOf
<1>7. x \in SUBSET Items /\ i \in x => Msg("list", x) \in Shows(i)
  BY DEF Shows
<1> QED BY <1>1, <1>2, <1>3, <1>4, <1>5, <1>6, <1>7

LEMMA RegShows == ASSUME NEW p, NEW q, NEW i, Comes(p, q, RegOf(i)) PROVE Comes(p, q, Shows(i))
BY DEF Comes, Shows

LEMMA Queues ==
  ASSUME TrayTypes
  PROVE  /\ inbox \in Seq(AllMsgs) /\ outbox \in Seq(AllMsgs) /\ <<>> \in Seq(AllMsgs)
         /\ \A r : r \in Seq(Messages) \/ r \in Seq(Requests) => r \in Seq(AllMsgs)
<1>1. Messages \subseteq AllMsgs /\ Requests \subseteq AllMsgs
  BY DEF AllMsgs
<1>2. \A r : r \in Seq(Messages) \/ r \in Seq(Requests) => r \in Seq(AllMsgs)
  BY <1>1, SeqMonotonic
<1> QED BY <1>2, EmptySeq DEF TrayTypes

\* One message is put at the end of the first queue.
LEMMA PutOnFirst ==
  ASSUME NEW M, NEW p \in Seq(M), NEW q \in Seq(M), NEW m \in M, NEW A, NEW B
  PROVE  /\ Comes(p, q, B) \/ m \in B => Comes(Append(p, m), q, B)
         /\ Comes(Append(p, m), q, B) => Comes(p, q, B) \/ m \in B
         /\ m \notin A /\ Followed(p, q, A, B) => Followed(Append(p, m), q, A, B)
         /\ m \notin A /\ m \in B => Followed(Append(p, m), <<>>, A, B)
<1> DEFINE r == <<m>>
<1>1. r \in Seq(M) /\ DOMAIN r = {1} /\ r[1] = m
  OBVIOUS
<1>2. Append(p, m) = p \o r
  BY AppendIsConcat
<1>3. /\ (\E j \in DOMAIN r : r[j] \in B) <=> m \in B
      /\ (\A j \in DOMAIN r : r[j] \notin A) <=> m \notin A
  BY <1>1
<1> HIDE DEF r
<1> QED BY <1>1, <1>2, <1>3, PutBehind

\* What the bus sends when a service leaves.
Exited(s, r) ==
  /\ inbox' = inbox \o r
  /\ \A k \in DOMAIN r : \/ s \in matched /\ r[k] = Msg("gone", s)
                         \/ \E i \in otherItems \cap ItemsOf(s) : r[k] = Msg("unreg", i)
  /\ s \in matched => \E k \in DOMAIN r : r[k] = Msg("gone", s)
  /\ \A i \in otherItems \cap ItemsOf(s) : \E k \in DOMAIN r : r[k] = Msg("unreg", i)

LEMMA ExitSends ==
  ASSUME TrayTypes, NEW s \in Services, AppExits(s)
  PROVE  \E r \in Seq(Messages) : Exited(s, r)
<1> DEFINE dropped == otherItems \cap ItemsOf(s)
           g == IF s \in matched THEN <<Msg("gone", s)>> ELSE <<>>
           u == SetToSeq({Msg("unreg", i) : i \in dropped})
           r == g \o u
<1>1. /\ g \in Seq(Messages) /\ DOMAIN g = 1 .. Len(g) /\ Len(g) \in Nat
      /\ \A k \in DOMAIN g : s \in matched /\ g[k] = Msg("gone", s)
      /\ s \in matched => \E k \in DOMAIN g : g[k] = Msg("gone", s)
  <2>1. CASE s \in matched
    <3>1. <<Msg("gone", s)>> \in Seq(Messages) /\ DOMAIN <<Msg("gone", s)>> = {1}
          /\ <<Msg("gone", s)>>[1] = Msg("gone", s)
      BY ServiceMsgs
    <3> QED BY <2>1, <3>1, LenProperties
  <2>2. CASE s \notin matched
    BY <2>2, EmptySeq
  <2> QED BY <2>1, <2>2
<1>2. /\ u \in Seq(Messages) /\ DOMAIN u = 1 .. Len(u) /\ Len(u) \in Nat
      /\ \A k \in DOMAIN u : \E i \in dropped : u[k] = Msg("unreg", i)
      /\ \A i \in dropped : \E k \in DOMAIN u : u[k] = Msg("unreg", i)
  BY UnregsFinite, LenProperties DEF TrayTypes
<1>3. inbox' = (inbox \o g) \o u
  BY DEF AppExits
<1> HIDE DEF g, u, dropped
<1>4. inbox' = inbox \o r
  <2>1. inbox \in Seq(Messages)
    BY DEF TrayTypes
  <2>2. g \in Seq(Messages) /\ u \in Seq(Messages)
    BY <1>1, <1>2
  <2>3. Associates(inbox, g, u)
    BY <2>1, <2>2, Regroup
  <2> QED BY <1>3, <2>3 DEF Associates
<1>5. /\ r \in Seq(Messages) /\ Len(r) = Len(g) + Len(u)
      /\ \A k \in 1 .. Len(g) + Len(u) : r[k] = IF k <= Len(g) THEN g[k] ELSE u[k - Len(g)]
  BY <1>1, <1>2, ConcatProperties
<1>6. DOMAIN r = 1 .. (Len(g) + Len(u))
  BY <1>5, LenProperties
<1> HIDE DEF r
<1>7. ASSUME NEW k \in DOMAIN r
      PROVE  (s \in matched /\ r[k] = Msg("gone", s)) \/ \E i \in dropped : r[k] = Msg("unreg", i)
  <2>1. CASE k <= Len(g)
    <3>1. k \in DOMAIN g
      BY <1>1, <1>2, <1>6, <2>1
    <3> QED BY <1>1, <1>5, <1>6, <2>1, <3>1
  <2>2. CASE ~(k <= Len(g))
    <3>1. k - Len(g) \in DOMAIN u
      BY <1>1, <1>2, <1>6, <2>2
    <3> QED BY <1>2, <1>5, <1>6, <2>2, <3>1
  <2> QED BY <2>1, <2>2
<1>8. ASSUME NEW k \in DOMAIN g PROVE k \in DOMAIN r /\ r[k] = g[k]
  BY <1>1, <1>2, <1>5, <1>6
<1>9. ASSUME NEW k \in DOMAIN u PROVE Len(g) + k \in DOMAIN r /\ r[Len(g) + k] = u[k]
  <2>1. Len(g) + k \in 1 .. (Len(g) + Len(u)) /\ ~(Len(g) + k <= Len(g)) /\ (Len(g) + k) - Len(g) = k
    BY <1>1, <1>2
  <2> QED BY <1>5, <1>6, <2>1
<1>10. s \in matched => \E k \in DOMAIN r : r[k] = Msg("gone", s)
  BY <1>1, <1>8
<1>11. \A i \in dropped : \E k \in DOMAIN r : r[k] = Msg("unreg", i)
  BY <1>2, <1>9
<1>12. Exited(s, r)
  BY <1>4, <1>7, <1>10, <1>11 DEF Exited, dropped
<1> QED BY <1>5, <1>12

\* Only the owner of the name has a list, and calls; another watcher's items are alive; and
\* when nobody owns the name, the signal that it was lost is on its way.
OwnerOK ==
  /\ owner # "us" => /\ items = <<>> /\ hosts = {} /\ watches = {} /\ outbox = <<>> /\ matched = {}
                     /\ ~Comes(inbox, <<>>, OwnersMsgs)
  /\ owner # "other" => otherItems = {} /\ ~asked
  /\ \A i \in otherItems : ServiceOf[i] \in alive
LossOK == owner = "none" => Coming(Msg("lost", NoArg))

\* A watched service that has left is alive again, or was missed, or its signal is on its way.
GoneOK == \A s \in watches : s \in alive \cup missed \/ Coming(Msg("gone", s))

\* The services of the entries are watched.
WatchedOK == \A s \in Services : Plain(s) /\ (s \in hosts \/ ItemsOf(s) \cap ToSet(items) # {}) => s \in watches

LEMMA OwnersMsgIs ==
  ASSUME NEW t, NEW x
  PROVE  /\ t \notin {"call", "host", "gone"} => Msg(t, x) \notin OwnersMsgs
         /\ t \in {"call", "host", "gone"} /\ Msg(t, x) \in Messages => Msg(t, x) \in OwnersMsgs
BY MsgIs DEF OwnersMsgs

\* The head of the inbox, when it is one of the calls.
LEMMA OwnersTurn ==
  ASSUME TrayTypes, OwnerOK, NEW t \in {"call", "host", "gone"}, NEW x, Take(t, x)
  PROVE  owner = "us"
<1>1. inbox # <<>> /\ Head(inbox) = Msg(t, x) /\ Head(inbox) \in Messages
  BY HeadTailProperties DEF Take, TrayTypes
<1>2. Head(inbox) \in OwnersMsgs
  BY <1>1, OwnersMsgIs
<1>3. 1 \in DOMAIN inbox /\ inbox[1] = Head(inbox)
  BY <1>1, EmptySeq, LenProperties DEF TrayTypes
<1> QED BY <1>2, <1>3 DEF OwnerOK, Comes

\* What a handler of this process leaves in the inbox.
LEMMA Taken ==
  ASSUME TrayTypes, NEW t, NEW x, Take(t, x), NEW B
  PROVE  /\ Comes(inbox, <<>>, B) /\ Msg(t, x) \notin B => Comes(inbox', <<>>, B)
         /\ Comes(inbox', <<>>, B) => Comes(inbox, <<>>, B)
BY TakeHead, Queues DEF Take

LEMMA OwnerStep == TrayTypes /\ OwnerOK /\ LossOK /\ Next => OwnerOK' /\ LossOK'
<1> SUFFICES ASSUME TrayTypes, OwnerOK, LossOK, Next PROVE OwnerOK' /\ LossOK'
  OBVIOUS
<1> USE DEF envVars, ourVars, busVars
<1>1. ASSUME NEW s \in Services, AppStarts(s) PROVE OwnerOK' /\ LossOK'
  BY <1>1 DEF AppStarts, OwnerOK, LossOK, Coming
<1>2. ASSUME NEW s \in Services, AppCallsHost(s) PROVE OwnerOK' /\ LossOK'
  BY <1>2 DEF AppCallsHost, OwnerOK, LossOK
<1>3. ASSUME NEW s \in Services, AppExits(s) PROVE OwnerOK' /\ LossOK'
  <2>1. PICK r \in Seq(Messages) : Exited(s, r)
    BY <1>3, ExitSends
  <2>2. owner # "us" => \A k \in DOMAIN r : r[k] \notin OwnersMsgs
    <3> SUFFICES ASSUME owner # "us", NEW k \in DOMAIN r PROVE r[k] \notin OwnersMsgs
      OBVIOUS
    <3>1. PICK i : r[k] = Msg("unreg", i)
      BY <2>1 DEF Exited, OwnerOK
    <3> QED BY <3>1, OwnersMsgIs
  <2>3. /\ inbox' = inbox \o r /\ inbox \in Seq(AllMsgs) /\ r \in Seq(AllMsgs) /\ <<>> \in Seq(AllMsgs)
    BY <2>1, Queues DEF Exited
  <2>4. owner # "us" => ~Comes(inbox', <<>>, OwnersMsgs)
    BY <2>2, <2>3, PutBehind DEF OwnerOK
  <2>5. LossOK'
    <3>1. Coming(Msg("lost", NoArg)) => Comes(inbox \o r, <<>>, {Msg("lost", NoArg)})
      BY <2>3, PutBehind DEF Coming
    <3>2. owner' = owner
      BY <1>3 DEF AppExits
    <3> QED BY <2>3, <3>1, <3>2 DEF LossOK, Coming
  <2>6. /\ UNCHANGED <<owner, asked, items, hosts, watches, outbox, matched>>
        /\ otherItems' = otherItems \ ItemsOf(s) /\ alive' = alive \ {s}
    BY <1>3 DEF AppExits
  <2>7. \A i \in otherItems' : i \in otherItems /\ ServiceOf[i] # s
    BY <2>6 DEF ItemsOf, TrayTypes
  <2> QED BY <2>4, <2>5, <2>6, <2>7 DEF OwnerOK
<1>4. ASSUME NEW i \in Items, AppCalls(i) PROVE OwnerOK' /\ LossOK'
  <2>1. CASE owner = "us"
    BY <1>4, <2>1 DEF AppCalls, OwnerOK, LossOK
  <2>2. CASE owner # "us"
    <3>1. /\ owner = "other" /\ otherItems' = otherItems \cup {i} /\ ServiceOf[i] \in alive
          /\ inbox' = Append(inbox, Msg("reg", i))
          /\ UNCHANGED <<alive, owner, asked, items, hosts, watches, outbox, matched>>
      BY <1>4, <2>2 DEF AppCalls
    <3>2. ~Comes(inbox', <<>>, OwnersMsgs)
      <4>1. /\ inbox \in Seq(AllMsgs) /\ <<>> \in Seq(AllMsgs) /\ Msg("reg", i) \in AllMsgs
            /\ Msg("reg", i) \notin OwnersMsgs
        BY Queues, ItemMsgs, OwnersMsgIs DEF AllMsgs
      <4> QED BY <2>2, <3>1, <4>1, PutOnFirst DEF OwnerOK
    <3> QED BY <2>2, <3>1, <3>2 DEF OwnerOK, LossOK
  <2> QED BY <2>1, <2>2
<1>5. ASSUME OtherExits \/ OtherStarts PROVE OwnerOK' /\ LossOK'
  <2>1. PICK m \in {Msg("lost", NoArg), Msg("new", NoArg)} :
          /\ inbox' = Append(inbox, m) /\ owner' \in {"none", "other"}
          /\ owner' = "none" => m = Msg("lost", NoArg)
    BY <1>5 DEF OtherExits, OtherStarts
  <2>2. /\ inbox \in Seq(AllMsgs) /\ <<>> \in Seq(AllMsgs) /\ m \in AllMsgs /\ m \notin OwnersMsgs
    BY <2>1, Queues, OtherMsgs, OwnersMsgIs DEF AllMsgs
  <2>3. owner # "us" /\ UNCHANGED <<alive, items, hosts, watches, outbox, matched>>
    BY <1>5 DEF OtherExits, OtherStarts
  <2>4. ~Comes(inbox', <<>>, OwnersMsgs)
    BY <2>1, <2>2, <2>3, PutOnFirst DEF OwnerOK
  <2>5. LossOK'
    BY <2>1, <2>2, PutOnFirst DEF LossOK, Coming
  <2>6. (owner' # "other" => otherItems' = {} /\ ~asked') /\ \A i \in otherItems' : i \in otherItems
    BY <1>5 DEF OtherExits, OtherStarts, OwnerOK
  <2> QED BY <2>1, <2>3, <2>4, <2>5, <2>6 DEF OwnerOK
<1>6. ASSUME OtherReplies PROVE OwnerOK' /\ LossOK'
  <2>1. /\ inbox \in Seq(AllMsgs) /\ <<>> \in Seq(AllMsgs) /\ Msg("list", otherItems) \in AllMsgs
        /\ Msg("list", otherItems) \notin OwnersMsgs
    BY Queues, OtherMsgs, OwnersMsgIs DEF AllMsgs, TrayTypes
  <2>2. /\ inbox' = Append(inbox, Msg("list", otherItems)) /\ asked' = FALSE
        /\ UNCHANGED <<alive, owner, otherItems, items, hosts, watches, outbox, matched>>
    BY <1>6 DEF OtherReplies
  <2>3. owner # "us" => ~Comes(inbox', <<>>, OwnersMsgs)
    BY <2>1, <2>2, PutOnFirst DEF OwnerOK
  <2>4. LossOK'
    BY <2>1, <2>2, PutOnFirst DEF LossOK, Coming
  <2> QED BY <2>2, <2>3, <2>4 DEF OwnerOK
<1>7. ASSUME BusTakes PROVE OwnerOK' /\ LossOK'
  <2>1. owner = "us"
    BY <1>7 DEF BusTakes, OwnerOK
  <2> QED BY <1>7, <2>1 DEF BusTakes, OwnerOK, LossOK
<1>8. ASSUME NEW i \in Items, HandleCall(i) PROVE OwnerOK' /\ LossOK'
  <2>1. owner = "us"
    BY <1>8, OwnersTurn DEF HandleCall
  <2> QED BY <1>8, <2>1 DEF HandleCall, OwnerOK, LossOK
<1>9. ASSUME NEW s \in Services, HandleHost(s) \/ HandleGone(s) PROVE OwnerOK' /\ LossOK'
  <2>1. owner = "us"
    BY <1>9, OwnersTurn DEF HandleHost, HandleGone
  <2> QED BY <1>9, <2>1 DEF HandleHost, HandleGone, OwnerOK, LossOK
<1>10. ASSUME NEW t \in {"reg", "unreg", "list"}, NEW x, Take(t, x),
              UNCHANGED <<envVars, items, hosts, watches, outbox, matched>>
       PROVE  OwnerOK' /\ LossOK'
  <2>1. Coming(Msg("lost", NoArg)) => Coming(Msg("lost", NoArg))'
    BY <1>10, Taken, MsgIs DEF Coming
  <2>2. Comes(inbox', <<>>, OwnersMsgs) => Comes(inbox, <<>>, OwnersMsgs)
    BY <1>10, Taken
  <2> QED BY <1>10, <2>1, <2>2 DEF OwnerOK, LossOK
<1>11. ASSUME HandleLost PROVE OwnerOK' /\ LossOK'
  <2>1. UNCHANGED <<alive, otherItems, asked, items, hosts, watches, outbox, matched>>
        /\ inbox # <<>> /\ Head(inbox) = Msg("lost", NoArg)
    BY <1>11 DEF HandleLost
  <2>2. CASE owner = "none"
    BY <1>11, <2>1, <2>2 DEF HandleLost, TryRegister, OwnerOK, LossOK
  <2>3. CASE owner # "none"
    <3>1. Take("lost", NoArg) /\ owner' = owner
      BY <1>11, <2>3 DEF HandleLost, TryRegister, Take
    <3>2. Comes(inbox', <<>>, OwnersMsgs) => Comes(inbox, <<>>, OwnersMsgs)
      BY <3>1, Taken
    <3> QED BY <2>1, <2>3, <3>1, <3>2 DEF OwnerOK, LossOK
  <2> QED BY <2>2, <2>3
<1>12. ASSUME HandleNew PROVE OwnerOK' /\ LossOK'
  <2>1. UNCHANGED <<alive, owner, otherItems, items, hosts, watches, outbox, matched>>
        /\ asked' = (owner = "other")
    BY <1>12 DEF HandleNew
  <2>2. CASE owner = "us"
    BY <2>1, <2>2 DEF OwnerOK, LossOK
  <2>3. CASE owner # "us"
    <3>1. Take("new", NoArg)
      BY <1>12, <2>3 DEF HandleNew, Take
    <3>2. Comes(inbox', <<>>, OwnersMsgs) => Comes(inbox, <<>>, OwnersMsgs)
      BY <3>1, Taken
    <3>3. Coming(Msg("lost", NoArg)) => Coming(Msg("lost", NoArg))'
      BY <3>1, Taken, MsgIs DEF Coming
    <3> QED BY <2>1, <2>3, <3>2, <3>3 DEF OwnerOK, LossOK
  <2> QED BY <2>2, <2>3
<1>13. ASSUME NEW i \in Items, HandleReg(i) \/ HandleUnreg(i) PROVE OwnerOK' /\ LossOK'
  BY <1>10, <1>13 DEF HandleReg, HandleUnreg
<1>14. ASSUME NEW is \in SUBSET Items, HandleList(is) PROVE OwnerOK' /\ LossOK'
  BY <1>10, <1>14 DEF HandleList
<1>15. ASSUME OtherHandsOver PROVE OwnerOK' /\ LossOK'
  BY <1>15 DEF OtherHandsOver, OwnerOK, LossOK
<1> QED BY <1>1, <1>2, <1>3, <1>4, <1>5, <1>6, <1>7, <1>8, <1>9, <1>11, <1>12, <1>13, <1>14, <1>15
        DEF Next, Environment, Bus, Handle

\* Two elements make a set of two, at least.
LEMMA AtMostOne ==
  ASSUME NEW S, IsFiniteSet(S), Cardinality(S) <= 1, NEW x \in S, NEW y \in S
  PROVE  x = y
<1>1. Cardinality(S) \in Nat /\ (Cardinality(S) = 0 <=> S = {})
  BY FS_CardinalityType, FS_EmptySet
<1>2. Cardinality(S) = 1
  BY <1>1
<1>3. \E z : S = {z}
  BY <1>2, FS_Singleton
<1> QED BY <1>3

\* A plain service has one item or is one host, and only its own name is a prefix of them.
LEMMA PlainIs ==
  ASSUME NEW s \in Services, Plain(s)
  PROVE  /\ \A i, j \in Items : ServiceOf[i] = s /\ ServiceOf[j] = s => i = j
         /\ \A i \in Items : ServiceOf[i] = s => s \notin HostServices
         /\ \A i \in Items : StartsWithService(i, s) <=> ServiceOf[i] = s
         /\ \A i, j \in Items : ServiceOf[i] = s => (StartsWithItem(i, j) <=> i = j)
         /\ \A i, j \in Items : ServiceOf[i] = s => (StartsWithItem(j, i) <=> i = j)
<1>1. IsFiniteSet(ItemsOf(s)) /\ Cardinality(ItemsOf(s)) \in Nat
  BY ServiceOfAssumption, FS_Subset, FS_CardinalityType DEF ItemsOf
<1>2. /\ IsFiniteSet({s} \cap HostServices) /\ Cardinality({s} \cap HostServices) \in Nat
      /\ s \in HostServices => Cardinality({s} \cap HostServices) = 1
  <2>1. s \in HostServices => {s} \cap HostServices = {s}
    OBVIOUS
  <2>2. s \notin HostServices => {s} \cap HostServices = {}
    OBVIOUS
  <2>3. IsFiniteSet({s}) /\ Cardinality({s}) = 1 /\ IsFiniteSet({}) /\ Cardinality({}) = 0
    BY FS_Singleton, FS_EmptySet
  <2> QED BY <2>1, <2>2, <2>3
<1>3. Cardinality(ItemsOf(s)) + Cardinality({s} \cap HostServices) <= 1
      /\ \A t \in Services : <<s, t>> \notin ServicePrefix /\ <<t, s>> \notin ServicePrefix
  BY DEF Plain
<1>4. Cardinality(ItemsOf(s)) <= 1
  BY <1>1, <1>2, <1>3
<1>5. \A i, j \in Items : ServiceOf[i] = s /\ ServiceOf[j] = s => i = j
  BY <1>1, <1>4, AtMostOne DEF ItemsOf
<1>6. ASSUME NEW i \in Items, ServiceOf[i] = s PROVE s \notin HostServices
  <2>1. ItemsOf(s) # {}
    BY <1>6 DEF ItemsOf
  <2>2. Cardinality(ItemsOf(s)) # 0
    BY <1>1, <2>1, FS_EmptySet
  <2> QED BY <1>1, <1>2, <1>3, <2>2
<1>7. \A i \in Items : StartsWithService(i, s) <=> ServiceOf[i] = s
  BY <1>3, ServiceOfAssumption DEF StartsWithService
<1>8. \A i, j \in Items : ServiceOf[i] = s => (StartsWithItem(i, j) <=> i = j)
  BY <1>5, PrefixAssumption DEF StartsWithItem
<1>9. \A i, j \in Items : ServiceOf[i] = s => (StartsWithItem(j, i) <=> i = j)
  BY <1>5, PrefixAssumption DEF StartsWithItem
<1> QED BY <1>5, <1>6, <1>7, <1>8, <1>9

\* The item a handler registers is the last of the list.
LEMMA OneMore ==
  ASSUME TrayTypes, NEW i \in Items, items' = Append(items, i)
  PROVE  ToSet(items)' = ToSet(items) \cup {i}
<1>1. /\ Len(items) \in Nat /\ DOMAIN items = 1 .. Len(items) /\ DOMAIN items' = 1 .. (Len(items) + 1)
      /\ \A j \in 1 .. Len(items) : items'[j] = items[j]
      /\ items'[Len(items) + 1] = i
  BY AppendProperties, LenProperties DEF TrayTypes
<1>2. \A j \in DOMAIN items' : j \in DOMAIN items \/ j = Len(items) + 1
  BY <1>1
<1>3. \A j \in DOMAIN items : j \in DOMAIN items'
  BY <1>1
<1>4. Len(items) + 1 \in DOMAIN items'
  BY <1>1
<1> QED BY <1>1, <1>2, <1>3, <1>4 DEF ToSet

\* GoneOK and WatchedOK of what stays: watches, entries and signals.
LEMMA WatchKept ==
  ASSUME GoneOK, WatchedOK, UNCHANGED <<watches, hosts, items>>,
         \A s \in watches : s \in alive \cup missed => s \in alive' \cup missed' \/ Coming(Msg("gone", s))',
         \A s \in watches : Coming(Msg("gone", s)) => Coming(Msg("gone", s))'
  PROVE  GoneOK' /\ WatchedOK'
BY DEF GoneOK, WatchedOK

LEMMA WatchStep ==
  TrayTypes /\ OwnerOK /\ GoneOK /\ WatchedOK /\ Next => GoneOK' /\ WatchedOK'
<1> SUFFICES ASSUME TrayTypes, OwnerOK, GoneOK, WatchedOK, Next PROVE GoneOK' /\ WatchedOK'
  OBVIOUS
<1> USE DEF envVars, ourVars, busVars
<1>1. ASSUME NEW m \in AllMsgs, inbox' = Append(inbox, m), alive \subseteq alive',
             UNCHANGED <<watches, hosts, items, missed>>
      PROVE  GoneOK' /\ WatchedOK'
  <2>1. \A s \in watches : Coming(Msg("gone", s)) => Coming(Msg("gone", s))'
    BY <1>1, Queues, PutOnFirst DEF Coming
  <2> QED BY <1>1, <2>1, WatchKept
<1>2. ASSUME NEW s \in Services, AppStarts(s) PROVE GoneOK' /\ WatchedOK'
  BY <1>2, WatchKept DEF AppStarts, Coming
<1>3. ASSUME NEW s \in Services, AppCallsHost(s) PROVE GoneOK' /\ WatchedOK'
  <2>1. Msg("host", s) \in AllMsgs
    BY <1>3, HostMsgs DEF AllMsgs, AppCallsHost
  <2> QED BY <1>1, <1>3, <2>1 DEF AppCallsHost
<1>4. ASSUME NEW s \in Services, AppExits(s) PROVE GoneOK' /\ WatchedOK'
  <2>1. PICK r \in Seq(Messages) : Exited(s, r)
    BY <1>4, ExitSends
  <2>2. inbox' = inbox \o r /\ inbox \in Seq(AllMsgs) /\ r \in Seq(AllMsgs) /\ <<>> \in Seq(AllMsgs)
    BY <2>1, Queues DEF Exited
  <2>3. UNCHANGED <<watches, hosts, items>> /\ alive' = alive \ {s}
        /\ missed' = missed \cup ({s} \cap (watches \ matched))
    BY <1>4 DEF AppExits
  <2>4. ASSUME NEW t, Coming(Msg("gone", t)) PROVE Coming(Msg("gone", t))'
    BY <2>2, <2>4, PutBehind DEF Coming
  <2>5. s \in matched => Coming(Msg("gone", s))'
    <3> SUFFICES ASSUME s \in matched PROVE Coming(Msg("gone", s))'
      OBVIOUS
    <3>1. \E k \in DOMAIN r : r[k] \in {Msg("gone", s)}
      BY <2>1 DEF Exited
    <3> QED BY <2>2, <3>1, PutBehind DEF Coming
  <2> QED BY <2>3, <2>4, <2>5, WatchKept
<1>5. ASSUME NEW i \in Items, AppCalls(i) PROVE GoneOK' /\ WatchedOK'
  <2>1. Msg("call", i) \in AllMsgs /\ Msg("reg", i) \in AllMsgs
    BY ItemMsgs DEF AllMsgs
  <2> QED BY <1>1, <1>5, <2>1 DEF AppCalls
<1>6. ASSUME OtherExits \/ OtherStarts \/ OtherReplies PROVE GoneOK' /\ WatchedOK'
  <2>1. /\ Msg("lost", NoArg) \in AllMsgs /\ Msg("new", NoArg) \in AllMsgs
        /\ Msg("list", otherItems) \in AllMsgs
    BY OtherMsgs DEF AllMsgs, TrayTypes
  <2> QED BY <1>1, <1>6, <2>1 DEF OtherExits, OtherStarts, OtherReplies
<1>7. ASSUME BusTakes PROVE GoneOK' /\ WatchedOK'
  <2>1. Head(outbox) \in AllMsgs
    BY <1>7, HeadTailProperties DEF BusTakes, TrayTypes, AllMsgs
  <2>2. CASE inbox' = inbox
    BY <1>7, <2>2, WatchKept DEF BusTakes, Coming
  <2> QED BY <1>1, <1>7, <2>1, <2>2 DEF BusTakes
<1>8. ASSUME NEW t, NEW x, Take(t, x), t # "gone", UNCHANGED <<watches, hosts, items, missed, alive>>
      PROVE  GoneOK' /\ WatchedOK'
  <2>1. \A s \in watches : Coming(Msg("gone", s)) => Coming(Msg("gone", s))'
    BY <1>8, Taken, MsgIs DEF Coming
  <2> QED BY <1>8, <2>1, WatchKept
<1>9. \* An entry is made, of a service that is alive and is watched from then on.
      ASSUME NEW t, NEW x, Take(t, x), t # "gone", NEW s \in alive, watches' = watches \cup {s},
             \A e \in Services : \/ e \in hosts' \/ ItemsOf(e) \cap ToSet(items)' # {}
                           => e = s \/ e \in hosts \/ ItemsOf(e) \cap ToSet(items) # {},
             UNCHANGED <<missed, alive>>
      PROVE  GoneOK' /\ WatchedOK'
  <2>1. \A e \in watches : Coming(Msg("gone", e)) => Coming(Msg("gone", e))'
    BY <1>9, Taken, MsgIs DEF Coming
  <2> QED BY <1>9, <2>1 DEF GoneOK, WatchedOK
<1>10. ASSUME NEW i \in Items, HandleCall(i) PROVE GoneOK' /\ WatchedOK'
  <2>1. CASE Contains(items, i) \/ ServiceOf[i] \notin alive
    BY <1>8, <1>10, <2>1 DEF HandleCall
  <2>2. CASE ~(Contains(items, i) \/ ServiceOf[i] \notin alive)
    <3>1. /\ watches' = watches \cup {ServiceOf[i]} /\ items' = Append(items, i) /\ hosts' = hosts
          /\ ServiceOf[i] \in alive /\ UNCHANGED <<missed, alive>> /\ Take("call", i)
      BY <1>10, <2>2 DEF HandleCall, Watch
    <3>2. ToSet(items)' = ToSet(items) \cup {i}
      BY <3>1, OneMore
    <3>3. \A e \in Services : ItemsOf(e) \cap ToSet(items)' # {} => e = ServiceOf[i] \/ ItemsOf(e) \cap ToSet(items) # {}
      BY <3>2 DEF ItemsOf
    <3> QED BY <1>9, <3>1, <3>3
  <2> QED BY <2>1, <2>2
<1>11. ASSUME NEW s \in Services, HandleHost(s) PROVE GoneOK' /\ WatchedOK'
  <2>1. CASE s \in hosts \/ s \notin alive
    BY <1>8, <1>11, <2>1 DEF HandleHost
  <2>2. CASE ~(s \in hosts \/ s \notin alive)
    <3>1. /\ watches' = watches \cup {s} /\ items' = items /\ hosts' = hosts \cup {s}
          /\ s \in alive /\ UNCHANGED <<missed, alive>> /\ Take("host", s)
      BY <1>11, <2>2 DEF HandleHost, Watch
    <3> QED BY <1>9, <3>1
  <2> QED BY <2>1, <2>2
<1>12. ASSUME NEW s \in Services, HandleGone(s) PROVE GoneOK' /\ WatchedOK'
  <2>1. Take("gone", s) /\ alive' = alive
    BY <1>12 DEF HandleGone
  <2>2. ASSUME NEW e, e # s, Coming(Msg("gone", e)) PROVE Coming(Msg("gone", e))'
    BY <2>1, <2>2, Taken, MsgIs DEF Coming
  <2>3. CASE s \notin watches
    BY <1>12, <2>1, <2>2, <2>3, WatchKept DEF HandleGone
  <2>4. CASE s \in watches
    <3>1. Unregister(s) /\ watches' = watches \ {s} /\ missed' = missed \ {s}
      BY <1>12, <2>4 DEF HandleGone
    <3>2. PICK r \in Seq(Requests), gone \in SUBSET ToSet(items) : Unregistered(s, r, gone)
      BY <3>1, UnregisterDoes
    <3>3. /\ ToSet(items') = ToSet(items) \ gone /\ \A i \in gone : StartsWithService(i, s)
          /\ \/ gone # {} /\ hosts' = hosts
             \/ gone = {} /\ hosts' = hosts \ {s} /\ \A i \in ToSet(items) : ~StartsWithService(i, s)
      BY <3>2 DEF Unregistered
    <3>4. GoneOK'
      BY <2>1, <2>2, <3>1 DEF GoneOK
    <3>5. ASSUME NEW e \in Services, Plain(e), e \in hosts' \/ ItemsOf(e) \cap ToSet(items') # {}
          PROVE  e \in watches'
      <4>1. e \in hosts \/ ItemsOf(e) \cap ToSet(items) # {}
        BY <3>3, <3>5
      <4>2. e # s
        <5> SUFFICES ASSUME e = s PROVE FALSE
          OBVIOUS
        <5>1. ToSet(items) \subseteq Items /\ hosts \subseteq HostServices
          BY ElementOfSeq, LenProperties DEF ToSet, TrayTypes
        <5>2. \A i, j \in Items : ServiceOf[i] = s /\ ServiceOf[j] = s => i = j
          BY <3>5, PlainIs
        <5>3. \A i \in Items : /\ ServiceOf[i] = s => s \notin HostServices
                               /\ StartsWithService(i, s) <=> ServiceOf[i] = s
          BY <3>5, PlainIs
        <5> QED BY <3>3, <3>5, <5>1, <5>2, <5>3 DEF ItemsOf
      <4> QED BY <3>1, <3>5, <4>1, <4>2 DEF WatchedOK
    <3>6. WatchedOK'
      BY <3>5 DEF WatchedOK
    <3> QED BY <3>4, <3>6
  <2> QED BY <2>3, <2>4
<1>13. ASSUME HandleLost PROVE GoneOK' /\ WatchedOK'
  <2>1. CASE owner = "none"
    <3>1. watches = {} /\ hosts = {} /\ items = <<>>
      BY <2>1 DEF OwnerOK
    <3> QED BY <1>13, <3>1 DEF HandleLost, GoneOK, WatchedOK
  <2>2. CASE owner # "none"
    BY <1>8, <1>13, <2>2 DEF HandleLost, TryRegister, Take
  <2> QED BY <2>1, <2>2
<1>14. ASSUME HandleNew PROVE GoneOK' /\ WatchedOK'
  <2>1. UNCHANGED <<watches, hosts, items, missed, alive>> /\ inbox # <<>> /\ Head(inbox) = Msg("new", NoArg)
    BY <1>14 DEF HandleNew
  <2>2. CASE owner # "us"
    BY <1>8, <1>14, <2>1, <2>2 DEF HandleNew, Take
  <2>3. CASE owner = "us"
    <3>1. PICK k \in 1 .. Len(inbox) : inbox' = InsertAt(Tail(inbox), k, Msg("list", ToSet(items)))
      BY <1>14, <2>3 DEF HandleNew
    <3>2. /\ Tail(inbox) \in Seq(AllMsgs) /\ Len(inbox) = Len(Tail(inbox)) + 1
          /\ Msg("list", ToSet(items)) \in AllMsgs
      <4>1. ToSet(items) \in SUBSET Items
        BY ElementOfSeq, LenProperties DEF TrayTypes, ToSet
      <4> QED BY <2>1, <4>1, Queues, HeadTailProperties, LenProperties, OtherMsgs DEF AllMsgs
    <3>3. ASSUME NEW s, Coming(Msg("gone", s)) PROVE Coming(Msg("gone", s))'
      <4>1. Comes(Tail(inbox), <<>>, {Msg("gone", s)})
        BY <2>1, <3>3, Queues, TakeHead, MsgIs DEF Coming
      <4> QED BY <3>1, <3>2, <4>1, PutBetween DEF Coming
    <3> QED BY <2>1, <3>3, WatchKept
  <2> QED BY <2>2, <2>3
<1>15. ASSUME NEW i \in Items, HandleReg(i) \/ HandleUnreg(i) PROVE GoneOK' /\ WatchedOK'
  BY <1>8, <1>15 DEF HandleReg, HandleUnreg
<1>16. ASSUME NEW is \in SUBSET Items, HandleList(is) PROVE GoneOK' /\ WatchedOK'
  BY <1>8, <1>16 DEF HandleList
<1>17. ASSUME OtherHandsOver PROVE GoneOK' /\ WatchedOK'
  BY <1>17, WatchKept DEF OtherHandsOver, Coming
<1> QED BY <1>2, <1>3, <1>4, <1>5, <1>6, <1>7, <1>10, <1>11, <1>12, <1>13, <1>14, <1>15, <1>16, <1>17
        DEF Next, Environment, Bus, Handle

-----------------------------------------------------------------------------
(* What the host shows, and what the watcher lists *)

\* Items whose id is no prefix of another and has none.
Alone(i) == \A j \in Items : <<i, j>> \in ItemPrefix \/ <<j, i>> \in ItemPrefix => i = j

\* An item that is not listed is not shown, or it is about to be taken away, also when a
\* message that shows it is on its way.
HideOK(i) ==
  i \notin Listed => /\ Followed(inbox, outbox, Shows(i), Hides(i))
                     /\ i \in hostItems => Comes(inbox, outbox, Hides(i))

\* An item that is listed is shown or about to be, unless its service has left or was missed;
\* and what takes it away is from before it was listed, so that a signal of it comes after.
ShowOK(i) ==
  i \in Listed => /\ Followed(inbox, outbox, Hides(i), RegOf(i))
                  /\ \/ i \in hostItems \/ asked \/ Comes(inbox, outbox, Shows(i))
                     \/ ServiceOf[i] \in missed \/ Coming(Msg("gone", ServiceOf[i]))

LEMMA HideKept ==
  ASSUME NEW i \in Items, HideOK(i), i \in Listed => i \in Listed',
         i \in hostItems' => i \in hostItems \/ Comes(inbox', outbox', Hides(i)),
         Followed(inbox, outbox, Shows(i), Hides(i)) => Followed(inbox', outbox', Shows(i), Hides(i)),
         Comes(inbox, outbox, Hides(i)) => Comes(inbox', outbox', Hides(i))
  PROVE  HideOK(i)'
<1>1. Shows(i)' = Shows(i) /\ Hides(i)' = Hides(i)
  BY DEF Shows, Hides, RegOf
<1>2. CASE i \in Listed'
  BY <1>2 DEF HideOK
<1>3. CASE i \notin Listed'
  <2>1. Followed(inbox, outbox, Shows(i), Hides(i)) /\ (i \in hostItems => Comes(inbox, outbox, Hides(i)))
    BY <1>3 DEF HideOK
  <2>2. Followed(inbox', outbox', Shows(i), Hides(i)) /\ (i \in hostItems' => Comes(inbox', outbox', Hides(i)))
    BY <2>1
  <2> QED BY <1>1, <1>3, <2>2 DEF HideOK
<1> QED BY <1>2, <1>3

\* A step that puts a message behind the others in the inbox, and changes no list.
LEMMA HidePut ==
  ASSUME TrayTypes, NEW i \in Items, HideOK(i), NEW m \in AllMsgs, inbox' = Append(inbox, m),
         m \in Shows(i) => i \in Listed', i \in Listed => i \in Listed', UNCHANGED <<outbox, hostItems>>
  PROVE  HideOK(i)'
<1>1. CASE i \in Listed'
  BY <1>1 DEF HideOK
<1>2. CASE i \notin Listed'
  <2>1. m \notin Shows(i) /\ i \notin Listed
    BY <1>2
  <2>2. /\ Followed(inbox, outbox, Shows(i), Hides(i)) => Followed(inbox', outbox', Shows(i), Hides(i))
        /\ Comes(inbox, outbox, Hides(i)) => Comes(inbox', outbox', Hides(i))
    BY <2>1, Queues, PutOnFirst
  <2> QED BY <2>2, HideKept
<1> QED BY <1>1, <1>2

\* The signal that the other watcher's name was lost takes everything away.
LEMMA HideExits ==
  ASSUME TrayTypes, OwnerOK, NEW i \in Items, OtherExits PROVE HideOK(i)'
<1> USE DEF envVars, ourVars, busVars
<1>1. /\ inbox' = Append(inbox, Msg("lost", NoArg)) /\ outbox' = outbox /\ outbox = <<>>
      /\ inbox \in Seq(AllMsgs) /\ outbox \in Seq(AllMsgs) /\ Msg("lost", NoArg) \in AllMsgs
  BY Queues, OtherMsgs DEF OtherExits, OwnerOK, AllMsgs
<1>2. Msg("lost", NoArg) \in Hides(i) /\ Msg("lost", NoArg) \notin Shows(i)
  BY Kinds
<1>3. Followed(inbox', <<>>, Shows(i), Hides(i)) /\ Comes(inbox', outbox', Hides(i))
  BY <1>1, <1>2, PutOnFirst
<1>4. Shows(i)' = Shows(i) /\ Hides(i)' = Hides(i)
  BY DEF Shows, Hides, RegOf
<1> QED BY <1>1, <1>3, <1>4 DEF HideOK

LEMMA HideEnvironment ==
  ASSUME TrayTypes, OwnerOK, NEW i \in Items, HideOK(i), Environment, ~handed' PROVE HideOK(i)'
<1> USE DEF envVars, ourVars, busVars
<1>1. ASSUME NEW s \in Services, AppStarts(s) PROVE HideOK(i)'
  BY <1>1, HideKept DEF AppStarts, Listed
<1>2. ASSUME NEW s \in Services, AppCallsHost(s) PROVE HideOK(i)'
  <2>1. Msg("host", s) \in AllMsgs /\ Msg("host", s) \notin Shows(i)
    BY <1>2, HostMsgs, Kinds DEF AllMsgs, AppCallsHost
  <2>2. Listed' = Listed
    BY <1>2 DEF AppCallsHost, Listed
  <2> QED BY <1>2, <2>1, <2>2, HidePut DEF AppCallsHost
<1>3. ASSUME NEW s \in Services, AppExits(s) PROVE HideOK(i)'
  <2>1. PICK r \in Seq(Messages) : Exited(s, r)
    BY <1>3, ExitSends
  <2>2. /\ inbox' = inbox \o r /\ r \in Seq(AllMsgs) /\ inbox \in Seq(AllMsgs) /\ outbox \in Seq(AllMsgs)
        /\ outbox' = outbox /\ hostItems' = hostItems
    BY <1>3, <2>1, Queues DEF Exited, AppExits
  <2>3. ASSUME NEW k \in DOMAIN r PROVE r[k] \notin Shows(i)
    <3>1. PICK x : r[k] = Msg("gone", x) \/ r[k] = Msg("unreg", x)
      BY <2>1 DEF Exited
    <3> QED BY <3>1, Kinds
  <2>4. CASE i \in Listed => i \in Listed'
    <3>1. /\ Followed(inbox, outbox, Shows(i), Hides(i)) => Followed(inbox', outbox', Shows(i), Hides(i))
          /\ Comes(inbox, outbox, Hides(i)) => Comes(inbox', outbox', Hides(i))
      BY <2>2, <2>3, PutBehind
    <3> QED BY <2>2, <2>4, <3>1, HideKept
  <2>5. CASE i \in Listed /\ i \notin Listed'
    <3>1. owner # "us" /\ i \in otherItems \cap ItemsOf(s)
      BY <1>3, <2>5 DEF AppExits, Listed
    <3>2. \E k \in DOMAIN r : r[k] \in Hides(i)
      BY <2>1, <3>1 DEF Exited, Hides
    <3>3. Followed(inbox', <<>>, Shows(i), Hides(i)) /\ Comes(inbox', outbox', Hides(i))
      BY <2>2, <2>3, <3>2, PutBehind
    <3>4. outbox' = <<>>
      BY <2>2, <3>1 DEF OwnerOK
    <3>5. Shows(i)' = Shows(i) /\ Hides(i)' = Hides(i)
      BY DEF Shows, Hides, RegOf
    <3> QED BY <3>3, <3>4, <3>5 DEF HideOK
  <2> QED BY <2>4, <2>5
<1>4. ASSUME NEW j \in Items, AppCalls(j) PROVE HideOK(i)'
  <2>1. Msg("call", j) \in AllMsgs /\ Msg("reg", j) \in AllMsgs
    BY ItemMsgs DEF AllMsgs
  <2>2. CASE owner = "us"
    <3>1. inbox' = Append(inbox, Msg("call", j)) /\ Listed' = Listed /\ UNCHANGED <<outbox, hostItems>>
      BY <1>4, <2>2 DEF AppCalls, Listed
    <3>2. Msg("call", j) \notin Shows(i)
      BY Kinds
    <3> QED BY <2>1, <3>1, <3>2, HidePut
  <2>3. CASE owner # "us"
    <3>1. /\ inbox' = Append(inbox, Msg("reg", j)) /\ Listed' = Listed \cup {j}
          /\ UNCHANGED <<outbox, hostItems>>
      BY <1>4, <2>3 DEF AppCalls, Listed
    <3>2. Msg("reg", j) \in Shows(i) => i \in Listed'
      BY <3>1, Kinds
    <3> QED BY <2>1, <3>1, <3>2, HidePut
  <2> QED BY <2>2, <2>3
<1>5. ASSUME OtherExits PROVE HideOK(i)'
  BY <1>5, HideExits
<1>6. ASSUME OtherStarts PROVE HideOK(i)'
  <2>1. Msg("new", NoArg) \in AllMsgs /\ Msg("new", NoArg) \notin Shows(i)
    BY OtherMsgs, Kinds DEF AllMsgs
  <2>2. Listed' = Listed
    BY <1>6 DEF OtherStarts, Listed
  <2> QED BY <1>6, <2>1, <2>2, HidePut DEF OtherStarts
<1>7. ~OtherHandsOver
  BY DEF OtherHandsOver
<1> QED BY <1>1, <1>2, <1>3, <1>4, <1>5, <1>6, <1>7 DEF Environment

LEMMA HideBus ==
  ASSUME TrayTypes, OwnerOK, NEW i \in Items, HideOK(i), Bus PROVE HideOK(i)'
<1> USE DEF envVars, ourVars
<1>1. ASSUME OtherReplies PROVE HideOK(i)'
  <2>1. Msg("list", otherItems) \in AllMsgs /\ (Msg("list", otherItems) \in Shows(i) => i \in otherItems)
    BY OtherMsgs, Kinds DEF AllMsgs, TrayTypes
  <2>2. Listed' = Listed /\ Listed = otherItems
    BY <1>1 DEF OtherReplies, Listed, OwnerOK
  <2> QED BY <1>1, <2>1, <2>2, HidePut DEF OtherReplies
<1>2. ASSUME BusTakes PROVE HideOK(i)'
  <2>1. /\ outbox # <<>> /\ outbox' = Tail(outbox) /\ Head(outbox) \in Requests
        /\ inbox \in Seq(AllMsgs) /\ outbox \in Seq(AllMsgs)
        /\ Listed' = Listed /\ hostItems' = hostItems
    BY <1>2, Queues, HeadTailProperties DEF BusTakes, TrayTypes, Listed
  <2>2. CASE inbox' = Append(inbox, Head(outbox))
    <3>1. /\ Followed(inbox, outbox, Shows(i), Hides(i)) => Followed(inbox', outbox', Shows(i), Hides(i))
          /\ Comes(inbox, outbox, Hides(i)) => Comes(inbox', outbox', Hides(i))
      BY <2>1, <2>2, Carried
    <3> QED BY <2>1, <3>1, HideKept
  <2>3. CASE inbox' = inbox /\ Head(outbox).type \in {"watch", "unwatch"}
    <3>1. Head(outbox) \notin Hides(i)
      <4>1. Head(outbox) = Msg(Head(outbox).type, Head(outbox).of)
        BY <2>1, RequestIs
      <4>2. Head(outbox).type \notin {"unreg", "lost"}
        BY <2>3
      <4> QED BY <4>1, <4>2, Kinds
    <3>2. /\ Followed(inbox, outbox, Shows(i), Hides(i)) => Followed(inbox', outbox', Shows(i), Hides(i))
          /\ Comes(inbox, outbox, Hides(i)) => Comes(inbox', outbox', Hides(i))
      BY <2>1, <2>3, <3>1, Carried
    <3> QED BY <2>1, <3>2, HideKept
  <2> QED BY <1>2, <2>2, <2>3 DEF BusTakes
<1> QED BY <1>1, <1>2 DEF Bus

\* A handler that takes a message which shows or hides nothing of i, and changes no list.
LEMMA HideTake ==
  ASSUME TrayTypes, NEW i \in Items, HideOK(i), NEW t, NEW x, Take(t, x), Msg(t, x) \notin Hides(i),
         i \in hostItems' => i \in hostItems \/ Msg(t, x) \in Shows(i),
         Listed' = Listed, outbox' = outbox
  PROVE  HideOK(i)'
<1>1. /\ inbox # <<>> /\ Head(inbox) = Msg(t, x) /\ inbox' = Tail(inbox)
      /\ inbox \in Seq(AllMsgs)
  BY Queues DEF Take
<1>2. CASE i \in Listed
  BY <1>2 DEF HideOK
<1>3. CASE i \notin Listed
  <2>1. Followed(inbox, outbox, Shows(i), Hides(i)) /\ (i \in hostItems => Comes(inbox, outbox, Hides(i)))
    BY <1>3 DEF HideOK
  <2>2. /\ Followed(inbox', outbox, Shows(i), Hides(i))
        /\ Msg(t, x) \in Shows(i) => Comes(inbox', outbox, Hides(i))
        /\ Comes(inbox, outbox, Hides(i)) => Comes(inbox', outbox, Hides(i))
    BY <1>1, <2>1, TakeHead
  <2>3. Shows(i)' = Shows(i) /\ Hides(i)' = Hides(i)
    BY DEF Shows, Hides, RegOf
  <2> QED BY <2>1, <2>2, <2>3 DEF HideOK
<1> QED BY <1>2, <1>3

\* A handler of the watcher that sends something; what it removes from the list it reports.
LEMMA HideSend ==
  ASSUME TrayTypes, NEW i \in Items, HideOK(i), NEW t, NEW x, Take(t, x), Msg(t, x) \notin Hides(i),
         NEW r \in Seq(Requests), outbox' = outbox \o r, hostItems' = hostItems,
         i \notin Listed' => \A k \in DOMAIN r : r[k] \notin Shows(i),
         i \notin Listed' => i \notin Listed \/ \E k \in DOMAIN r : r[k] \in Hides(i)
  PROVE  HideOK(i)'
<1>1. /\ inbox # <<>> /\ Head(inbox) = Msg(t, x) /\ inbox' = Tail(inbox)
      /\ inbox \in Seq(AllMsgs) /\ outbox \in Seq(AllMsgs) /\ r \in Seq(AllMsgs)
      /\ Tail(inbox) \in Seq(AllMsgs)
  BY Queues, HeadTailProperties DEF Take
<1>2. CASE i \in Listed'
  BY <1>2 DEF HideOK
<1>3. CASE i \notin Listed'
  <2>1. Shows(i)' = Shows(i) /\ Hides(i)' = Hides(i)
    BY DEF Shows, Hides, RegOf
  <2>2. \A k \in DOMAIN r : r[k] \notin Shows(i)
    BY <1>3
  <2>3. CASE i \notin Listed
    <3>1. Followed(inbox, outbox, Shows(i), Hides(i)) /\ (i \in hostItems => Comes(inbox, outbox, Hides(i)))
      BY <2>3 DEF HideOK
    <3>2. /\ Followed(inbox', outbox, Shows(i), Hides(i))
          /\ i \in hostItems => Comes(inbox', outbox, Hides(i))
      BY <1>1, <3>1, TakeHead
    <3>3. /\ Followed(inbox', outbox', Shows(i), Hides(i))
          /\ i \in hostItems => Comes(inbox', outbox', Hides(i))
      BY <1>1, <2>2, <3>2, PutBehind
    <3> QED BY <2>1, <3>3 DEF HideOK
  <2>4. CASE \E k \in DOMAIN r : r[k] \in Hides(i)
    <3>1. Followed(inbox', outbox', Shows(i), Hides(i)) /\ Comes(inbox', outbox', Hides(i))
      BY <1>1, <2>2, <2>4, PutBehind
    <3> QED BY <2>1, <3>1 DEF HideOK
  <2> QED BY <1>3, <2>3, <2>4
<1> QED BY <1>2, <1>3

LEMMA HideHandle ==
  ASSUME TrayTypes, OwnerOK, NEW i \in Items, Alone(i), HideOK(i), Handle PROVE HideOK(i)'
<1> USE DEF envVars, ourVars
<1>1. ASSUME NEW j \in Items, HandleCall(j) PROVE HideOK(i)'
  <2>1. Take("call", j) /\ owner = "us" /\ owner' = owner /\ hostItems' = hostItems /\ Msg("call", j) \notin Hides(i)
    BY <1>1, OwnersTurn, Kinds DEF HandleCall
  <2>2. CASE Contains(items, j) \/ ServiceOf[j] \notin alive
    BY <1>1, <2>1, <2>2, HideTake DEF HandleCall, Listed
  <2>3. CASE ~(Contains(items, j) \/ ServiceOf[j] \notin alive)
    <3>1. Watch(ServiceOf[j], <<Msg("reg", j)>>) /\ items' = Append(items, j)
      BY <1>1, <2>3 DEF HandleCall
    <3>2. ServiceOf[j] \in Services /\ <<Msg("reg", j)>> \in Seq(Requests)
          /\ \A k \in DOMAIN <<Msg("reg", j)>> : <<Msg("reg", j)>>[k] = Msg("reg", j)
      BY ItemMsgs, ServiceOfAssumption
    <3>3. PICK r \in Seq(Requests) : Watched(ServiceOf[j], <<Msg("reg", j)>>, r)
      BY <3>1, <3>2, WatchDoes
    <3>4. \A k \in DOMAIN r : r[k] \in {Msg("watch", ServiceOf[j]), Msg("reg", j)}
      BY <3>2, <3>3 DEF Watched
    <3>5. Listed' = Listed \cup {j}
      BY <2>1, <3>1, OneMore DEF Listed
    <3>6. i \notin Listed' => \A k \in DOMAIN r : r[k] \notin Shows(i)
      <4> SUFFICES ASSUME i # j, NEW k \in DOMAIN r PROVE r[k] \notin Shows(i)
        BY <3>5
      <4> QED BY <3>4, Kinds
    <3> QED BY <2>1, <3>3, <3>5, <3>6, HideSend DEF Watched
  <2> QED BY <2>2, <2>3
<1>2. ASSUME NEW s \in Services, HandleHost(s) PROVE HideOK(i)'
  <2>1. /\ Take("host", s) /\ Listed' = Listed /\ hostItems' = hostItems /\ Msg("host", s) \notin Hides(i)
    BY <1>2, Kinds DEF HandleHost, Listed
  <2>2. CASE s \in hosts \/ s \notin alive
    BY <1>2, <2>1, <2>2, HideTake DEF HandleHost
  <2>3. CASE ~(s \in hosts \/ s \notin alive)
    <3>1. <<>> \in Seq(Requests) /\ Watch(s, <<>>)
      BY <1>2, <2>3, EmptySeq DEF HandleHost
    <3>2. PICK r \in Seq(Requests) : Watched(s, <<>>, r)
      BY <3>1, WatchDoes
    <3>3. ASSUME NEW k \in DOMAIN r PROVE r[k] \notin Shows(i)
      <4>1. r[k] = Msg("watch", s)
        BY <3>2 DEF Watched
      <4> QED BY <4>1, Kinds
    <3> QED BY <2>1, <3>2, <3>3, HideSend DEF Watched
  <2> QED BY <2>2, <2>3
<1>3. ASSUME NEW s \in Services, HandleGone(s) PROVE HideOK(i)'
  <2>1. /\ Take("gone", s) /\ owner = "us" /\ owner' = owner /\ hostItems' = hostItems
        /\ Msg("gone", s) \notin Hides(i)
    BY <1>3, OwnersTurn, Kinds DEF HandleGone
  <2>2. CASE s \notin watches
    BY <1>3, <2>1, <2>2, HideTake DEF HandleGone, Listed
  <2>3. CASE s \in watches
    <3>1. PICK r \in Seq(Requests), gone \in SUBSET ToSet(items) : Unregistered(s, r, gone)
      BY <1>3, <2>3, UnregisterDoes DEF HandleGone
    <3>2. Listed' = Listed \ gone
      BY <2>1, <3>1 DEF Listed, Unregistered
    <3>3. ASSUME NEW k \in DOMAIN r PROVE r[k] \notin Shows(i)
      <4>1. PICK x : r[k] = Msg("unreg", x) \/ r[k] = Msg("unwatch", x)
        BY <3>1 DEF Unregistered
      <4> QED BY <4>1, Kinds
    <3>4. ASSUME i \in gone PROVE \E k \in DOMAIN r : r[k] \in Hides(i)
      BY <3>1, <3>4 DEF Unregistered, Hides
    <3> QED BY <2>1, <3>1, <3>2, <3>3, <3>4, HideSend DEF Unregistered
  <2> QED BY <2>2, <2>3
<1>4. ASSUME NEW j \in Items, HandleReg(j) PROVE HideOK(i)'
  <2>1. Take("reg", j) /\ Listed' = Listed /\ outbox' = outbox /\ Msg("reg", j) \notin Hides(i)
    BY <1>4, Kinds DEF HandleReg, Listed
  <2>2. i \in hostItems' => i \in hostItems \/ Msg("reg", j) \in Shows(i)
    BY <1>4, Kinds DEF HandleReg, Shown
  <2> QED BY <2>1, <2>2, HideTake
<1>5. ASSUME NEW is \in SUBSET Items, HandleList(is) PROVE HideOK(i)'
  <2>1. Take("list", is) /\ Listed' = Listed /\ outbox' = outbox /\ Msg("list", is) \notin Hides(i)
    BY <1>5, Kinds DEF HandleList, Listed
  <2>2. i \in hostItems' => i \in hostItems \/ Msg("list", is) \in Shows(i)
    BY <1>5, Kinds DEF HandleList, Shown
  <2> QED BY <2>1, <2>2, HideTake
<1>6. \* What hides i is gone, or still comes.
      ASSUME NEW t, NEW x, Take(t, x), Listed' = Listed, outbox' = outbox, i \notin hostItems'
      PROVE  HideOK(i)'
  <2>1. inbox # <<>> /\ Head(inbox) = Msg(t, x) /\ inbox' = Tail(inbox) /\ inbox \in Seq(AllMsgs)
    BY <1>6, Queues DEF Take
  <2>2. Followed(inbox, outbox, Shows(i), Hides(i)) => Followed(inbox', outbox, Shows(i), Hides(i))
    BY <2>1, TakeHead
  <2>3. Shows(i)' = Shows(i) /\ Hides(i)' = Hides(i)
    BY DEF Shows, Hides, RegOf
  <2> QED BY <1>6, <2>2, <2>3 DEF HideOK
<1>7. ASSUME NEW j \in Items, HandleUnreg(j) PROVE HideOK(i)'
  <2>1. Take("unreg", j) /\ Listed' = Listed /\ outbox' = outbox
    BY <1>7 DEF HandleUnreg, Listed
  <2>2. CASE i = j
    <3>1. \A l \in hostItems : StartsWithItem(l, i) <=> l = i
      BY DEF StartsWithItem, Alone, TrayTypes
    <3>2. i \notin hostItems'
      BY <1>7, <2>2, <3>1 DEF HandleUnreg, StartsWithItem
    <3> QED BY <1>6, <2>1, <3>2
  <2>3. CASE i # j
    <3>1. Msg("unreg", j) \notin Hides(i)
      BY <2>3, Kinds
    <3>2. i \in hostItems' => i \in hostItems
      BY <1>7 DEF HandleUnreg
    <3> QED BY <2>1, <3>1, <3>2, HideTake
  <2> QED BY <2>2, <2>3
<1>8. ASSUME HandleLost PROVE HideOK(i)'
  <2>1. hostItems' = {} /\ outbox' = outbox
    BY <1>8 DEF HandleLost
  <2>2. CASE owner # "none"
    <3>1. Take("lost", NoArg) /\ Listed' = Listed
      BY <1>8, <2>2 DEF HandleLost, TryRegister, Take, Listed
    <3> QED BY <1>6, <2>1, <3>1
  <2>3. CASE owner = "none"
    <3>1. /\ inbox # <<>> /\ inbox' = Append(Tail(inbox), Msg("new", NoArg)) /\ Listed = {} /\ Listed' = {}
          /\ inbox \in Seq(AllMsgs) /\ outbox \in Seq(AllMsgs) /\ Msg("new", NoArg) \in AllMsgs
          /\ Msg("new", NoArg) \notin Shows(i)
      BY <1>8, <2>3, Queues, OtherMsgs, Kinds DEF HandleLost, TryRegister, Listed, OwnerOK, ToSet, AllMsgs
    <3>2. Tail(inbox) \in Seq(AllMsgs) /\ Followed(inbox, outbox, Shows(i), Hides(i))
      BY <3>1, HeadTailProperties DEF HideOK
    <3>3. Followed(Tail(inbox), outbox, Shows(i), Hides(i))
      BY <3>1, <3>2, TakeHead
    <3>4. Followed(inbox', outbox, Shows(i), Hides(i))
      BY <3>1, <3>2, <3>3, PutOnFirst
    <3>5. Shows(i)' = Shows(i) /\ Hides(i)' = Hides(i)
      BY DEF Shows, Hides, RegOf
    <3> QED BY <2>1, <3>4, <3>5 DEF HideOK
  <2> QED BY <2>2, <2>3
<1>9. ASSUME HandleNew PROVE HideOK(i)'
  <2>1. /\ inbox # <<>> /\ Head(inbox) = Msg("new", NoArg) /\ Listed' = Listed
        /\ outbox' = outbox /\ hostItems' = hostItems /\ Msg("new", NoArg) \notin Hides(i)
    BY <1>9, Kinds DEF HandleNew, Listed
  <2>2. CASE owner # "us"
    <3>1. Take("new", NoArg)
      BY <1>9, <2>2 DEF HandleNew, Take
    <3> QED BY <2>1, <3>1, HideTake
  <2>3. CASE owner = "us"
    <3>1. PICK k \in 1 .. Len(inbox) : inbox' = InsertAt(Tail(inbox), k, Msg("list", ToSet(items)))
      BY <1>9, <2>3 DEF HandleNew
    <3>2. /\ Tail(inbox) \in Seq(AllMsgs) /\ Len(inbox) = Len(Tail(inbox)) + 1
          /\ Msg("list", ToSet(items)) \in AllMsgs /\ inbox \in Seq(AllMsgs)
      <4>1. ToSet(items) \in SUBSET Items
        BY ElementOfSeq, LenProperties DEF TrayTypes, ToSet
      <4> QED BY <2>1, <4>1, Queues, HeadTailProperties, LenProperties, OtherMsgs DEF AllMsgs
    <3>3. /\ Followed(inbox, outbox, Shows(i), Hides(i)) => Followed(Tail(inbox), outbox, Shows(i), Hides(i))
          /\ Comes(inbox, outbox, Hides(i)) => Comes(Tail(inbox), outbox, Hides(i))
      BY <2>1, <3>2, TakeHead
    <3>4. CASE i \in Listed
      BY <2>1, <3>4 DEF HideOK
    <3>5. CASE i \notin Listed
      <4>1. Msg("list", ToSet(items)) \notin Shows(i)
        BY <2>3, <3>5, Kinds DEF Listed
      <4>2. /\ Followed(inbox, outbox, Shows(i), Hides(i)) => Followed(inbox', outbox', Shows(i), Hides(i))
            /\ Comes(inbox, outbox, Hides(i)) => Comes(inbox', outbox', Hides(i))
        BY <2>1, <3>1, <3>2, <3>3, <4>1, PutBetween
      <4> QED BY <2>1, <4>2, HideKept
    <3> QED BY <3>4, <3>5
  <2> QED BY <2>2, <2>3
<1> QED BY <1>1, <1>2, <1>3, <1>4, <1>5, <1>7, <1>8, <1>9 DEF Handle

\* A listed item is shown or about to be, or its service has left or was missed.
ShowSure(i) ==
  \/ i \in hostItems \/ asked \/ Comes(inbox, outbox, Shows(i))
  \/ ServiceOf[i] \in missed \/ Coming(Msg("gone", ServiceOf[i]))

LEMMA ShowIs ==
  ASSUME NEW i \in Items
  PROVE  /\ ShowOK(i) <=> (i \in Listed => Followed(inbox, outbox, Hides(i), RegOf(i)) /\ ShowSure(i))
         /\ ShowOK(i)' <=> (i \in Listed' => Followed(inbox', outbox', Hides(i), RegOf(i)) /\ ShowSure(i)')
         /\ Shows(i)' = Shows(i) /\ Hides(i)' = Hides(i) /\ RegOf(i)' = RegOf(i)
<1>1. Shows(i)' = Shows(i) /\ Hides(i)' = Hides(i) /\ RegOf(i)' = RegOf(i)
  BY DEF Shows, Hides, RegOf
<1>2. ShowOK(i) <=> (i \in Listed => Followed(inbox, outbox, Hides(i), RegOf(i)) /\ ShowSure(i))
  BY DEF ShowOK, ShowSure
<1>3. ShowOK(i)' <=> (i \in Listed' => Followed(inbox', outbox', Hides(i), RegOf(i)) /\ ShowSure(i)')
  BY <1>1 DEF ShowOK, ShowSure
<1> QED BY <1>1, <1>2, <1>3

\* The service of a listed item has not left, or that is known.
LEMMA ListedAlive ==
  ASSUME TrayTypes, OwnerOK, GoneOK, WatchedOK, NEW i \in Items, Plain(ServiceOf[i]), i \in Listed
  PROVE  /\ \/ ServiceOf[i] \in alive \cup missed
            \/ Coming(Msg("gone", ServiceOf[i]))
         /\ owner = "us" => ServiceOf[i] \in watches
<1>1. ServiceOf[i] \in Services /\ i \in ItemsOf(ServiceOf[i])
  BY ServiceOfAssumption DEF ItemsOf
<1>2. CASE owner = "us"
  <2>1. i \in ItemsOf(ServiceOf[i]) \cap ToSet(items)
    BY <1>1, <1>2 DEF Listed
  <2>2. ServiceOf[i] \in watches
    BY <1>1, <2>1 DEF WatchedOK
  <2> QED BY <2>2 DEF GoneOK
<1>3. CASE owner # "us"
  BY <1>3 DEF Listed, OwnerOK
<1> QED BY <1>2, <1>3

\* What is on its way stays so when another message comes.
LEMMA StillComing ==
  ASSUME TrayTypes, NEW m \in AllMsgs, inbox' = Append(inbox, m), NEW x, Coming(x)
  PROVE  Coming(x)'
<1>1. inbox \in Seq(AllMsgs) /\ <<>> \in Seq(AllMsgs) /\ Comes(inbox, <<>>, {x})
  BY Queues DEF Coming
<1>2. Comes(Append(inbox, m), <<>>, {x})
  BY <1>1, PutOnFirst
<1> QED BY <1>2 DEF Coming

\* A step that puts a message behind the others in the inbox.
LEMMA ShowPut ==
  ASSUME TrayTypes, NEW i \in Items, ShowOK(i), NEW m \in AllMsgs, inbox' = Append(inbox, m),
         i \in Listed' => i \in Listed /\ m \notin Hides(i), UNCHANGED <<outbox, hostItems, missed>>,
         asked => asked' \/ m \in Shows(i)
  PROVE  ShowOK(i)'
<1> SUFFICES ASSUME i \in Listed' PROVE Followed(inbox', outbox', Hides(i), RegOf(i)) /\ ShowSure(i)'
  BY ShowIs
<1>1. Followed(inbox, outbox, Hides(i), RegOf(i)) /\ ShowSure(i) /\ m \notin Hides(i)
  BY ShowIs
<1>2. inbox \in Seq(AllMsgs) /\ outbox \in Seq(AllMsgs) /\ outbox' = outbox
  BY Queues
<1>3. Followed(inbox', outbox', Hides(i), RegOf(i))
  <2>1. Followed(Append(inbox, m), outbox, Hides(i), RegOf(i))
    BY <1>1, <1>2, PutOnFirst
  <2> QED BY <1>2, <2>1
<1>4. Comes(inbox, outbox, Shows(i)) \/ m \in Shows(i) => Comes(inbox', outbox', Shows(i))
  BY <1>2, PutOnFirst
<1>5. Coming(Msg("gone", ServiceOf[i])) => Coming(Msg("gone", ServiceOf[i]))'
  BY StillComing
<1> QED BY <1>1, <1>3, <1>4, <1>5, ShowIs DEF ShowSure

LEMMA ShowEnvironment ==
  ASSUME TrayTypes, OwnerOK, NEW i \in Items, ShowOK(i), Environment PROVE ShowOK(i)'
<1> USE DEF envVars, ourVars, busVars
<1>1. ASSUME NEW s \in Services, AppStarts(s) PROVE ShowOK(i)'
  <2>1. UNCHANGED <<inbox, outbox, hostItems, asked, missed>> /\ Listed' = Listed
    BY <1>1 DEF AppStarts, Listed
  <2> QED BY <2>1, ShowIs DEF ShowSure, Coming
<1>2. ASSUME NEW s \in Services, AppCallsHost(s) PROVE ShowOK(i)'
  <2>1. Msg("host", s) \in AllMsgs /\ Msg("host", s) \notin Hides(i)
    BY <1>2, HostMsgs, Kinds DEF AllMsgs, AppCallsHost
  <2>2. Listed' = Listed
    BY <1>2 DEF AppCallsHost, Listed
  <2> QED BY <1>2, <2>1, <2>2, ShowPut DEF AppCallsHost
<1>3. ASSUME NEW s \in Services, AppExits(s) PROVE ShowOK(i)'
  <2> SUFFICES ASSUME i \in Listed' PROVE Followed(inbox', outbox', Hides(i), RegOf(i)) /\ ShowSure(i)'
    BY ShowIs
  <2>1. PICK r \in Seq(Messages) : Exited(s, r)
    BY <1>3, ExitSends
  <2>2. /\ inbox' = inbox \o r /\ r \in Seq(AllMsgs) /\ inbox \in Seq(AllMsgs) /\ outbox \in Seq(AllMsgs)
        /\ <<>> \in Seq(AllMsgs)
        /\ UNCHANGED <<outbox, hostItems, asked, items, owner>> /\ missed \subseteq missed'
        /\ otherItems' = otherItems \ ItemsOf(s)
    BY <1>3, <2>1, Queues DEF Exited, AppExits
  <2>3. i \in Listed /\ i \notin otherItems \cap ItemsOf(s)
    BY <2>2 DEF Listed, OwnerOK
  <2>4. ASSUME NEW k \in DOMAIN r PROVE r[k] \notin Hides(i)
    <3>1. \/ r[k] = Msg("gone", s)
          \/ \E j \in otherItems \cap ItemsOf(s) : r[k] = Msg("unreg", j)
      BY <2>1 DEF Exited
    <3>2. CASE r[k] = Msg("gone", s)
      BY <3>2, Kinds
    <3>3. ASSUME NEW j \in otherItems \cap ItemsOf(s), r[k] = Msg("unreg", j) PROVE r[k] \notin Hides(i)
      BY <2>3, <3>3, Kinds
    <3> QED BY <3>1, <3>2, <3>3
  <2>5. /\ Followed(inbox, outbox, Hides(i), RegOf(i)) => Followed(inbox', outbox', Hides(i), RegOf(i))
        /\ Comes(inbox, outbox, Shows(i)) => Comes(inbox', outbox', Shows(i))
    BY <2>2, <2>4, PutBehind
  <2>6. Coming(Msg("gone", ServiceOf[i])) => Coming(Msg("gone", ServiceOf[i]))'
    BY <2>2, PutBehind DEF Coming
  <2> QED BY <2>2, <2>3, <2>5, <2>6, ShowIs DEF ShowSure
<1>4. ASSUME NEW j \in Items, AppCalls(j) PROVE ShowOK(i)'
  <2>1. Msg("call", j) \in AllMsgs /\ Msg("reg", j) \in AllMsgs
        /\ Msg("call", j) \notin Hides(i) /\ Msg("reg", j) \notin Hides(i)
    BY ItemMsgs, Kinds DEF AllMsgs
  <2>2. CASE owner = "us"
    <3>1. inbox' = Append(inbox, Msg("call", j)) /\ Listed' = Listed
          /\ UNCHANGED <<outbox, hostItems, missed, asked>>
      BY <1>4, <2>2 DEF AppCalls, Listed
    <3> QED BY <2>1, <3>1, ShowPut
  <2>3. CASE owner # "us"
    <3>1. /\ inbox' = Append(inbox, Msg("reg", j)) /\ Listed' = Listed \cup {j}
          /\ UNCHANGED <<outbox, hostItems, missed, asked>> /\ outbox = <<>>
      BY <1>4, <2>3 DEF AppCalls, Listed, OwnerOK
    <3>2. CASE i # j
      BY <2>1, <3>1, <3>2, ShowPut
    <3>3. CASE i = j
      <4>1. Msg("reg", i) \in RegOf(i) /\ Msg("reg", i) \in Shows(i)
        BY Kinds
      <4>2. Followed(inbox', <<>>, Hides(i), RegOf(i)) /\ Comes(inbox', outbox', Shows(i))
        BY <2>1, <3>1, <3>3, <4>1, Queues, PutOnFirst
      <4> QED BY <3>1, <4>2, ShowIs DEF ShowSure
    <3> QED BY <3>2, <3>3
  <2> QED BY <2>2, <2>3
<1>5. ASSUME OtherExits PROVE ShowOK(i)'
  <2>1. Listed' = {}
    BY <1>5 DEF OtherExits, Listed
  <2> QED BY <2>1, ShowIs
<1>6. ASSUME OtherStarts PROVE ShowOK(i)'
  <2>1. Msg("new", NoArg) \in AllMsgs /\ Msg("new", NoArg) \notin Hides(i)
    BY OtherMsgs, Kinds DEF AllMsgs
  <2>2. Listed' = Listed
    BY <1>6 DEF OtherStarts, Listed
  <2> QED BY <1>6, <2>1, <2>2, ShowPut DEF OtherStarts
<1>7. ASSUME OtherHandsOver PROVE ShowOK(i)'
  <2>1. Listed' = {}
    BY <1>7 DEF OtherHandsOver, Listed
  <2> QED BY <2>1, ShowIs
<1> QED BY <1>1, <1>2, <1>3, <1>4, <1>5, <1>6, <1>7 DEF Environment

LEMMA ShowBus ==
  ASSUME TrayTypes, OwnerOK, NEW i \in Items, ShowOK(i), Bus PROVE ShowOK(i)'
<1> USE DEF envVars, ourVars
<1>1. ASSUME OtherReplies PROVE ShowOK(i)'
  <2>1. /\ Msg("list", otherItems) \in AllMsgs /\ Msg("list", otherItems) \notin Hides(i)
        /\ i \in otherItems => Msg("list", otherItems) \in Shows(i)
    BY OtherMsgs, Kinds DEF AllMsgs, TrayTypes
  <2>2. Listed' = Listed /\ Listed = otherItems
    BY <1>1 DEF OtherReplies, Listed, OwnerOK
  <2>3. CASE i \in Listed
    BY <1>1, <2>1, <2>2, <2>3, ShowPut DEF OtherReplies
  <2> QED BY <2>2, <2>3, ShowIs
<1>2. ASSUME BusTakes PROVE ShowOK(i)'
  <2> SUFFICES ASSUME i \in Listed' PROVE Followed(inbox', outbox', Hides(i), RegOf(i)) /\ ShowSure(i)'
    BY ShowIs
  <2>1. /\ outbox # <<>> /\ outbox' = Tail(outbox) /\ Head(outbox) \in Requests
        /\ inbox \in Seq(AllMsgs) /\ outbox \in Seq(AllMsgs) /\ <<>> \in Seq(AllMsgs)
        /\ Listed' = Listed /\ hostItems' = hostItems /\ asked' = asked /\ missed' = missed
    BY <1>2, Queues, HeadTailProperties DEF BusTakes, TrayTypes, Listed
  <2>2. Followed(inbox, outbox, Hides(i), RegOf(i)) /\ ShowSure(i)
    BY <2>1, ShowIs
  <2>3. CASE inbox' = Append(inbox, Head(outbox))
    <3>1. /\ Followed(inbox', outbox', Hides(i), RegOf(i))
          /\ Comes(inbox, outbox, Shows(i)) => Comes(inbox', outbox', Shows(i))
      BY <2>1, <2>2, <2>3, Carried
    <3>2. Coming(Msg("gone", ServiceOf[i])) => Coming(Msg("gone", ServiceOf[i]))'
      <4>1. Head(outbox) \in AllMsgs
        BY <2>1 DEF AllMsgs
      <4> QED BY <2>3, <4>1, StillComing
    <3> QED BY <2>1, <2>2, <3>1, <3>2, ShowIs DEF ShowSure
  <2>4. CASE inbox' = inbox /\ Head(outbox).type \in {"watch", "unwatch"}
    <3>1. Head(outbox) \notin Shows(i) /\ Head(outbox) \notin RegOf(i)
      <4>1. Head(outbox) = Msg(Head(outbox).type, Head(outbox).of)
        BY <2>1, RequestIs
      <4>2. Head(outbox).type \notin {"reg", "list"}
        BY <2>4
      <4> QED BY <4>1, <4>2, Kinds
    <3>2. /\ Followed(inbox', outbox', Hides(i), RegOf(i))
          /\ Comes(inbox, outbox, Shows(i)) => Comes(inbox', outbox', Shows(i))
      BY <2>1, <2>2, <2>4, <3>1, Carried
    <3> QED BY <2>1, <2>2, <2>4, <3>2, ShowIs DEF ShowSure, Coming
  <2> QED BY <1>2, <2>3, <2>4 DEF BusTakes
<1> QED BY <1>1, <1>2 DEF Bus

\* A handler that takes a message, and sends nothing that hides i.
LEMMA ShowTake ==
  ASSUME TrayTypes, NEW i \in Items, ShowOK(i), NEW t, NEW x, Take(t, x), i \in Listed' => i \in Listed,
         NEW r \in Seq(Requests), outbox' = outbox \o r, asked' = asked,
         i \in Listed' =>
           /\ \A k \in DOMAIN r : r[k] \notin Hides(i)
           /\ Msg(t, x) # Msg("gone", ServiceOf[i])
           /\ ServiceOf[i] \in missed => ServiceOf[i] \in missed'
           /\ i \in hostItems => i \in hostItems' \/ Msg(t, x) \in Hides(i)
           /\ Msg(t, x) \in Shows(i) => \/ i \in hostItems' \/ ServiceOf[i] \in missed
                                        \/ Coming(Msg("gone", ServiceOf[i]))
  PROVE  ShowOK(i)'
<1> SUFFICES ASSUME i \in Listed' PROVE Followed(inbox', outbox', Hides(i), RegOf(i)) /\ ShowSure(i)'
  BY ShowIs
<1> DEFINE m == Msg(t, x)
<1>1. /\ inbox # <<>> /\ Head(inbox) = m /\ inbox' = Tail(inbox) /\ Tail(inbox) \in Seq(AllMsgs)
      /\ inbox \in Seq(AllMsgs) /\ outbox \in Seq(AllMsgs) /\ r \in Seq(AllMsgs)
  BY Queues, HeadTailProperties DEF Take
<1>2. Followed(inbox, outbox, Hides(i), RegOf(i)) /\ ShowSure(i)
  BY ShowIs
<1>3. /\ Followed(inbox', outbox, Hides(i), RegOf(i))
      /\ m \in Hides(i) => Comes(inbox', outbox, RegOf(i))
  BY <1>1, <1>2, TakeHead
<1>4. Comes(inbox, outbox, Shows(i)) /\ m \notin Shows(i) => Comes(inbox', outbox, Shows(i))
  BY <1>1, TakeHead
<1>5. /\ Followed(inbox', outbox', Hides(i), RegOf(i))
      /\ Comes(inbox', outbox, Shows(i)) => Comes(inbox', outbox', Shows(i))
  BY <1>1, <1>3, PutBehind
<1>6. Coming(Msg("gone", ServiceOf[i])) => Coming(Msg("gone", ServiceOf[i]))'
  <2>1. m \notin {Msg("gone", ServiceOf[i])}
    OBVIOUS
  <2> QED BY <2>1, Taken DEF Coming
<1>7. m \in Hides(i) => Comes(inbox', outbox', Shows(i))
  BY <1>3, <1>5, RegShows
<1> HIDE DEF m
<1>8. CASE m \in Hides(i)
  BY <1>5, <1>7, <1>8, ShowIs DEF ShowSure
<1>9. CASE m \notin Hides(i) /\ m \notin Shows(i)
  BY <1>2, <1>4, <1>5, <1>6, <1>9, ShowIs DEF ShowSure, m
<1>10. CASE m \notin Hides(i) /\ m \in Shows(i)
  BY <1>5, <1>6, <1>10, ShowIs DEF ShowSure, m
<1> QED BY <1>8, <1>9, <1>10

LEMMA ShowHandle ==
  ASSUME TrayTypes, OwnerOK, GoneOK, WatchedOK, NEW i \in Items, Plain(ServiceOf[i]), ShowOK(i), Handle
  PROVE  ShowOK(i)'
<1> USE DEF envVars, ourVars
<1> DEFINE e == ServiceOf[i]
<1>0. e \in Services /\ <<>> \in Seq(Requests) /\ outbox \o <<>> = outbox
  <2>1. outbox \in Seq(Requests)
    BY DEF TrayTypes
  <2>2. Unchanging(outbox)
    BY <2>1, PutNone
  <2>3. e \in Services /\ <<>> \in Seq(Requests)
    BY ServiceOfAssumption, EmptySeq
  <2> QED BY <2>2, <2>3 DEF Unchanging
<1>1. ASSUME NEW j \in Items, HandleCall(j) PROVE ShowOK(i)'
  <2>1. /\ Take("call", j) /\ owner = "us" /\ UNCHANGED <<owner, hostItems, missed, asked>>
        /\ Msg("call", j) \notin Hides(i) /\ Msg("call", j) \notin Shows(i) /\ Msg("call", j) # Msg("gone", e)
    <3>1. Take("call", j) /\ UNCHANGED <<owner, hostItems, missed, asked>>
      BY <1>1 DEF HandleCall
    <3>2. owner = "us"
      BY <3>1, OwnersTurn
    <3>3. Msg("call", j) \notin Hides(i) /\ Msg("call", j) \notin Shows(i)
      BY Kinds
    <3> QED BY <3>1, <3>2, <3>3, MsgIs
  <2>2. CASE Contains(items, j) \/ ServiceOf[j] \notin alive
    <3>1. outbox' = outbox \o <<>> /\ Listed' = Listed
      BY <1>0, <1>1, <2>1, <2>2 DEF HandleCall, Listed
    <3>2. \A k \in DOMAIN <<>> : <<>>[k] \notin Hides(i)
      BY EmptySeq
    <3> QED BY <1>0, <2>1, <3>1, <3>2, ShowTake
  <2>3. CASE ~(Contains(items, j) \/ ServiceOf[j] \notin alive)
    <3> DEFINE b == <<Msg("reg", j)>>
    <3>1. Watch(ServiceOf[j], b) /\ items' = Append(items, j)
      BY <1>1, <2>3 DEF HandleCall
    <3>2. ServiceOf[j] \in Services /\ b \in Seq(Requests) /\ DOMAIN b = {1} /\ b[1] = Msg("reg", j)
      BY ItemMsgs, ServiceOfAssumption
    <3> HIDE DEF b
    <3>3. PICK r \in Seq(Requests) : Watched(ServiceOf[j], b, r)
      BY <3>1, <3>2, WatchDoes
    <3>4. \A k \in DOMAIN r : r[k] \in {Msg("watch", ServiceOf[j]), Msg("reg", j)}
      BY <3>2, <3>3 DEF Watched
    <3>5. \A k \in DOMAIN r : r[k] \notin Hides(i)
      BY <3>4, Kinds
    <3>6. Listed' = Listed \cup {j} /\ outbox' = outbox \o r
      BY <2>1, <3>1, <3>3, OneMore DEF Listed, Watched
    <3>7. CASE i # j
      BY <2>1, <3>5, <3>6, <3>7, ShowTake
    <3>8. CASE i = j
      <4>1. PICK k \in DOMAIN r : r[k] = Msg("reg", i)
        BY <3>2, <3>3, <3>8 DEF Watched
      <4>2. r[k] \in RegOf(i)
        BY <4>1, Kinds
      <4>3. inbox' \in Seq(AllMsgs) /\ outbox \in Seq(AllMsgs) /\ r \in Seq(AllMsgs)
        BY <2>1, Queues, HeadTailProperties DEF Take
      <4>4. Followed(inbox', outbox', Hides(i), RegOf(i)) /\ Comes(inbox', outbox', RegOf(i))
        BY <3>5, <3>6, <4>2, <4>3, PutBehind
      <4> QED BY <4>4, RegShows, ShowIs DEF ShowSure
    <3> QED BY <3>7, <3>8
  <2> QED BY <2>2, <2>3
<1>2. ASSUME NEW s \in Services, HandleHost(s) PROVE ShowOK(i)'
  <2>1. /\ Take("host", s) /\ Listed' = Listed /\ UNCHANGED <<hostItems, missed, asked>>
        /\ Msg("host", s) \notin Hides(i) /\ Msg("host", s) \notin Shows(i) /\ Msg("host", s) # Msg("gone", e)
    BY <1>2, Kinds, MsgIs DEF HandleHost, Listed
  <2>2. PICK r \in Seq(Requests) : /\ outbox' = outbox \o r
                                   /\ \A k \in DOMAIN r : r[k] = Msg("watch", s)
    <3>1. CASE s \in hosts \/ s \notin alive
      <4>1. outbox' = outbox \o <<>> /\ \A k \in DOMAIN <<>> : <<>>[k] = Msg("watch", s)
        BY <1>0, <1>2, <3>1, EmptySeq DEF HandleHost
      <4> QED BY <1>0, <4>1
    <3>2. CASE ~(s \in hosts \/ s \notin alive)
      <4>1. PICK r \in Seq(Requests) : Watched(s, <<>>, r)
        BY <1>0, <1>2, <3>2, WatchDoes DEF HandleHost
      <4>2. outbox' = outbox \o r /\ \A k \in DOMAIN r : r[k] = Msg("watch", s)
        BY <4>1, EmptySeq DEF Watched
      <4> QED BY <4>2
    <3> QED BY <3>1, <3>2
  <2>3. \A k \in DOMAIN r : r[k] \notin Hides(i)
    <3>1. Msg("watch", s) \notin Hides(i)
      BY Kinds
    <3> QED BY <2>2, <3>1
  <2> QED BY <2>1, <2>2, <2>3, ShowTake
<1>3. ASSUME NEW s \in Services, HandleGone(s) PROVE ShowOK(i)'
  <2>1. /\ Take("gone", s) /\ owner = "us" /\ UNCHANGED <<owner, hostItems, asked>>
        /\ Msg("gone", s) \notin Hides(i) /\ Msg("gone", s) \notin Shows(i)
        /\ Msg("gone", s) = Msg("gone", e) <=> s = e
    <3>1. Take("gone", s) /\ UNCHANGED <<owner, hostItems, asked>>
      BY <1>3 DEF HandleGone
    <3>2. owner = "us"
      BY <3>1, OwnersTurn
    <3>3. Msg("gone", s) \notin Hides(i) /\ Msg("gone", s) \notin Shows(i)
      BY Kinds
    <3> QED BY <3>1, <3>2, <3>3, MsgIs
  <2>2. CASE s \notin watches
    <3>1. outbox' = outbox \o <<>> /\ Listed' = Listed /\ missed' = missed
      BY <1>0, <1>3, <2>1, <2>2 DEF HandleGone, Listed
    <3>2. i \in Listed => s # e
      BY <2>1, <2>2, ListedAlive
    <3>3. \A k \in DOMAIN <<>> : <<>>[k] \notin Hides(i)
      BY EmptySeq
    <3> QED BY <1>0, <2>1, <3>1, <3>2, <3>3, ShowTake
  <2>3. CASE s \in watches
    <3>1. PICK r \in Seq(Requests), gone \in SUBSET ToSet(items) : Unregistered(s, r, gone)
      BY <1>3, <2>3, UnregisterDoes DEF HandleGone
    <3>2. Listed = ToSet(items) /\ Listed' = Listed \ gone /\ missed' = missed \ {s} /\ outbox' = outbox \o r
      BY <1>3, <2>1, <2>3, <3>1 DEF Listed, Unregistered, HandleGone
    <3>3. ASSUME i \in Listed', NEW k \in DOMAIN r PROVE r[k] \notin Hides(i)
      <4>1. r[k] = Msg("unwatch", s) \/ \E g \in gone : r[k] = Msg("unreg", g)
        BY <3>1 DEF Unregistered
      <4>2. CASE r[k] = Msg("unwatch", s)
        BY <4>2, Kinds
      <4>3. ASSUME NEW g \in gone, r[k] = Msg("unreg", g) PROVE r[k] \notin Hides(i)
        <5>1. g # i /\ (Msg("unreg", g) \in Hides(i) <=> g = i)
          BY <3>2, <3>3, Kinds
        <5> QED BY <4>3, <5>1
      <4> QED BY <4>1, <4>2, <4>3
    <3>4. ASSUME i \in Listed', s = e PROVE FALSE
      <4>1. /\ \A g, h \in Items : ServiceOf[g] = s /\ ServiceOf[h] = s => g = h
            /\ \A g \in Items : StartsWithService(g, s) <=> ServiceOf[g] = s
        BY <3>4, PlainIs
      <4>2. ToSet(items) \subseteq Items /\ i \in ToSet(items) /\ i \notin gone
        BY <3>2, <3>4, ElementOfSeq, LenProperties DEF ToSet, TrayTypes
      <4>3. /\ \A g \in gone : StartsWithService(g, s)
            /\ gone # {} \/ \A g \in ToSet(items) : ~StartsWithService(g, s)
        BY <3>1 DEF Unregistered
      <4> QED BY <3>4, <4>1, <4>2, <4>3
    <3> QED BY <2>1, <3>2, <3>3, <3>4, ShowTake
  <2> QED BY <2>2, <2>3
<1>4. \* An item that is registered or listed is shown, or its service has left.
      ASSUME NEW t \in {"reg", "list"}, NEW is \in SUBSET Items, NEW x, Take(t, x),
             Msg(t, x) \in Shows(i) => i \in is, hostItems' = Shown(is),
             UNCHANGED <<envVars, items, hosts, watches, outbox, matched, crashed, missed>>
      PROVE  ShowOK(i)'
  <2>1. /\ outbox' = outbox \o <<>> /\ Listed' = Listed /\ Msg(t, x) # Msg("gone", e)
        /\ asked' = asked /\ missed' = missed
    BY <1>0, <1>4, MsgIs DEF Listed
  <2>2. \A k \in DOMAIN <<>> : <<>>[k] \notin Hides(i)
    BY EmptySeq
  <2>3. i \in hostItems => i \in hostItems'
    BY <1>4 DEF Shown
  <2>4. i \in Listed /\ Msg(t, x) \in Shows(i) =>
          i \in hostItems' \/ ServiceOf[i] \in missed \/ Coming(Msg("gone", ServiceOf[i]))
    BY <1>4, ListedAlive DEF Shown
  <2>5. i \in Listed' =>
          /\ \A k \in DOMAIN <<>> : <<>>[k] \notin Hides(i)
          /\ Msg(t, x) # Msg("gone", ServiceOf[i])
          /\ ServiceOf[i] \in missed => ServiceOf[i] \in missed'
          /\ i \in hostItems => i \in hostItems' \/ Msg(t, x) \in Hides(i)
          /\ Msg(t, x) \in Shows(i) => \/ i \in hostItems' \/ ServiceOf[i] \in missed
                                       \/ Coming(Msg("gone", ServiceOf[i]))
    BY <2>1, <2>2, <2>3, <2>4
  <2> QED BY <1>0, <1>4, <2>1, <2>5, ShowTake
<1>5. ASSUME NEW j \in Items, HandleReg(j) PROVE ShowOK(i)'
  <2>1. Msg("reg", j) \in Shows(i) => i \in {j}
    BY Kinds
  <2> QED BY <1>4, <1>5, <2>1 DEF HandleReg
<1>6. ASSUME NEW is \in SUBSET Items, HandleList(is) PROVE ShowOK(i)'
  <2>1. Msg("list", is) \in Shows(i) => i \in is
    BY Kinds
  <2> QED BY <1>4, <1>6, <2>1 DEF HandleList
<1>7. ASSUME NEW j \in Items, HandleUnreg(j) PROVE ShowOK(i)'
  <2>1. /\ Take("unreg", j) /\ Listed' = Listed /\ outbox' = outbox \o <<>> /\ UNCHANGED <<missed, asked>>
        /\ Msg("unreg", j) \notin Shows(i) /\ Msg("unreg", j) # Msg("gone", e)
        /\ Msg("unreg", j) \in Hides(i) <=> i = j
    BY <1>0, <1>7, Kinds, MsgIs DEF HandleUnreg, Listed
  <2>2. \A k \in DOMAIN <<>> : <<>>[k] \notin Hides(i)
    BY EmptySeq
  <2>3. i \in hostItems => i \in hostItems' \/ i = j
    <3>1. StartsWithItem(i, j) <=> i = j
      BY <1>0, PlainIs
    <3>2. hostItems' = hostItems \/ \E l \in hostItems : StartsWithItem(l, j) /\ hostItems' = hostItems \ {l}
      BY <1>7 DEF HandleUnreg
    <3> QED BY <3>1, <3>2
  <2>4. i \in Listed' =>
          /\ \A k \in DOMAIN <<>> : <<>>[k] \notin Hides(i)
          /\ Msg("unreg", j) # Msg("gone", ServiceOf[i])
          /\ ServiceOf[i] \in missed => ServiceOf[i] \in missed'
          /\ i \in hostItems => i \in hostItems' \/ Msg("unreg", j) \in Hides(i)
          /\ Msg("unreg", j) \notin Shows(i)
    BY <2>1, <2>2, <2>3
  <2> QED BY <1>0, <2>1, <2>4, ShowTake
<1>8. ASSUME HandleLost PROVE ShowOK(i)'
  <2>1. CASE owner = "none"
    <3>1. Listed' = {}
      BY <1>8, <2>1 DEF HandleLost, TryRegister, Listed, OwnerOK, ToSet
    <3> QED BY <3>1, ShowIs
  <2>2. CASE owner # "none"
    <3>1. Take("lost", NoArg) /\ Listed' = Listed /\ outbox' = outbox \o <<>> /\ UNCHANGED <<missed, asked>>
      BY <1>0, <1>8, <2>2 DEF HandleLost, TryRegister, Take, Listed
    <3>2. /\ Msg("lost", NoArg) \notin Shows(i) /\ Msg("lost", NoArg) # Msg("gone", e)
          /\ Msg("lost", NoArg) \in Hides(i)
      BY Kinds, MsgIs
    <3>3. \A k \in DOMAIN <<>> : <<>>[k] \notin Hides(i)
      BY EmptySeq
    <3> QED BY <1>0, <3>1, <3>2, <3>3, ShowTake
  <2> QED BY <2>1, <2>2
<1>9. ASSUME HandleNew PROVE ShowOK(i)'
  <2> SUFFICES ASSUME i \in Listed' PROVE Followed(inbox', outbox', Hides(i), RegOf(i)) /\ ShowSure(i)'
    BY ShowIs
  <2>1. /\ inbox # <<>> /\ Head(inbox) = Msg("new", NoArg) /\ Listed' = Listed /\ asked' = (owner = "other")
        /\ outbox' = outbox /\ owner \in {"us", "other", "none"}
        /\ Followed(inbox, outbox, Hides(i), RegOf(i))
    BY <1>9, ShowIs DEF HandleNew, Listed, TrayTypes
  <2>2. /\ inbox \in Seq(AllMsgs) /\ outbox \in Seq(AllMsgs) /\ Tail(inbox) \in Seq(AllMsgs)
        /\ Len(inbox) = Len(Tail(inbox)) + 1
    <3>1. inbox \in Seq(AllMsgs) /\ outbox \in Seq(AllMsgs) /\ inbox # <<>>
      BY <2>1, Queues
    <3> QED BY <3>1, HeadTailProperties, LenProperties
  <2>3. Followed(Tail(inbox), outbox, Hides(i), RegOf(i))
    BY <2>1, <2>2, TakeHead
  <2>4. CASE owner = "us"
    <3>1. PICK k \in 1 .. Len(inbox) : inbox' = InsertAt(Tail(inbox), k, Msg("list", ToSet(items)))
      BY <1>9, <2>4 DEF HandleNew
    <3>2. ToSet(items) \in SUBSET Items /\ i \in ToSet(items)
      <4>1. items \in Seq(Items)
        BY DEF TrayTypes
      <4>2. ToSet(items) \in SUBSET Items
        BY <4>1, ElementOfSeq, LenProperties DEF ToSet
      <4>3. i \in ToSet(items)
        BY <2>1, <2>4 DEF Listed
      <4> QED BY <4>2, <4>3
    <3>3. /\ Msg("list", ToSet(items)) \in AllMsgs /\ Msg("list", ToSet(items)) \in Shows(i)
          /\ Msg("list", ToSet(items)) \notin Hides(i)
      BY <3>2, OtherMsgs, Kinds DEF AllMsgs
    <3>4. Followed(inbox', outbox', Hides(i), RegOf(i))
      BY <2>1, <2>2, <2>3, <3>1, <3>3, PutBetween
    <3>5. Comes(inbox', outbox', Shows(i))
      BY <2>1, <2>2, <3>1, <3>3, PutBetween
    <3> QED BY <3>4, <3>5, ShowIs DEF ShowSure
  <2>5. CASE owner = "other"
    BY <1>9, <2>1, <2>3, <2>5 DEF HandleNew, ShowSure
  <2>6. CASE owner = "none"
    BY <2>1, <2>6 DEF Listed, OwnerOK
  <2> QED BY <2>1, <2>4, <2>5, <2>6
<1> QED BY <1>1, <1>2, <1>3, <1>5, <1>6, <1>7, <1>8, <1>9 DEF Handle

-----------------------------------------------------------------------------
(***************************************************************************)
(* The inductive invariant.  The agreement of watcher and host holds only  *)
(* when nothing is on its way; at other times it is the order of what is   *)
(* on its way that decides what the host will show in the end.             *)
(***************************************************************************)
HidesOK == ~handed => \A i \in Items : Alone(i) => HideOK(i)
ShowsOK == \A i \in Items : Plain(ServiceOf[i]) => ShowOK(i)
TrayInv == TrayTypes /\ OwnerOK /\ LossOK /\ GoneOK /\ WatchedOK /\ HidesOK /\ ShowsOK

LEMMA NothingComes ==
  ASSUME NEW A, NEW B
  PROVE  Followed(<<>>, <<>>, A, B) /\ ~Comes(<<>>, <<>>, B)
BY EmptySeq DEF Followed, Comes

LEMMA InitTrayInv == Init => TrayInv
<1> SUFFICES ASSUME Init PROVE TrayInv
  OBVIOUS
<1>1. /\ items = <<>> /\ hosts = {} /\ watches = {} /\ hostItems = {} /\ inbox = <<>> /\ outbox = <<>>
      /\ matched = {} /\ ToSet(items) = {}
  BY EmptySeq DEF Init, ToSet
<1>2. /\ owner # "none"
      /\ (owner = "us" /\ otherItems = {} /\ ~asked) \/ (owner = "other" /\ asked)
      /\ \A i \in otherItems : ServiceOf[i] \in alive
  BY DEF Init
<1>3. TrayTypes
  BY InitTypes
<1>4. OwnerOK /\ LossOK
  BY <1>1, <1>2, NothingComes DEF OwnerOK, LossOK
<1>5. GoneOK /\ WatchedOK
  BY <1>1 DEF GoneOK, WatchedOK
<1>6. HidesOK
  BY <1>1, NothingComes DEF HidesOK, HideOK
<1>7. ShowsOK
  BY <1>1, <1>2, NothingComes DEF ShowsOK, ShowOK, Listed
<1> QED BY <1>3, <1>4, <1>5, <1>6, <1>7 DEF TrayInv

\* A handover is forgotten when the name is lost.
LEMMA HandedOver == ASSUME Next, handed, ~handed' PROVE OtherExits
<1> USE DEF envVars
<1>1. ASSUME Handle PROVE handed' = handed
  BY <1>1 DEF Handle, HandleCall, HandleReg, HandleUnreg, HandleHost, HandleGone, HandleList, HandleLost,
              HandleNew
<1>2. ASSUME Bus PROVE handed' = handed
  BY <1>2 DEF Bus, BusTakes, OtherReplies
<1>3. ASSUME Environment, ~OtherExits PROVE handed' = handed \/ handed'
  BY <1>3 DEF Environment, AppStarts, AppExits, AppCallsHost, AppCalls, OtherHandsOver, OtherStarts
<1> QED BY <1>1, <1>2, <1>3 DEF Next

LEMMA NextTrayInv == TrayInv /\ [Next]_trayVars => TrayInv'
<1> SUFFICES ASSUME TrayInv, [Next]_trayVars PROVE TrayInv'
  OBVIOUS
<1>1. CASE Next
  <2>1. TrayTypes'
    BY <1>1, EnvironmentTypes, BusTypes, HandleTypes DEF Next, TrayInv
  <2>2. OwnerOK' /\ LossOK' /\ GoneOK' /\ WatchedOK'
    BY <1>1, OwnerStep, WatchStep DEF TrayInv
  <2>3. HidesOK'
    <3> SUFFICES ASSUME ~handed', NEW i \in Items, Alone(i) PROVE HideOK(i)'
      BY DEF HidesOK, Alone
    <3>1. CASE handed
      <4>1. OtherExits
        BY <1>1, <3>1, HandedOver
      <4> QED BY <4>1, HideExits DEF TrayInv
    <3>2. CASE ~handed
      <4>1. HideOK(i)
        BY <3>2 DEF TrayInv, HidesOK
      <4> QED BY <1>1, <4>1, HideEnvironment, HideBus, HideHandle DEF Next, TrayInv
    <3> QED BY <3>1, <3>2
  <2>4. ShowsOK'
    <3> SUFFICES ASSUME NEW i \in Items, Plain(ServiceOf[i]) PROVE ShowOK(i)'
      BY DEF ShowsOK, Plain, ItemsOf
    <3>1. ShowOK(i)
      BY DEF TrayInv, ShowsOK
    <3> QED BY <1>1, <3>1, ShowEnvironment, ShowBus, ShowHandle DEF Next, TrayInv
  <2> QED BY <2>1, <2>2, <2>3, <2>4 DEF TrayInv
<1>2. CASE UNCHANGED trayVars
  <2> USE <1>2 DEF trayVars, envVars, ourVars, busVars
  <2>1. TrayTypes'
    BY DEF TrayInv, TrayTypes
  <2>2. OwnerOK' /\ LossOK' /\ GoneOK' /\ WatchedOK'
    BY DEF TrayInv, OwnerOK, LossOK, GoneOK, WatchedOK, Coming
  <2>3. Listed' = Listed
    BY DEF Listed
  <2>4. HidesOK'
    BY <2>3 DEF TrayInv, HidesOK, HideOK
  <2>5. ShowsOK'
    BY <2>3 DEF TrayInv, ShowsOK, ShowOK, Coming
  <2> QED BY <2>1, <2>2, <2>4, <2>5 DEF TrayInv
<1> QED BY <1>1, <1>2

\* TrayInv holds in every state, for every number of services, items and messages.
THEOREM TrayInductive == Spec => []TrayInv
<1>1. Init => TrayInv
  BY InitTrayInv
<1>2. TrayInv /\ [Next]_trayVars => TrayInv'
  BY NextTrayInv
<1> QED BY <1>1, <1>2, PTL DEF Spec

LEMMA ComingIs ==
  ASSUME TrayTypes, NEW t, NEW x
  PROVE  /\ Coming(Msg(t, x)) <=> Waiting(t, x)
         /\ Contains(outbox, Msg(t, x)) <=> \E k \in DOMAIN outbox : outbox[k] = Msg(t, x)
<1>1. DOMAIN inbox = 1 .. Len(inbox) /\ DOMAIN outbox = 1 .. Len(outbox) /\ DOMAIN <<>> = {}
  BY LenProperties, EmptySeq DEF TrayTypes
<1> QED BY <1>1 DEF Coming, Comes, Waiting, Contains

\* When nothing is on its way between the watcher, the bus and the host, the host shows what the
\* current watcher lists: nothing else, unless another shell handed the name on, and every item of a
\* plain service. However a read of the list (connectToWatcher) and the signals overtake each other.
THEOREM TrayAlwaysConsistent == Spec => []TrayConsistent
<1>1. ASSUME TrayInv PROVE TrayConsistent
  <2>1. TypeOK
    BY <1>1, TypesEnough DEF TrayInv
  <2>2. NothingUnlisted
    <3> SUFFICES ASSUME Quiet, ~handed, NEW i \in hostItems \ Listed,
                        \A j \in Items : <<i, j>> \notin ItemPrefix /\ <<j, i>> \notin ItemPrefix
                 PROVE  FALSE
      BY DEF NothingUnlisted
    <3>1. i \in Items /\ Alone(i)
      BY <1>1 DEF Alone, TrayInv, TrayTypes
    <3>2. Comes(inbox, outbox, Hides(i))
      BY <1>1, <3>1 DEF TrayInv, HidesOK, HideOK
    <3> QED BY <3>2, NothingComes DEF Quiet
  <2>3. PlainShown
    <3> SUFFICES ASSUME Quiet, NEW i \in Listed, Plain(ServiceOf[i]), ServiceOf[i] \notin missed
                 PROVE  i \in hostItems
      BY DEF PlainShown
    <3>1. i \in Items
      BY <1>1, ElementOfSeq, LenProperties DEF Listed, TrayInv, TrayTypes, ToSet
    <3>2. ShowOK(i)
      BY <1>1, <3>1 DEF TrayInv, ShowsOK
    <3> QED BY <3>2, NothingComes DEF ShowOK, Quiet, Coming
  <2> QED BY <2>1, <2>2, <2>3 DEF TrayConsistent
<1> QED BY <1>1, TrayInductive, PTL

\* An entry of a plain service that has left is about to be removed from the watcher
\* (onServiceUnregistered), unless the service was gone before the bus had the match rule.
THEOREM DeparturesAlwaysNoticed == Spec => []DepartureNoticed
<1>1. ASSUME TrayInv PROVE DepartureNoticed
  <2> SUFFICES ASSUME NEW s \in Services \ (alive \cup missed), Plain(s),
                      s \in hosts \/ ItemsOf(s) \cap ToSet(items) # {}
               PROVE  Waiting("gone", s)
    BY DEF DepartureNoticed
  <2>1. s \in watches
    BY <1>1 DEF TrayInv, WatchedOK
  <2>2. Coming(Msg("gone", s))
    BY <1>1, <2>1 DEF TrayInv, GoneOK
  <2> QED BY <1>1, <2>2, ComingIs DEF TrayInv
<1> QED BY <1>1, TrayInductive, PTL

\* An item the host shows of a plain service that has left will be taken away by a message that
\* is on its way: no ghost stays in the tray, unless another shell handed the watcher's name on.
THEOREM GhostsAlwaysLeave == Spec => []ShownGhostsLeave
<1>1. ASSUME TrayInv PROVE ShownGhostsLeave
  <2> SUFFICES ASSUME ~handed, NEW i \in hostItems, Plain(ServiceOf[i]), ServiceOf[i] \notin alive \cup missed
               PROVE  \/ Waiting("gone", ServiceOf[i]) \/ Waiting("unreg", i) \/ Waiting("lost", NoArg)
                      \/ Contains(outbox, Msg("unreg", i))
    BY DEF ShownGhostsLeave
  <2>1. TrayTypes /\ OwnerOK /\ GoneOK /\ WatchedOK /\ i \in Items /\ ServiceOf[i] \in Services
    BY <1>1, ServiceOfAssumption DEF TrayInv, TrayTypes
  <2>2. CASE i \in Listed
    <3>1. Coming(Msg("gone", ServiceOf[i]))
      BY <2>1, <2>2, ListedAlive
    <3> QED BY <2>1, <3>1, ComingIs
  <2>3. CASE i \notin Listed
    <3>1. Alone(i)
      <4>1. \A j \in Items : (StartsWithItem(i, j) <=> i = j) /\ (StartsWithItem(j, i) <=> i = j)
        BY <2>1, PlainIs
      <4> QED BY <4>1 DEF Alone, StartsWithItem
    <3>2. Comes(inbox, outbox, Hides(i))
      BY <1>1, <2>1, <2>3, <3>1 DEF TrayInv, HidesOK, HideOK
    <3>3. \A k \in DOMAIN outbox : outbox[k] # Msg("lost", NoArg)
      <4> SUFFICES ASSUME NEW k \in DOMAIN outbox PROVE outbox[k] # Msg("lost", NoArg)
        OBVIOUS
      <4>1. outbox[k] \in Requests
        BY <2>1, ElementOfSeq, LenProperties DEF TrayTypes
      <4>2. outbox[k].type # "lost"
        BY <4>1, RequestIs
      <4> QED BY <4>2, MsgIs
    <3>4. \/ Coming(Msg("unreg", i)) \/ Coming(Msg("lost", NoArg))
          \/ \E k \in DOMAIN outbox : outbox[k] = Msg("unreg", i)
      BY <3>2, <3>3 DEF Comes, Coming, Hides
    <3> QED BY <2>1, <3>4, ComingIs
  <2> QED BY <2>2, <2>3
<1> QED BY <1>1, TrayInductive, PTL

\* When nobody owns the watcher's name, the signal that makes tryRegister() run is on its way.
THEOREM LossAlwaysNoticed == Spec => []LossNoticed
<1>1. ASSUME TrayInv PROVE LossNoticed
  BY <1>1, ComingIs DEF TrayInv, LossOK, LossNoticed
<1> QED BY <1>1, TrayInductive, PTL
=============================================================================
