----------------------------- MODULE Induction -----------------------------
(***************************************************************************)
(* Induction over lists and recursive functions, queues, and lists in      *)
(* order, for the proofs.  What is shown of every number up to a bound is  *)
(* a set of these numbers, the step of a recursion a function and an order *)
(* a set of pairs, so that the facts can be cited; what is said of         *)
(* messages is about sets of them.                                         *)
(***************************************************************************)
EXTENDS Integers, SequencesExt, WellFoundedInduction, SequenceTheorems, FunctionTheorems,
        FiniteSetTheorems, TLAPS

\* Any numbers have a least one.
LEMMA LeastNumber == ASSUME NEW T \in SUBSET Nat, T # {}
                     PROVE  \E n \in T : \A m \in T : n <= m
<1>1. PICK n \in T : \A m \in T : ~(<<m, n>> \in OpToRel(<, Nat))
  BY NatLessThanWellFounded, WFMin
<1>2. \A m \in T : m \in Nat /\ n \in Nat /\ ~(m < n)
  BY <1>1 DEF OpToRel
<1>3. \A m \in T : n <= m
  BY <1>2
<1> QED BY <1>3

\* What holds of 0, and of a number when it holds of the one before.
LEMMA UpTo ==
  ASSUME NEW N \in Nat, NEW T, 0 \in T, \A n \in 1 .. N : n - 1 \in T => n \in T
  PROVE  \A n \in 0 .. N : n \in T
<1> SUFFICES ASSUME NEW bad \in 0 .. N, bad \notin T PROVE FALSE
  OBVIOUS
<1>1. (0 .. N) \ T \in SUBSET Nat /\ (0 .. N) \ T # {}
  OBVIOUS
<1>2. PICK n \in (0 .. N) \ T : \A m \in (0 .. N) \ T : n <= m
  BY <1>1, LeastNumber
<1>3. n \in 1 .. N /\ n - 1 \in 0 .. N /\ ~(n <= n - 1)
  BY <1>2
<1> QED BY <1>2, <1>3

\* A function defined by recursion on 0 .. N is there: up to each number, it takes one step
\* more than up to the one before.
Recursion(g, N, base, step) == g[0] = base /\ \A n \in 1 .. N : g[n] = step[n][g[n - 1]]

LEMMA RecursionDefines ==
  ASSUME NEW N \in Nat, NEW V, NEW base \in V, NEW step \in [1 .. N -> [V -> V]]
  PROVE  \E g \in [0 .. N -> V] : Recursion(g, N, base, step)
<1> USE DEF Recursion
<1> DEFINE There(m) == \E g \in [0 .. m -> V] : Recursion(g, m, base, step)
           T == {m \in 0 .. N : There(m)}
<1>1. 0 \in T
  <2>1. There(0)
    <3> WITNESS [n \in 0 .. 0 |-> base] \in [0 .. 0 -> V]
    <3> QED OBVIOUS
  <2> QED BY <2>1
<1>2. ASSUME NEW m \in 1 .. N, m - 1 \in T PROVE m \in T
  <2>1. PICK g \in [0 .. m - 1 -> V] : Recursion(g, m - 1, base, step)
    BY <1>2
  <2> DEFINE h == [n \in 0 .. m |-> IF n < m THEN g[n] ELSE step[m][g[m - 1]]]
  <2>2. g[m - 1] \in V /\ step[m][g[m - 1]] \in V
    OBVIOUS
  <2>3. h \in [0 .. m -> V]
    BY <2>2
  <2>4. h[0] = base /\ \A n \in 0 .. m - 1 : h[n] = g[n]
    BY <2>1
  <2>5. ASSUME NEW n \in 1 .. m PROVE h[n] = step[n][h[n - 1]]
    <3>1. h[n - 1] = g[n - 1]
      BY <2>4
    <3>2. CASE n = m
      BY <3>1, <3>2
    <3>3. CASE n # m
      <4>1. n \in 1 .. m - 1
        BY <3>3
      <4> QED BY <2>1, <2>4, <3>1, <4>1
    <3> QED BY <3>2, <3>3
  <2>6. There(m)
    BY <2>3, <2>4, <2>5
  <2> QED BY <2>6
<1>3. N \in T
  <2> HIDE DEF T
  <2>1. \A n \in 0 .. N : n \in T
    BY <1>1, <1>2, UpTo
  <2> QED BY <2>1
<1> QED BY <1>3

\* The elements of a finite set, in some order.
LEMMA SomeOrder ==
  ASSUME NEW S, IsFiniteSet(S)
  PROVE  /\ SetToSeq(S) \in [1 .. Cardinality(S) -> S] /\ IsInjective(SetToSeq(S))
         /\ SetToSeq(S) \in Seq(S)
         /\ \A k \in DOMAIN SetToSeq(S) : SetToSeq(S)[k] \in S
         /\ \A x \in S : \E k \in DOMAIN SetToSeq(S) : SetToSeq(S)[k] = x
<1> DEFINE n == Cardinality(S)
<1>1. n \in Nat /\ ExistsBijection(1 .. n, S)
  BY FS_CardinalityType
<1>2. \E f \in [1 .. n -> S] : IsInjective(f)
  BY <1>1 DEF ExistsBijection, Bijection, Injection
<1>3. SetToSeq(S) \in [1 .. n -> S] /\ IsInjective(SetToSeq(S))
  BY <1>2 DEF SetToSeq
<1>4. IsFiniteSet(1 .. n) /\ Cardinality(1 .. n) = n
  BY <1>1, FS_Interval
<1>5. SetToSeq(S) \in Surjection(1 .. n, S)
  BY <1>3, <1>4, FS_Injection DEF Injection
<1> QED BY <1>1, <1>3, <1>5 DEF Surjection

-----------------------------------------------------------------------------
(* One queue: what is at its end outlives what is before it.               *)

\* The queue has an element of B.
Holds(q, B) == \E j \in DOMAIN q : q[j] \in B

\* Every element of A has one of B behind it.
Mended(q, A, B) == \A k \in DOMAIN q : q[k] \in A => \E j \in DOMAIN q : j > k /\ q[j] \in B

LEMMA PutOne ==
  ASSUME NEW M, NEW q \in Seq(M), NEW m \in M, NEW A, NEW B
  PROVE  /\ Holds(q, B) => Holds(Append(q, m), B)
         /\ m \in B => Holds(Append(q, m), B)
         /\ Mended(q, A, B) /\ m \notin A => Mended(Append(q, m), A, B)
         /\ m \in B \ A => Mended(Append(q, m), A, B)
<1> DEFINE r == Append(q, m)
<1>1. /\ Len(q) \in Nat /\ DOMAIN q = 1 .. Len(q) /\ DOMAIN r = 1 .. Len(q) + 1
      /\ r[Len(q) + 1] = m /\ \A k \in 1 .. Len(q) : r[k] = q[k]
  BY AppendProperties, LenProperties
<1>2. Len(q) + 1 \in DOMAIN r /\ \A k \in DOMAIN q : k \in DOMAIN r /\ r[k] = q[k] /\ Len(q) + 1 > k
  BY <1>1
<1>3. \A k \in DOMAIN r : k \in DOMAIN q \/ (k = Len(q) + 1 /\ r[k] = m)
  BY <1>1
<1> HIDE DEF r
<1>4. (Holds(q, B) => Holds(r, B)) /\ (m \in B => Holds(r, B))
  BY <1>1, <1>2 DEF Holds
<1>5. ASSUME Mended(q, A, B), m \notin A PROVE Mended(r, A, B)
  <2> SUFFICES ASSUME NEW k \in DOMAIN r, r[k] \in A PROVE \E j \in DOMAIN r : j > k /\ r[j] \in B
    BY DEF Mended
  <2>1. k \in DOMAIN q /\ q[k] \in A
    BY <1>2, <1>3, <1>5
  <2>2. PICK j \in DOMAIN q : j > k /\ q[j] \in B
    BY <1>5, <2>1 DEF Mended
  <2> QED BY <1>2, <2>2
<1>6. ASSUME m \in B \ A PROVE Mended(r, A, B)
  <2> SUFFICES ASSUME NEW k \in DOMAIN r, r[k] \in A PROVE \E j \in DOMAIN r : j > k /\ r[j] \in B
    BY DEF Mended
  <2>1. k \in DOMAIN q
    BY <1>3, <1>6
  <2> QED BY <1>1, <1>2, <1>6, <2>1
<1> QED BY <1>4, <1>5, <1>6 DEF r

LEMMA TakeOne ==
  ASSUME NEW M, NEW q \in Seq(M), q # <<>>, NEW A, NEW B
  PROVE  /\ Mended(q, A, B) => Mended(Tail(q), A, B)
         /\ Mended(q, A, B) /\ Head(q) \in A => Holds(Tail(q), B)
         /\ Holds(q, B) /\ Head(q) \notin B => Holds(Tail(q), B)
<1>1. /\ Len(q) \in Nat \ {0} /\ DOMAIN q = 1 .. Len(q) /\ DOMAIN Tail(q) = 1 .. (Len(q) - 1)
      /\ \A k \in 1 .. (Len(q) - 1) : Tail(q)[k] = q[k + 1]
      /\ Head(q) = q[1]
  BY HeadTailProperties, LenProperties, EmptySeq
<1>2. ASSUME NEW j \in DOMAIN q, j > 1 PROVE j - 1 \in DOMAIN Tail(q) /\ Tail(q)[j - 1] = q[j]
  BY <1>1, <1>2
<1>3. ASSUME NEW k \in DOMAIN Tail(q) PROVE k + 1 \in DOMAIN q /\ Tail(q)[k] = q[k + 1] /\ k \in Nat
  BY <1>1
<1>4. ASSUME Mended(q, A, B) PROVE Mended(Tail(q), A, B)
  <2> SUFFICES ASSUME NEW k \in DOMAIN Tail(q), Tail(q)[k] \in A
               PROVE  \E j \in DOMAIN Tail(q) : j > k /\ Tail(q)[j] \in B
    BY DEF Mended
  <2>1. PICK j \in DOMAIN q : j > k + 1 /\ q[j] \in B
    BY <1>3, <1>4 DEF Mended
  <2>2. j > 1 /\ j - 1 > k
    BY <1>1, <1>3, <2>1
  <2> QED BY <1>2, <2>1, <2>2
<1>5. ASSUME Mended(q, A, B), Head(q) \in A PROVE Holds(Tail(q), B)
  <2>1. PICK j \in DOMAIN q : j > 1 /\ q[j] \in B
    BY <1>1, <1>5 DEF Mended
  <2> QED BY <1>2, <2>1 DEF Holds
<1>6. ASSUME Holds(q, B), Head(q) \notin B PROVE Holds(Tail(q), B)
  <2>1. PICK j \in DOMAIN q : q[j] \in B
    BY <1>6 DEF Holds
  <2>2. j > 1
    BY <1>1, <1>6, <2>1
  <2> QED BY <1>2, <2>1, <2>2 DEF Holds
<1> QED BY <1>4, <1>5, <1>6

\* Several messages are put behind a queue.
LEMMA PutMany ==
  ASSUME NEW M, NEW q \in Seq(M), NEW more \in Seq(M), NEW A, NEW B
  PROVE  /\ Holds(q, B) => Holds(q \o more, B)
         /\ Holds(more, B) => Holds(q \o more, B)
         /\ Mended(q, A, B) /\ ~Holds(more, A) => Mended(q \o more, A, B)
<1> DEFINE r == q \o more
<1>1. /\ Len(q) \in Nat /\ Len(more) \in Nat /\ DOMAIN q = 1 .. Len(q) /\ DOMAIN more = 1 .. Len(more)
      /\ DOMAIN r = 1 .. Len(q) + Len(more)
      /\ \A k \in 1 .. Len(q) + Len(more) : r[k] = IF k <= Len(q) THEN q[k] ELSE more[k - Len(q)]
  BY ConcatProperties, LenProperties
<1>2. \A k \in DOMAIN q : k \in DOMAIN r /\ r[k] = q[k]
  BY <1>1
<1>3. \A k \in DOMAIN more : Len(q) + k \in DOMAIN r /\ r[Len(q) + k] = more[k]
  BY <1>1
<1>4. \A k \in DOMAIN r : k \in DOMAIN q \/ (k - Len(q) \in DOMAIN more /\ r[k] = more[k - Len(q)])
  BY <1>1
<1> HIDE DEF r
<1>5. ASSUME Mended(q, A, B), ~Holds(more, A) PROVE Mended(r, A, B)
  <2> SUFFICES ASSUME NEW k \in DOMAIN r, r[k] \in A PROVE \E j \in DOMAIN r : j > k /\ r[j] \in B
    BY DEF Mended
  <2>1. k \in DOMAIN q /\ q[k] \in A
    BY <1>2, <1>4, <1>5 DEF Holds
  <2>2. PICK j \in DOMAIN q : j > k /\ q[j] \in B
    BY <1>5, <2>1 DEF Mended
  <2> QED BY <1>2, <2>2
<1>6. (Holds(q, B) => Holds(r, B)) /\ (Holds(more, B) => Holds(r, B))
  BY <1>2, <1>3 DEF Holds
<1> QED BY <1>5, <1>6 DEF r

\* An element of B is on the queue once at most.
Single(q, B) == \A i, j \in DOMAIN q : q[i] \in B /\ q[j] \in B => i = j

LEMMA PutSingle ==
  ASSUME NEW M, NEW q \in Seq(M), NEW m \in M, NEW B
  PROVE  /\ Holds(Append(q, m), B) <=> Holds(q, B) \/ m \in B
         /\ Single(q, B) /\ (m \in B => ~Holds(q, B)) => Single(Append(q, m), B)
<1> DEFINE r == Append(q, m)
<1>1. /\ Len(q) \in Nat /\ DOMAIN q = 1 .. Len(q) /\ DOMAIN r = 1 .. Len(q) + 1
      /\ r[Len(q) + 1] = m /\ \A k \in 1 .. Len(q) : r[k] = q[k]
  BY AppendProperties, LenProperties
<1>2. Len(q) + 1 \in DOMAIN r /\ \A k \in DOMAIN q : k \in DOMAIN r /\ r[k] = q[k]
  BY <1>1
<1>3. \A k \in DOMAIN r : (k \in DOMAIN q /\ r[k] = q[k]) \/ (k = Len(q) + 1 /\ r[k] = m)
  BY <1>1
<1> HIDE DEF r
<1>4. Holds(r, B) <=> Holds(q, B) \/ m \in B
  BY <1>1, <1>2, <1>3 DEF Holds
<1>5. ASSUME Single(q, B), m \in B => ~Holds(q, B) PROVE Single(r, B)
  BY <1>3, <1>5 DEF Single, Holds
<1> QED BY <1>4, <1>5 DEF r

LEMMA TakeSingle ==
  ASSUME NEW M, NEW q \in Seq(M), q # <<>>, NEW B
  PROVE  /\ Holds(q, B) <=> Head(q) \in B \/ Holds(Tail(q), B)
         /\ Single(q, B) => Single(Tail(q), B)
         /\ Single(q, B) /\ Head(q) \in B => ~Holds(Tail(q), B)
<1>1. /\ Len(q) \in Nat \ {0} /\ DOMAIN q = 1 .. Len(q) /\ DOMAIN Tail(q) = 1 .. (Len(q) - 1)
      /\ \A k \in 1 .. (Len(q) - 1) : Tail(q)[k] = q[k + 1]
      /\ Head(q) = q[1]
  BY HeadTailProperties, LenProperties, EmptySeq
<1>2. ASSUME NEW j \in DOMAIN q PROVE j = 1 \/ (j - 1 \in DOMAIN Tail(q) /\ Tail(q)[j - 1] = q[j])
  BY <1>1
<1>3. ASSUME NEW k \in DOMAIN Tail(q)
      PROVE  k + 1 \in DOMAIN q /\ Tail(q)[k] = q[k + 1] /\ k + 1 # 1 /\ k \in Nat
  BY <1>1
<1>4. 1 \in DOMAIN q
  BY <1>1
<1>5. Holds(q, B) <=> Head(q) \in B \/ Holds(Tail(q), B)
  <2>1. ASSUME Holds(q, B) PROVE Head(q) \in B \/ Holds(Tail(q), B)
    BY <1>1, <1>2, <2>1 DEF Holds
  <2>2. ASSUME Head(q) \in B \/ Holds(Tail(q), B) PROVE Holds(q, B)
    BY <1>1, <1>3, <1>4, <2>2 DEF Holds
  <2> QED BY <2>1, <2>2
<1>6. ASSUME Single(q, B) PROVE Single(Tail(q), B)
  <2> SUFFICES ASSUME NEW i \in DOMAIN Tail(q), NEW j \in DOMAIN Tail(q),
                      Tail(q)[i] \in B, Tail(q)[j] \in B PROVE i = j
    BY DEF Single
  <2>1. i + 1 = j + 1
    BY <1>3, <1>6 DEF Single
  <2> QED BY <1>3, <2>1
<1>7. ASSUME Single(q, B), Head(q) \in B, Holds(Tail(q), B) PROVE FALSE
  BY <1>1, <1>3, <1>4, <1>7 DEF Single, Holds
<1> QED BY <1>5, <1>6, <1>7

-----------------------------------------------------------------------------
(* Lists in order *)

\* R, a set of pairs, orders the elements of S; a list is in that order.
Orders(R, S) ==
  /\ \A a \in S : <<a, a>> \notin R
  /\ \A a, b, c \in S : <<a, b>> \in R /\ <<b, c>> \in R => <<a, c>> \in R
  /\ \A a, b \in S : a # b => <<a, b>> \in R \/ <<b, a>> \in R
InOrder(list, R) == \A i, j \in DOMAIN list : i < j => <<list[i], list[j]>> \in R
Covers(list, S) == \A a \in S : \E k \in DOMAIN list : list[k] = a

\* The place of an element is one after those that come before it, and so there is a
\* list in order.
LEMMA OrderExists ==
  ASSUME NEW S, IsFiniteSet(S), NEW R, Orders(R, S)
  PROVE  \E list \in [1 .. Cardinality(S) -> S] : InOrder(list, R)
<1> DEFINE n == Cardinality(S)
           Ahead(a) == {x \in S : <<x, a>> \in R}
           rank == [a \in S |-> Cardinality(Ahead(a)) + 1]
<1>1. n \in Nat
  BY FS_CardinalityType
<1>2. ASSUME NEW a \in S
      PROVE  /\ IsFiniteSet(Ahead(a)) /\ Cardinality(Ahead(a)) \in Nat
             /\ Cardinality(Ahead(a)) <= n - 1
  <2>1. Ahead(a) \in SUBSET (S \ {a})
    BY DEF Orders
  <2>2. IsFiniteSet(S \ {a}) /\ Cardinality(S \ {a}) = n - 1
    BY FS_RemoveElement
  <2> HIDE DEF Ahead, n
  <2>3. IsFiniteSet(Ahead(a)) /\ Cardinality(Ahead(a)) <= n - 1
    BY <2>1, <2>2, FS_Subset
  <2> QED BY <2>3, FS_CardinalityType
<1>3. rank \in [S -> 1 .. n]
  <2> HIDE DEF Ahead, n
  <2>1. ASSUME NEW a \in S PROVE Cardinality(Ahead(a)) + 1 \in 1 .. n
    BY <1>1, <1>2
  <2> QED BY <2>1
<1>4. ASSUME NEW a \in S, NEW b \in S, <<a, b>> \in R PROVE rank[a] < rank[b]
  <2>1. a \notin Ahead(a) /\ Ahead(a) \cup {a} \in SUBSET Ahead(b)
    BY <1>4 DEF Orders
  <2> HIDE DEF Ahead
  <2>2. Cardinality(Ahead(a) \cup {a}) = Cardinality(Ahead(a)) + 1
    BY <1>2, <2>1, FS_AddElement
  <2>3. Cardinality(Ahead(a) \cup {a}) <= Cardinality(Ahead(b))
    BY <1>2, <2>1, FS_Subset
  <2>4. Cardinality(Ahead(a)) \in Nat /\ Cardinality(Ahead(b)) \in Nat
    BY <1>2
  <2> QED BY <2>2, <2>3, <2>4
<1> HIDE DEF rank, n, Ahead
<1>5. \A a, b \in S : rank[a] = rank[b] => a = b
  <2> SUFFICES ASSUME NEW a \in S, NEW b \in S, rank[a] = rank[b], a # b PROVE FALSE
    OBVIOUS
  <2>1. rank[a] \in 1 .. n /\ rank[b] \in 1 .. n
    BY <1>3
  <2>2. <<a, b>> \in R \/ <<b, a>> \in R
    BY DEF Orders
  <2> QED BY <1>1, <1>4, <2>1, <2>2
<1>6. \A k \in 1 .. n : \E a \in S : rank[a] = k
  <2>1. rank \in Injection(S, 1 .. n)
    BY <1>3, <1>5, Fun_IsInj
  <2>2. IsFiniteSet(1 .. n) /\ Cardinality(1 .. n) = n
    BY <1>1, FS_Interval
  <2>3. rank \in Surjection(S, 1 .. n)
    BY <2>1, <2>2, FS_Injection DEF n
  <2> QED BY <2>3, Fun_SurjectionProperties
<1> DEFINE list == [k \in 1 .. n |-> CHOOSE a \in S : rank[a] = k]
<1>7. \A k \in 1 .. n : list[k] \in S /\ rank[list[k]] = k
  BY <1>6
<1>8. list \in [1 .. n -> S] /\ DOMAIN list = 1 .. n
  BY <1>7
<1> HIDE DEF list
<1>9. ASSUME NEW i \in 1 .. n, NEW j \in 1 .. n, i < j PROVE <<list[i], list[j]>> \in R
  <2>1. list[i] \in S /\ list[j] \in S /\ rank[list[i]] = i /\ rank[list[j]] = j
    BY <1>7
  <2>2. <<list[j], list[i]>> \notin R
    <3> SUFFICES ASSUME <<list[j], list[i]>> \in R PROVE FALSE
      OBVIOUS
    <3>1. j < i
      BY <1>4, <2>1
    <3> QED BY <1>9, <3>1
  <2>3. list[i] # list[j]
    BY <1>9, <2>1
  <2> QED BY <2>1, <2>2, <2>3 DEF Orders
<1>10. InOrder(list, R)
  BY <1>8, <1>9 DEF InOrder
<1> QED BY <1>8, <1>10 DEF n

\* A list in order has no element twice.
LEMMA OrderedOnce ==
  ASSUME NEW S, NEW R, Orders(R, S), NEW n \in Nat, NEW list \in [1 .. n -> S], InOrder(list, R)
  PROVE  \A i, j \in 1 .. n : list[i] = list[j] => i = j
<1> SUFFICES ASSUME NEW i \in 1 .. n, NEW j \in 1 .. n, list[i] = list[j], i < j PROVE FALSE
  OBVIOUS
<1>1. list[i] \in S /\ <<list[i], list[i]>> \in R
  BY DEF InOrder
<1> QED BY <1>1 DEF Orders

\* As long as the set is, it has every element.
LEMMA OrderedAll ==
  ASSUME NEW S, IsFiniteSet(S), NEW R, Orders(R, S), NEW n \in Nat, n = Cardinality(S),
         NEW list \in [1 .. n -> S], InOrder(list, R)
  PROVE  Covers(list, S)
<1>1. IsFiniteSet(1 .. n) /\ Cardinality(1 .. n) = n
  BY FS_Interval
<1>2. DOMAIN list = 1 .. n /\ list \in [1 .. n -> S]
  OBVIOUS
<1>3. \A i, j \in 1 .. n : list[i] = list[j] => i = j
  BY <1>1, <1>2, OrderedOnce
<1>4. list \in Injection(1 .. n, S)
  BY <1>2, <1>3, Fun_IsInj
<1>5. list \in Surjection(1 .. n, S)
  BY <1>1, <1>4, FS_Injection
<1> QED BY <1>2, <1>5 DEF Surjection, Covers

\* Two lists in order that have every element are the same.
LEMMA OrderedOnly ==
  ASSUME NEW S, NEW R, Orders(R, S), NEW n \in Nat,
         NEW x \in [1 .. n -> S], InOrder(x, R), Covers(x, S),
         NEW y \in [1 .. n -> S], InOrder(y, R), Covers(y, S)
  PROVE  x = y
<1>1. ASSUME NEW f \in [1 .. n -> S], NEW g \in [1 .. n -> S], InOrder(f, R), InOrder(g, R),
             Covers(g, S), NEW k \in 1 .. n, \A m \in 1 .. n : m < k => f[m] = g[m]
      PROVE  ~(<<f[k], g[k]>> \in R)
  <2> SUFFICES ASSUME <<f[k], g[k]>> \in R PROVE FALSE
    OBVIOUS
  <2>1. DOMAIN f = 1 .. n /\ DOMAIN g = 1 .. n /\ f[k] \in S /\ g[k] \in S
    BY <1>1
  <2>2. PICK m \in 1 .. n : g[m] = f[k]
    BY <1>1, <2>1 DEF Covers
  <2>3. CASE m < k
    <3>1. f[m] = f[k] /\ <<f[m], f[k]>> \in R
      BY <1>1, <2>1, <2>2, <2>3 DEF InOrder
    <3> QED BY <2>1, <3>1 DEF Orders
  <2>4. CASE m = k
    BY <2>1, <2>2, <2>4 DEF Orders
  <2>5. CASE m > k
    <3>1. <<g[k], g[m]>> \in R
      BY <1>1, <2>1, <2>5 DEF InOrder
    <3>2. <<f[k], f[k]>> \in R
      BY <2>1, <2>2, <3>1 DEF Orders
    <3> QED BY <2>1, <3>2 DEF Orders
  <2> QED BY <2>3, <2>4, <2>5
<1> DEFINE T == {k \in 1 .. n : x[k] # y[k]}
<1>2. CASE T = {}
  <2>1. \A k \in 1 .. n : x[k] = y[k]
    BY <1>2
  <2> HIDE DEF T
  <2> QED BY <2>1
<1>3. CASE T # {}
  <2>1. T \in SUBSET Nat
    OBVIOUS
  <2>2. PICK k \in T : \A m \in T : k <= m
    BY <1>3, <2>1, LeastNumber
  <2>3. \A m \in 1 .. n : m < k => x[m] = y[m]
    BY <2>2
  <2>4. k \in 1 .. n /\ x[k] # y[k] /\ x[k] \in S /\ y[k] \in S
    BY <2>2
  <2>5. ~(<<x[k], y[k]>> \in R)
    BY <1>1, <2>3, <2>4
  <2>6. ~(<<y[k], x[k]>> \in R)
    BY <1>1, <2>3, <2>4
  <2> QED BY <2>4, <2>5, <2>6 DEF Orders
<1> QED BY <1>2, <1>3

\* A list has the elements of a set, in order.
Enlists(list, S, R) == list \in Seq(S) /\ InOrder(list, R) /\ Covers(list, S)

LEMMA ListsNone == ASSUME NEW R PROVE Enlists(<<>>, {}, R)
BY DEF Enlists, InOrder, Covers

\* There is one such list, as long as the set.
LEMMA ListsOnly ==
  ASSUME NEW S, IsFiniteSet(S), NEW R, Orders(R, S), NEW list, Enlists(list, S, R)
  PROVE  /\ list \in [1 .. Cardinality(S) -> S]
         /\ \A l \in [1 .. Cardinality(S) -> S] : InOrder(l, R) => l = list
<1> DEFINE c == Cardinality(S)
           n == Len(list)
<1>1. n \in Nat /\ list \in [1 .. n -> S] /\ c \in Nat
  BY LenProperties, FS_CardinalityType DEF Enlists
<1> HIDE DEF n, c
<1>2. n = c
  <2>1. \A i, j \in 1 .. n : list[i] = list[j] => i = j
    BY <1>1, OrderedOnce DEF Enlists
  <2>2. list \in Injection(1 .. n, S)
    BY <1>1, <2>1, Fun_IsInj
  <2>3. list \in Surjection(1 .. n, S)
    BY <1>1, Fun_IsSurj DEF Covers, Enlists
  <2>4. ExistsBijection(1 .. n, S)
    BY <2>2, <2>3 DEF ExistsBijection, Bijection
  <2>5. IsFiniteSet(1 .. n) /\ Cardinality(1 .. n) = n
    BY <1>1, FS_Interval
  <2> QED BY <2>4, <2>5, FS_Bijection DEF c
<1>3. ASSUME NEW l \in [1 .. c -> S], InOrder(l, R) PROVE l = list
  <2>1. Covers(l, S)
    BY <1>1, <1>3, OrderedAll DEF c
  <2> QED BY <1>1, <1>2, <1>3, <2>1, OrderedOnly DEF Enlists
<1>4. list \in [1 .. c -> S]
  BY <1>1, <1>2
<1> QED BY <1>3, <1>4 DEF c

\* As many as the set has, in order: there is such a list, and it lists the set.
LEMMA ListsAll ==
  ASSUME NEW S, IsFiniteSet(S), NEW R, Orders(R, S),
         NEW list \in [1 .. Cardinality(S) -> S], InOrder(list, R)
  PROVE  Enlists(list, S, R)
<1> DEFINE n == Cardinality(S)
<1>1. n \in Nat /\ list \in [1 .. n -> S]
  BY FS_CardinalityType
<1>2. Covers(list, S)
  BY <1>1, OrderedAll
<1>3. list \in Seq(S)
  <2> HIDE DEF n
  <2> QED BY <1>1, SeqDef
<1> QED BY <1>2, <1>3 DEF Enlists

\* What SequencesExt takes out of a list, and puts into one.
LEMMA FirstTaken ==
  ASSUME NEW S, NEW list \in Seq(S), NEW a
  PROVE  \/ RemoveFirst(list, a) = list /\ \A i \in DOMAIN list : list[i] # a
         \/ \E k \in 1 .. Len(list) :
              /\ list[k] = a /\ \A i \in 1 .. k - 1 : list[i] # a
              /\ RemoveFirst(list, a) =
                   [i \in 1 .. Len(list) - 1 |-> IF i < k THEN list[i] ELSE list[i + 1]]
<1>1. Len(list) \in Nat /\ DOMAIN list = 1 .. Len(list)
  OBVIOUS
<1> DEFINE I == {i \in 1 .. Len(list) : list[i] = a}
           k == SelectInSeq(list, LAMBDA v : v = a)
<1>2. CASE I = {}
  <2>1. \A i \in 1 .. Len(list) : list[i] # a
    BY <1>2
  <2> HIDE DEF I
  <2> QED BY <1>1, <2>1 DEF RemoveFirst
<1>3. CASE I # {}
  <2>1. PICK m \in I : \A i \in I : m <= i
    <3>1. I \in SUBSET Nat
      BY <1>1
    <3> HIDE DEF I
    <3> QED BY <1>3, <3>1, LeastNumber
  <2>2. k = Min(I)
    BY <1>3 DEF SelectInSeq
  <2>3. k \in 1 .. Len(list) /\ k \in I /\ \A i \in I : k <= i
    BY <2>1, <2>2 DEF Min
  <2>4. RemoveFirst(list, a) = SubSeq(list, 1, k - 1) \o SubSeq(list, k + 1, Len(list))
    BY <1>3 DEF RemoveFirst, RemoveAt
  <2> HIDE DEF k
  <2>5. RemoveFirst(list, a) = [i \in 1 .. Len(list) - 1 |-> IF i < k THEN list[i] ELSE list[i + 1]]
    <3>1. SubSeq(list, 1, k - 1) = [i \in 1 .. k - 1 |-> list[i]]
      BY <1>1, <2>3
    <3>2. SubSeq(list, k + 1, Len(list)) = [i \in 1 .. Len(list) - k |-> list[i + k]]
      BY <1>1, <2>3
    <3>3. [i \in 1 .. k - 1 |-> list[i]] \o [i \in 1 .. Len(list) - k |-> list[i + k]]
          = [i \in 1 .. Len(list) - 1 |-> IF i < k THEN list[i] ELSE list[i + 1]]
      BY <1>1, <2>3
    <3> QED BY <2>4, <3>1, <3>2, <3>3
  <2>6. list[k] = a /\ \A i \in 1 .. k - 1 : list[i] # a
    BY <1>1, <2>3
  <2> QED BY <2>3, <2>5, <2>6
<1> QED BY <1>2, <1>3

LEMMA PutAt ==
  ASSUME NEW M, NEW p \in Seq(M), NEW m \in M, NEW n \in 1 .. (Len(p) + 1)
  PROVE  /\ InsertAt(p, n, m) =
              [k \in 1 .. (Len(p) + 1) |-> IF k < n THEN p[k] ELSE IF k = n THEN m ELSE p[k - 1]]
         /\ InsertAt(p, n, m) \in Seq(M)
<1> DEFINE r == InsertAt(p, n, m)
<1>1. /\ Len(p) \in Nat /\ DOMAIN p = 1 .. Len(p) /\ n \in Nat /\ 1 <= n /\ n <= Len(p) + 1
      /\ \A k \in DOMAIN p : p[k] \in M
  BY LenProperties, ElementOfSeq
<1>2. r = [k \in 1 .. (Len(p) + 1) |-> IF k < n THEN p[k] ELSE IF k = n THEN m ELSE p[k - 1]]
  <2> DEFINE x == SubSeq(p, 1, n - 1)
             y == SubSeq(p, n, Len(p))
  <2>1. /\ x \in Seq(M) /\ Len(x) = n - 1 /\ \A k \in 1 .. (n - 1) : x[k] = p[k]
        /\ y \in Seq(M) /\ Len(y) = Len(p) - n + 1 /\ \A k \in 1 .. (Len(p) - n + 1) : y[k] = p[n + k - 1]
    BY <1>1
  <2>2. r = (x \o <<m>>) \o y
    BY DEF InsertAt
  <2> HIDE DEF x, y, r
  <2>3. x \o <<m>> \in Seq(M) /\ Len(x \o <<m>>) = n
        /\ \A k \in 1 .. n : (x \o <<m>>)[k] = IF k < n THEN p[k] ELSE m
    BY <1>1, <2>1
  <2>4. r \in Seq(M) /\ Len(r) = Len(p) + 1
        /\ \A k \in 1 .. (Len(p) + 1) : r[k] = IF k <= n THEN (x \o <<m>>)[k] ELSE y[k - n]
    <3> DEFINE z == x \o <<m>>
    <3> HIDE DEF z
    <3>1. z \in Seq(M) /\ Len(z) = n /\ r = z \o y
      BY <2>2, <2>3 DEF z
    <3>2. /\ z \o y \in Seq(M) /\ Len(z \o y) = Len(z) + Len(y)
          /\ \A k \in 1 .. Len(z) + Len(y) : (z \o y)[k] = IF k <= Len(z) THEN z[k] ELSE y[k - Len(z)]
      BY <2>1, <3>1, ConcatProperties
    <3>3. Len(z) + Len(y) = Len(p) + 1
      BY <1>1, <2>1, <3>1
    <3> QED BY <3>1, <3>2, <3>3 DEF z
  <2>5. ASSUME NEW k \in 1 .. (Len(p) + 1)
        PROVE  r[k] = IF k < n THEN p[k] ELSE IF k = n THEN m ELSE p[k - 1]
    <3>1. CASE k <= n
      <4>1. k \in 1 .. n /\ k \in Nat /\ n \in Nat
        BY <1>1, <3>1
      <4>2. r[k] = (x \o <<m>>)[k]
        BY <2>4, <3>1
      <4>3. (x \o <<m>>)[k] = IF k < n THEN p[k] ELSE m
        BY <2>3, <4>1
      <4>4. ~(k < n) => k = n
        BY <3>1, <4>1
      <4> QED BY <4>1, <4>2, <4>3, <4>4
    <3>2. CASE k > n
      <4>1. k - n \in 1 .. (Len(p) - n + 1) /\ n + (k - n) - 1 = k - 1
        BY <1>1, <3>2
      <4> QED BY <1>1, <2>1, <2>4, <3>2, <4>1
    <3> QED BY <1>1, <3>1, <3>2
  <2> QED BY <1>1, <2>4, <2>5, LenProperties
<1>3. r \in Seq(M)
  BY <1>1, <1>2
<1> QED BY <1>2, <1>3

\* What a list has keeps its order when one is taken out.
LEMMA ListsTaken ==
  ASSUME NEW S, NEW R, Orders(R, S), NEW list, Enlists(list, S, R), NEW a
  PROVE  Enlists(RemoveFirst(list, a), S \ {a}, R)
<1> DEFINE n == Len(list)
           r == RemoveFirst(list, a)
<1>1. n \in Nat /\ list \in [1 .. n -> S] /\ DOMAIN list = 1 .. n /\ list \in Seq(S)
  BY LenProperties DEF Enlists
<1>2. \A i, j \in 1 .. n : list[i] = list[j] => i = j
  BY <1>1, OrderedOnce DEF Enlists
<1>3. CASE r = list /\ \A i \in DOMAIN list : list[i] # a
  <2>1. list \in [1 .. n -> S \ {a}]
    BY <1>1, <1>3
  <2>2. list \in Seq(S \ {a})
    <3> HIDE DEF n
    <3> QED BY <1>1, <2>1, SeqDef
  <2> QED BY <1>3, <2>2 DEF Enlists, Covers
<1>4. CASE \E k \in 1 .. n : list[k] = a /\ r = [i \in 1 .. n - 1 |-> IF i < k THEN list[i] ELSE list[i + 1]]
  <2>1. PICK k \in 1 .. n : list[k] = a /\ r = [i \in 1 .. n - 1 |-> IF i < k THEN list[i] ELSE list[i + 1]]
    BY <1>4
  <2> HIDE DEF n, r
  <2>2. DOMAIN r = 1 .. n - 1 /\ n - 1 \in Nat
    BY <1>1, <2>1
  <2>3. ASSUME NEW i \in 1 .. n - 1
        PROVE  /\ i < k => i \in 1 .. n /\ r[i] = list[i]
               /\ ~(i < k) => i + 1 \in 1 .. n /\ r[i] = list[i + 1]
    BY <1>1, <2>1
  <2>4. ASSUME NEW i \in 1 .. n - 1 PROVE r[i] \in S \ {a}
    BY <1>1, <1>2, <2>1, <2>3
  <2>5. r \in Seq(S \ {a})
    <3>1. r \in [1 .. n - 1 -> S \ {a}]
      BY <2>1, <2>2, <2>4
    <3> QED BY <2>2, <3>1, SeqDef
  <2>6. InOrder(r, R)
    <3> SUFFICES ASSUME NEW i \in 1 .. n - 1, NEW j \in 1 .. n - 1, i < j PROVE <<r[i], r[j]>> \in R
      BY <2>2 DEF InOrder
    <3>1. \A x, y \in 1 .. n : x < y => <<list[x], list[y]>> \in R
      BY <1>1 DEF Enlists, InOrder
    <3>2. CASE j < k
      <4>1. i < k
        BY <1>1, <3>2
      <4> QED BY <2>3, <3>1, <3>2, <4>1
    <3>3. CASE i < k /\ ~(j < k)
      <4>1. i < j + 1
        BY <1>1
      <4> QED BY <2>3, <3>1, <3>3, <4>1
    <3>4. CASE ~(i < k) /\ ~(j < k)
      <4>1. i + 1 < j + 1
        BY <1>1
      <4> QED BY <2>3, <3>1, <3>4, <4>1
    <3>5. ~(i < k) => ~(j < k)
      BY <1>1
    <3> QED BY <3>2, <3>3, <3>4, <3>5
  <2>7. Covers(r, S \ {a})
    <3> SUFFICES ASSUME NEW x \in S, x # a PROVE \E i \in 1 .. n - 1 : r[i] = x
      BY <2>2 DEF Covers
    <3>1. PICK m \in 1 .. n : list[m] = x
      BY <1>1 DEF Enlists, Covers
    <3>2. m # k
      BY <2>1, <3>1
    <3>3. CASE m < k
      BY <1>1, <2>1, <3>1, <3>3
    <3>4. CASE m > k
      <4>1. m - 1 \in 1 .. n - 1 /\ ~(m - 1 < k) /\ (m - 1) + 1 = m
        BY <1>1, <3>4
      <4>2. r[m - 1] = list[m]
        BY <2>3, <4>1
      <4> QED BY <3>1, <4>1, <4>2
    <3> QED BY <1>1, <3>2, <3>3, <3>4
  <2> QED BY <2>5, <2>6, <2>7 DEF Enlists, r
<1> QED BY <1>1, <1>3, <1>4, FirstTaken

\* One more is put behind those that come before it and in front of the others.
LEMMA ListsPut ==
  ASSUME NEW T, NEW S \in SUBSET T, NEW R, Orders(R, T), NEW list, Enlists(list, S, R), NEW a \in T \ S,
         NEW k \in 1 .. Len(list) + 1,
         \A j \in DOMAIN list : IF j < k THEN <<list[j], a>> \in R ELSE <<a, list[j]>> \in R
  PROVE  Enlists(InsertAt(list, k, a), S \cup {a}, R)
<1> DEFINE n == Len(list)
           r == InsertAt(list, k, a)
           U == S \cup {a}
<1>1. n \in Nat /\ list \in [1 .. n -> S] /\ DOMAIN list = 1 .. n /\ list \in Seq(U) /\ a \in U
  <2>1. n \in Nat /\ list \in [1 .. n -> S] /\ DOMAIN list = 1 .. n
    BY LenProperties DEF Enlists
  <2>2. list \in [1 .. n -> U]
    BY <2>1
  <2> HIDE DEF n, U
  <2>3. list \in Seq(U)
    BY <2>1, <2>2, SeqDef
  <2>4. a \in U
    BY DEF U
  <2> QED BY <2>1, <2>3, <2>4
<1>2. /\ r = [i \in 1 .. n + 1 |-> IF i < k THEN list[i] ELSE IF i = k THEN a ELSE list[i - 1]]
      /\ r \in Seq(U)
  <2> HIDE DEF U
  <2> QED BY <1>1, PutAt
<1> HIDE DEF n, r
<1>3. DOMAIN r = 1 .. n + 1 /\ k \in 1 .. n + 1
  BY <1>2 DEF n
<1>4. ASSUME NEW i \in 1 .. n + 1
      PROVE  /\ i < k => i \in 1 .. n /\ r[i] = list[i] /\ <<r[i], a>> \in R
             /\ i = k => r[i] = a
             /\ i > k => i - 1 \in 1 .. n /\ r[i] = list[i - 1] /\ <<a, r[i]>> \in R
  <2>1. CASE i < k
    <3>1. i \in 1 .. n
      BY <1>1, <1>3, <2>1
    <3>2. r[i] = list[i]
      BY <1>2, <2>1
    <3> QED BY <1>1, <1>3, <2>1, <3>1, <3>2
  <2>2. CASE i = k
    BY <1>1, <1>2, <1>3, <2>2
  <2>3. CASE i > k
    <3>1. i - 1 \in 1 .. n /\ ~(i - 1 < k)
      BY <1>1, <1>3, <2>3
    <3>2. r[i] = list[i - 1]
      BY <1>1, <1>2, <1>3, <2>3
    <3> QED BY <1>1, <1>3, <2>3, <3>1, <3>2
  <2> QED BY <1>1, <1>3, <2>1, <2>2, <2>3
<1>5. InOrder(r, R)
  <2> SUFFICES ASSUME NEW i \in 1 .. n + 1, NEW j \in 1 .. n + 1, i < j PROVE <<r[i], r[j]>> \in R
    BY <1>3 DEF InOrder
  <2>1. \A x, y \in 1 .. n : x < y => <<list[x], list[y]>> \in R
    BY <1>1 DEF Enlists, InOrder
  <2>2. CASE j < k
    <3>1. i < k
      BY <1>1, <1>3, <2>2
    <3> QED BY <1>4, <2>1, <2>2, <3>1
  <2>3. CASE j = k
    BY <1>4, <2>3
  <2>4. CASE i = k /\ j > k
    BY <1>4, <2>4
  <2>5. CASE i < k /\ j > k
    <3>1. r[i] \in S /\ r[j] \in S /\ <<r[i], a>> \in R /\ <<a, r[j]>> \in R
      BY <1>1, <1>4, <2>5
    <3>2. r[i] \in T /\ r[j] \in T /\ a \in T
      BY <3>1
    <3> QED BY <3>1, <3>2 DEF Orders
  <2>6. CASE i > k
    <3>1. j > k /\ i - 1 < j - 1
      BY <1>1, <1>3, <2>6
    <3> QED BY <1>4, <2>1, <2>6, <3>1
  <2> QED BY <1>1, <1>3, <2>2, <2>3, <2>4, <2>5, <2>6
<1>6. Covers(r, U)
  <2> SUFFICES ASSUME NEW x \in U PROVE \E i \in 1 .. n + 1 : r[i] = x
    BY <1>3 DEF Covers
  <2>1. CASE x = a
    BY <1>3, <1>4, <2>1
  <2>2. CASE x # a
    <3>1. PICK m \in 1 .. n : list[m] = x
      BY <1>1, <2>2 DEF Enlists, Covers
    <3>2. CASE m < k
      <4>1. m \in 1 .. n + 1
        BY <1>1
      <4> QED BY <1>4, <3>1, <3>2, <4>1
    <3>3. CASE ~(m < k)
      <4>1. m + 1 \in 1 .. n + 1 /\ m + 1 > k /\ (m + 1) - 1 = m
        BY <1>1, <1>3, <3>3
      <4>2. r[m + 1] = list[m]
        BY <1>4, <4>1
      <4> QED BY <3>1, <4>1, <4>2
    <3> QED BY <3>2, <3>3
  <2> QED BY <2>1, <2>2
<1> QED BY <1>2, <1>5, <1>6 DEF Enlists, r

-----------------------------------------------------------------------------
(* Lists without repetition, and the order a list gives what it has *)

\* The pairs of which the first comes before the second.
OrderOf(list) ==
  {p \in ToSet(list) \X ToSet(list) :
     \E k, l \in DOMAIN list : k < l /\ list[k] = p[1] /\ list[l] = p[2]}

LEMMA ListOrders ==
  ASSUME NEW M, NEW list \in Seq(M), IsInjective(list)
  PROVE  /\ IsFiniteSet(ToSet(list)) /\ Orders(OrderOf(list), ToSet(list))
         /\ Enlists(list, ToSet(list), OrderOf(list))
<1> DEFINE n == Len(list)
           S == ToSet(list)
<1>1. n \in Nat /\ DOMAIN list = 1 .. n /\ list \in [1 .. n -> M]
  BY LenProperties
<1>2. (\A k \in 1 .. n : list[k] \in S) /\ \A a \in S : \E k \in 1 .. n : list[k] = a
  BY <1>1 DEF ToSet
<1>3. \A k, l \in 1 .. n : list[k] = list[l] => k = l
  BY <1>1 DEF IsInjective
<1>4. \A a, b \in S : <<a, b>> \in OrderOf(list) <=> \E k, l \in 1 .. n : k < l /\ list[k] = a /\ list[l] = b
  BY <1>1 DEF OrderOf
<1> HIDE DEF n, S
<1>5. list \in [1 .. n -> S]
  BY <1>1, <1>2
<1>6. IsFiniteSet(S)
  <2>1. list \in Surjection(1 .. n, S)
    BY <1>2, <1>5, Fun_IsSurj
  <2>2. IsFiniteSet(1 .. n)
    BY <1>1, FS_Interval
  <2> QED BY <2>1, <2>2, FS_Surjection
<1>7. Orders(OrderOf(list), S)
  <2>1. ASSUME NEW a \in S PROVE <<a, a>> \notin OrderOf(list)
    BY <1>1, <1>3, <1>4
  <2>2. ASSUME NEW a \in S, NEW b \in S, NEW c \in S,
               <<a, b>> \in OrderOf(list), <<b, c>> \in OrderOf(list)
        PROVE  <<a, c>> \in OrderOf(list)
    <3>1. PICK i \in 1 .. n, j \in 1 .. n : i < j /\ list[i] = a /\ list[j] = b
      BY <1>4, <2>2
    <3>2. PICK k \in 1 .. n, l \in 1 .. n : k < l /\ list[k] = b /\ list[l] = c
      BY <1>4, <2>2
    <3>3. j = k /\ i < l
      BY <1>1, <1>3, <3>1, <3>2
    <3> QED BY <1>4, <3>1, <3>2, <3>3
  <2>3. ASSUME NEW a \in S, NEW b \in S, a # b
        PROVE  <<a, b>> \in OrderOf(list) \/ <<b, a>> \in OrderOf(list)
    <3>1. PICK i \in 1 .. n, j \in 1 .. n : list[i] = a /\ list[j] = b
      BY <1>2
    <3>2. i < j \/ j < i
      BY <1>1, <2>3, <3>1
    <3> QED BY <1>4, <3>1, <3>2
  <2> QED BY <2>1, <2>2, <2>3 DEF Orders
<1>8. Enlists(list, S, OrderOf(list))
  <2>1. list \in Seq(S)
    BY <1>1, <1>5, SeqDef
  <2>2. InOrder(list, OrderOf(list))
    BY <1>1, <1>2, <1>4 DEF InOrder
  <2>3. Covers(list, S)
    BY <1>1, <1>2 DEF Covers
  <2> QED BY <2>1, <2>2, <2>3 DEF Enlists
<1> QED BY <1>6, <1>7, <1>8 DEF S

\* A list in order gives what it has that order.
LEMMA SameOrder ==
  ASSUME NEW S, NEW R, Orders(R, S), NEW list, Enlists(list, S, R)
  PROVE  /\ IsInjective(list) /\ ToSet(list) = S
         /\ \A a, b \in S : <<a, b>> \in R <=> <<a, b>> \in OrderOf(list)
<1> DEFINE n == Len(list)
<1>1. n \in Nat /\ DOMAIN list = 1 .. n /\ list \in [1 .. n -> S]
  BY LenProperties DEF Enlists
<1>2. ToSet(list) = S
  <2>1. \A a \in S : \E k \in 1 .. n : list[k] = a
    BY <1>1 DEF Enlists, Covers
  <2> HIDE DEF n
  <2> QED BY <1>1, <2>1 DEF ToSet
<1>3. \A k, l \in 1 .. n : list[k] = list[l] => k = l
  BY <1>1, OrderedOnce DEF Enlists
<1>4. ASSUME NEW a \in S, NEW b \in S, <<a, b>> \in R PROVE <<a, b>> \in OrderOf(list)
  <2>1. PICK k \in 1 .. n, l \in 1 .. n : list[k] = a /\ list[l] = b
    BY <1>1 DEF Enlists, Covers
  <2>2. <<b, a>> \notin R /\ a # b
    BY <1>4 DEF Orders
  <2>3. k < l
    <3>1. ~(l < k)
      BY <1>1, <2>1, <2>2 DEF Enlists, InOrder
    <3> QED BY <1>1, <2>1, <2>2, <3>1
  <2> QED BY <1>1, <1>2, <2>1, <2>3 DEF OrderOf
<1>5. ASSUME NEW a \in S, NEW b \in S, <<a, b>> \in OrderOf(list) PROVE <<a, b>> \in R
  <2>1. PICK k \in DOMAIN list, l \in DOMAIN list : k < l /\ list[k] = a /\ list[l] = b
    BY <1>5 DEF OrderOf
  <2> QED BY <2>1 DEF Enlists, InOrder
<1>6. IsInjective(list)
  BY <1>1, <1>3 DEF IsInjective
<1> QED BY <1>2, <1>4, <1>5, <1>6

\* One that a list does not have is put behind it, or in front.
LEMMA PutLast ==
  ASSUME NEW M, NEW list \in Seq(M), IsInjective(list), NEW a \in M, a \notin ToSet(list)
  PROVE  /\ Append(list, a) \in Seq(M) /\ IsInjective(Append(list, a))
         /\ ToSet(Append(list, a)) = ToSet(list) \cup {a}
<1> DEFINE n == Len(list)
           r == Append(list, a)
<1>1. /\ n \in Nat /\ DOMAIN list = 1 .. n /\ DOMAIN r = 1 .. n + 1 /\ r \in Seq(M)
      /\ r[n + 1] = a /\ \A k \in 1 .. n : r[k] = list[k]
  BY AppendProperties, LenProperties
<1> HIDE DEF n, r
<1>2. \A k \in 1 .. n : k \in DOMAIN r
  BY <1>1
<1>3. \A k \in DOMAIN r : k \in 1 .. n \/ k = n + 1
  BY <1>1
<1>4. \A k \in 1 .. n : r[k] # a
  BY <1>1 DEF ToSet
<1>5. IsInjective(r)
  BY <1>1, <1>3, <1>4 DEF IsInjective
<1>6. ToSet(r) = ToSet(list) \cup {a}
  <2>1. n + 1 \in DOMAIN r
    BY <1>1
  <2> QED BY <1>1, <1>2, <1>3, <2>1 DEF ToSet
<1> QED BY <1>1, <1>5, <1>6 DEF r

LEMMA PutFirst ==
  ASSUME NEW M, NEW list \in Seq(M), IsInjective(list), NEW a \in M, a \notin ToSet(list)
  PROVE  /\ InsertAt(list, 1, a) \in Seq(M) /\ IsInjective(InsertAt(list, 1, a))
         /\ ToSet(InsertAt(list, 1, a)) = ToSet(list) \cup {a}
         /\ \A b \in ToSet(list) : <<a, b>> \in OrderOf(InsertAt(list, 1, a))
         /\ \A b, c \in ToSet(list) : <<b, c>> \in OrderOf(list) => <<b, c>> \in OrderOf(InsertAt(list, 1, a))
<1> DEFINE n == Len(list)
           r == InsertAt(list, 1, a)
<1>1. n \in Nat /\ DOMAIN list = 1 .. n
  BY LenProperties
<1>2. /\ r = [k \in 1 .. n + 1 |-> IF k < 1 THEN list[k] ELSE IF k = 1 THEN a ELSE list[k - 1]]
      /\ r \in Seq(M)
  <2>1. 1 \in 1 .. n + 1
    BY <1>1
  <2> QED BY <2>1, PutAt
<1> HIDE DEF n, r
<1>3. /\ DOMAIN r = 1 .. n + 1 /\ 1 \in DOMAIN r /\ r[1] = a
      /\ \A k \in 1 .. n : k + 1 \in DOMAIN r /\ r[k + 1] = list[k] /\ k + 1 > 1
  BY <1>1, <1>2
<1>4. \A k \in DOMAIN r : k = 1 \/ (k - 1 \in 1 .. n /\ r[k] = list[k - 1])
  BY <1>1, <1>2, <1>3
<1>5. \A k \in 1 .. n : list[k] # a
  BY <1>1 DEF ToSet
<1>6. ToSet(r) = ToSet(list) \cup {a}
  <2>1. ASSUME NEW x \in ToSet(r) PROVE x \in ToSet(list) \cup {a}
    BY <1>1, <1>3, <1>4 DEF ToSet
  <2>2. ASSUME NEW x \in ToSet(list) \cup {a} PROVE x \in ToSet(r)
    BY <1>1, <1>3 DEF ToSet
  <2> QED BY <2>1, <2>2
<1>7. IsInjective(r)
  <2> SUFFICES ASSUME NEW i \in DOMAIN r, NEW j \in DOMAIN r, r[i] = r[j] PROVE i = j
    BY DEF IsInjective
  <2>1. (i = 1 /\ j = 1) \/ (i # 1 /\ j # 1)
    BY <1>3, <1>4, <1>5
  <2>2. CASE i # 1 /\ j # 1
    <3>1. i - 1 = j - 1
      BY <1>1, <1>4, <2>2 DEF IsInjective
    <3> QED BY <1>1, <1>3, <3>1
  <2> QED BY <2>1, <2>2
<1>8. ASSUME NEW b \in ToSet(list) PROVE <<a, b>> \in OrderOf(r)
  <2>1. PICK k \in 1 .. n : list[k] = b
    BY <1>1 DEF ToSet
  <2>2. 1 \in DOMAIN r /\ k + 1 \in DOMAIN r /\ 1 < k + 1 /\ r[1] = a /\ r[k + 1] = b
    BY <1>1, <1>3, <2>1
  <2> QED BY <1>6, <2>2 DEF OrderOf
<1>9. ASSUME NEW b \in ToSet(list), NEW c \in ToSet(list), <<b, c>> \in OrderOf(list)
      PROVE  <<b, c>> \in OrderOf(r)
  <2>1. PICK k \in 1 .. n, l \in 1 .. n : k < l /\ list[k] = b /\ list[l] = c
    BY <1>1, <1>9 DEF OrderOf
  <2>2. /\ k + 1 \in DOMAIN r /\ l + 1 \in DOMAIN r /\ k + 1 < l + 1
        /\ r[k + 1] = b /\ r[l + 1] = c
    BY <1>1, <1>3, <2>1
  <2> QED BY <1>6, <2>2 DEF OrderOf
<1> QED BY <1>2, <1>6, <1>7, <1>8, <1>9 DEF r

\* What one is taken out of keeps its order.
LEMMA TakeOut ==
  ASSUME NEW M, NEW list \in Seq(M), IsInjective(list), NEW a
  PROVE  /\ RemoveFirst(list, a) \in Seq(M) /\ IsInjective(RemoveFirst(list, a))
         /\ ToSet(RemoveFirst(list, a)) = ToSet(list) \ {a}
         /\ \A b, c \in ToSet(list) \ {a} :
              <<b, c>> \in OrderOf(list) <=> <<b, c>> \in OrderOf(RemoveFirst(list, a))
<1> DEFINE S == ToSet(list)
           R == OrderOf(list)
           r == RemoveFirst(list, a)
<1>1. Orders(R, S) /\ Enlists(list, S, R)
  BY ListOrders
<1>2. S \in SUBSET M
  BY ElementOfSeq DEF ToSet
<1> HIDE DEF S, R, r
<1>3. Enlists(r, S \ {a}, R)
  BY <1>1, ListsTaken DEF r
<1>4. Orders(R, S \ {a})
  BY <1>1 DEF Orders
<1>5. /\ IsInjective(r) /\ ToSet(r) = S \ {a}
      /\ \A b, c \in S \ {a} : <<b, c>> \in R <=> <<b, c>> \in OrderOf(r)
  BY <1>3, <1>4, SameOrder
<1>6. r \in Seq(M)
  <2>1. r \in Seq(S \ {a})
    BY <1>3 DEF Enlists
  <2>2. S \ {a} \in SUBSET M
    BY <1>2
  <2> QED BY <2>1, <2>2, SeqDef
<1> QED BY <1>5, <1>6 DEF S, R, r

\* A list is in any order that says the same of what it has.
LEMMA ListsAlike ==
  ASSUME NEW S, NEW R, NEW Q, \A a, b \in S : <<a, b>> \in R => <<a, b>> \in Q,
         NEW list, Enlists(list, S, R)
  PROVE  Enlists(list, S, Q)
<1>1. \A k \in DOMAIN list : list[k] \in S
  BY ElementOfSeq, LenProperties DEF Enlists
<1> QED BY <1>1 DEF Enlists, InOrder
=============================================================================
