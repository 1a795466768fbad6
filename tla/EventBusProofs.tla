----------------------------- MODULE EventBusProofs -----------------------------
(***************************************************************************)
(* Proofs about the event bus, for any streams and filters, any number of  *)
(* events, and any sizes of the queues and of the replay buffer that is no *)
(* larger than a queue.                                                    *)
(***************************************************************************)
EXTENDS EventBus, FiniteSetTheorems, SequenceTheorems, WellFoundedInduction, TLAPS

-----------------------------------------------------------------------------
(* The loop that fills a new subscriber's queue. *)

\* put is that loop over the events s, with the topics lg and the filter T,
\* up to the n-th of them.
Fills(put, s, lg, T, n) ==
  put = [k \in 0..n |->
           IF k = 0 THEN <<>>
           ELSE IF lg[s[k]] \in T /\ Len(put[k - 1]) < QueueSize
                THEN Append(put[k - 1], s[k])
                ELSE put[k - 1]]

\* One more round of it.
LEMMA FillsOnce ==
  ASSUME NEW s, NEW lg, NEW T, NEW n \in Nat, NEW put, Fills(put, s, lg, T, n)
  PROVE  \E more : Fills(more, s, lg, T, n + 1)
<1> DEFINE new == IF lg[s[n + 1]] \in T /\ Len(put[n]) < QueueSize
                  THEN Append(put[n], s[n + 1]) ELSE put[n]
           more == [k \in 0..(n + 1) |-> IF k = n + 1 THEN new ELSE put[k]]
           Round(f, k) == IF k = 0 THEN <<>>
                          ELSE IF lg[s[k]] \in T /\ Len(f[k - 1]) < QueueSize
                               THEN Append(f[k - 1], s[k])
                               ELSE f[k - 1]
<1>1. \A k \in 0..n : put[k] = Round(put, k)
  BY DEF Fills
<1>2. \A k \in 0..n : more[k] = put[k]
  OBVIOUS
<1>3. more[n + 1] = new
  OBVIOUS
<1>4. \A k \in 0..(n + 1) : more[k] = Round(more, k)
  <2> SUFFICES ASSUME NEW k \in 0..(n + 1) PROVE more[k] = Round(more, k)
    OBVIOUS
  <2> HIDE DEF more
  <2>1. k = 0 => more[k] = <<>>
    BY <1>1, <1>2
  <2>2. CASE k \in 1..n
    <3>1. k - 1 \in 0..n /\ k \in 0..n
      BY <2>2
    <3>2. more[k - 1] = put[k - 1] /\ more[k] = put[k]
      BY <1>2, <3>1
    <3> QED  BY <1>1, <3>1, <3>2
  <2>3. CASE k = n + 1
    <3>1. more[k - 1] = put[n] /\ k # 0
      BY <1>2, <2>3
    <3> QED  BY <1>3, <2>3, <3>1
  <2> QED  BY <2>1, <2>2, <2>3
<1>5. more = [k \in 0..(n + 1) |-> more[k]]
  OBVIOUS
<1> HIDE DEF more
<1>6. more = [k \in 0..(n + 1) |-> Round(more, k)]
  BY <1>4, <1>5
<1>7. Fills(more, s, lg, T, n + 1)
  BY <1>6 DEF Fills
<1> QED  BY <1>7

\* There is such a loop for every number of rounds.
LEMMA FillsAlways ==
  ASSUME NEW s, NEW lg, NEW T
  PROVE  \A n \in Nat : \E put : Fills(put, s, lg, T, n)
<1> DEFINE Bad == {n \in Nat : ~\E put : Fills(put, s, lg, T, n)}
<1> SUFFICES ASSUME Bad # {} PROVE FALSE
  OBVIOUS
<1>1. PICK n \in Bad : \A m \in Bad : ~(<<m, n>> \in OpToRel(<, Nat))
  BY NatLessThanWellFounded, WFMin
<1>2. \A m \in Nat : m < n => m \notin Bad
  BY <1>1 DEF OpToRel
<1>3. n # 0
  <2>1. Fills([k \in 0..0 |-> <<>>], s, lg, T, 0)
    BY DEF Fills
  <2> QED  BY <2>1
<1>4. n - 1 \in Nat /\ n - 1 < n
  BY <1>3
<1>5. PICK put : Fills(put, s, lg, T, n - 1)
  BY <1>2, <1>4
<1>6. \E more : Fills(more, s, lg, T, (n - 1) + 1)
  BY <1>4, <1>5, FillsOnce
<1> QED  BY <1>4, <1>6

\* A new subscriber's queue is what the loop has put at its end.
LEMMA ReplayedFills ==
  ASSUME NEW c, Len(replay) \in Nat
  PROVE  \E put : /\ Fills(put, replay, log, Wanted[c], Len(replay))
                  /\ Replayed(c) = put[Len(replay)]
<1> DEFINE IsPut(put) ==
      put = [n \in 0..Len(replay) |->
               IF n = 0 THEN <<>>
               ELSE IF log[replay[n]] \in Wanted[c] /\ Len(put[n - 1]) < QueueSize
                    THEN Append(put[n - 1], replay[n])
                    ELSE put[n - 1]]
           loop == CHOOSE put : IsPut(put)
<1>1. \E put : IsPut(put)
  <2>1. PICK put : Fills(put, replay, log, Wanted[c], Len(replay))
    BY FillsAlways
  <2>2. IsPut(put)
    BY <2>1 DEF Fills
  <2> QED  BY <2>2
<1>2. Replayed(c) = loop[Len(replay)]
  BY DEF Replayed
<1> HIDE DEF IsPut
<1>3. IsPut(loop)
  BY <1>1
<1> HIDE DEF loop
<1>4. Fills(loop, replay, log, Wanted[c], Len(replay))
  BY <1>3 DEF IsPut, Fills
<1> QED  BY <1>2, <1>4

\* The loop keeps the order of the events and takes exactly those that match, as
\* long as the queue is large enough for all of them.
LEMMA Filled ==
  ASSUME NEW s \in Seq(Nat), Rising(s), Len(s) <= QueueSize,
         NEW lg, NEW T, NEW put, Fills(put, s, lg, T, Len(s))
  PROVE  /\ put[Len(s)] \in Seq(Nat)
         /\ Rising(put[Len(s)])
         /\ ToSet(put[Len(s)]) = {i \in ToSet(s) : lg[i] \in T}
<1> DEFINE N == Len(s)
           P(k) == /\ put[k] \in Seq(Nat) /\ Len(put[k]) <= k
                   /\ Rising(put[k])
                   /\ \A j \in 1..Len(put[k]) : \E i \in 1..k :
                        put[k][j] = s[i] /\ lg[s[i]] \in T
                   /\ \A i \in 1..k : lg[s[i]] \in T =>
                        \E j \in 1..Len(put[k]) : put[k][j] = s[i]
           Bad == {k \in 0..N : ~P(k)}
<1>0. N \in Nat /\ QueueSize \in Nat
  BY BusAssumption
<1>1. \A k \in 0..N : put[k] = IF k = 0 THEN <<>>
           ELSE IF lg[s[k]] \in T /\ Len(put[k - 1]) < QueueSize
                THEN Append(put[k - 1], s[k])
                ELSE put[k - 1]
  BY DEF Fills
<1>2. \A i, j \in 1..N : i < j => s[i] < s[j]
  BY DEF Rising
<1>3. \A i \in 1..N : s[i] \in Nat
  OBVIOUS
<1> HIDE DEF N
<1>4. P(0)
  <2>1. put[0] = <<>>
    BY <1>0, <1>1
  <2> QED  BY <2>1 DEF Rising
<1>5. ASSUME NEW k \in 1..N, P(k - 1) PROVE P(k)
  <2> DEFINE p == put[k - 1]
             q == put[k]
  <2>1. q = IF lg[s[k]] \in T /\ Len(p) < QueueSize THEN Append(p, s[k]) ELSE p
    BY <1>0, <1>1
  <2>1a. p \in Seq(Nat)
    BY <1>5
  <2>2. /\ p \in Seq(Nat) /\ Len(p) <= k - 1 /\ Len(p) \in Nat
        /\ Rising(p)
        /\ \A j \in 1..Len(p) : \E i \in 1..(k - 1) :
             p[j] = s[i] /\ lg[s[i]] \in T
        /\ \A i \in 1..(k - 1) : lg[s[i]] \in T =>
             \E j \in 1..Len(p) : p[j] = s[i]
    BY <1>5, <2>1a
  <2>3. Len(p) < QueueSize
    BY <1>0, <2>2 DEF N
  <2>4. k \in Nat /\ s[k] \in Nat
    BY <1>0, <1>3
  <2> HIDE DEF p, q
  <2>5. CASE lg[s[k]] \notin T
    <3>1. q = p
      BY <2>1, <2>5
    <3>2. \A i \in 1..k : lg[s[i]] \in T => i \in 1..(k - 1)
      BY <2>4, <2>5
    <3>3. \A j \in 1..Len(q) : \E i \in 1..k : q[j] = s[i] /\ lg[s[i]] \in T
      BY <2>2, <2>4, <3>1
    <3>4. \A i \in 1..k : lg[s[i]] \in T => \E j \in 1..Len(q) : q[j] = s[i]
      BY <2>2, <3>1, <3>2
    <3>5. q \in Seq(Nat) /\ Len(q) <= k /\ Rising(q)
      BY <2>2, <2>4, <3>1
    <3> QED  BY <3>3, <3>4, <3>5 DEF q
  <2>6. CASE lg[s[k]] \in T
    <3>1. /\ q = Append(p, s[k]) /\ q \in Seq(Nat) /\ Len(q) = Len(p) + 1
          /\ q[Len(p) + 1] = s[k] /\ \A j \in 1..Len(p) : q[j] = p[j]
      BY <2>1, <2>2, <2>3, <2>4, <2>6
    <3>2. \A j \in 1..Len(p) : p[j] < s[k]
      <4> SUFFICES ASSUME NEW j \in 1..Len(p) PROVE p[j] < s[k]
        OBVIOUS
      <4>1. PICK i \in 1..(k - 1) : p[j] = s[i]
        BY <2>2
      <4> QED  BY <1>0, <1>2, <4>1
    <3>3. Rising(q)
      <4>1. \A i, j \in 1..Len(p) : i < j => p[i] < p[j]
        BY <2>2 DEF Rising
      <4>2. \A j \in 1..Len(q) : j = Len(p) + 1 \/ j \in 1..Len(p)
        BY <2>2, <3>1
      <4>3. ASSUME NEW i \in 1..Len(q), NEW j \in 1..Len(q), i < j PROVE q[i] < q[j]
        <5>1. i \in 1..Len(p)
          BY <2>2, <3>1, <4>3
        <5> QED  BY <3>1, <3>2, <4>1, <4>2, <4>3, <5>1
      <4> QED  BY <4>3 DEF Rising
    <3>4. \A j \in 1..Len(q) : \E i \in 1..k : q[j] = s[i] /\ lg[s[i]] \in T
      <4> SUFFICES ASSUME NEW j \in 1..Len(q)
                   PROVE  \E i \in 1..k : q[j] = s[i] /\ lg[s[i]] \in T
        OBVIOUS
      <4>1. CASE j = Len(p) + 1
        BY <2>4, <2>6, <3>1, <4>1
      <4>2. CASE j \in 1..Len(p)
        <5>1. PICK i \in 1..(k - 1) : p[j] = s[i] /\ lg[s[i]] \in T
          BY <2>2, <4>2
        <5> QED  BY <2>4, <3>1, <4>2, <5>1
      <4> QED  BY <2>2, <3>1, <4>1, <4>2
    <3>5. \A i \in 1..k : lg[s[i]] \in T => \E j \in 1..Len(q) : q[j] = s[i]
      <4> SUFFICES ASSUME NEW i \in 1..k, lg[s[i]] \in T
                   PROVE  \E j \in 1..Len(q) : q[j] = s[i]
        OBVIOUS
      <4>1. CASE i = k
        <5>1. Len(p) + 1 \in 1..Len(q)
          BY <2>2, <3>1
        <5> QED  BY <3>1, <4>1, <5>1
      <4>2. CASE i \in 1..(k - 1)
        <5>1. PICK j \in 1..Len(p) : p[j] = s[i]
          BY <2>2, <4>2
        <5>2. j \in 1..Len(q)
          BY <2>2, <3>1
        <5> QED  BY <3>1, <5>1, <5>2
      <4> QED  BY <2>4, <4>1, <4>2
    <3>6. Len(q) <= k
      BY <2>2, <2>4, <3>1
    <3> QED  BY <3>1, <3>3, <3>4, <3>5, <3>6 DEF q
  <2> QED  BY <2>5, <2>6
<1> HIDE DEF P
<1>6. Bad = {}
  <2> SUFFICES ASSUME Bad # {} PROVE FALSE
    OBVIOUS
  <2>0. Bad \subseteq Nat
    BY <1>0
  <2>1. PICK k \in Bad : \A m \in Bad : ~(<<m, k>> \in OpToRel(<, Nat))
    <3> HIDE DEF Bad
    <3> QED  BY <2>0, NatLessThanWellFounded, WFMin
  <2>2. k \in 0..N /\ ~P(k) /\ k # 0
    BY <1>4
  <2>3. k - 1 \in 0..N /\ k - 1 < k /\ k \in 1..N /\ k - 1 \in Nat /\ k \in Nat
    BY <1>0, <2>2
  <2>4. k - 1 \notin Bad
    BY <2>1, <2>3 DEF OpToRel
  <2> QED  BY <1>5, <2>2, <2>3, <2>4
<1>7. P(N)
  BY <1>0, <1>6
<1>8. /\ put[N] \in Seq(Nat) /\ Rising(put[N])
      /\ \A j \in 1..Len(put[N]) : \E i \in 1..N : put[N][j] = s[i] /\ lg[s[i]] \in T
      /\ \A i \in 1..N : lg[s[i]] \in T => \E j \in 1..Len(put[N]) : put[N][j] = s[i]
  BY <1>7 DEF P
<1>9. ToSet(put[N]) = {i \in ToSet(s) : lg[i] \in T}
  <2> DEFINE q == put[N]
  <2>1. DOMAIN q = 1..Len(q) /\ DOMAIN s = 1..N
    BY <1>8 DEF N
  <2>2. /\ \A j \in 1..Len(q) : \E i \in 1..N : q[j] = s[i] /\ lg[s[i]] \in T
        /\ \A i \in 1..N : lg[s[i]] \in T => \E j \in 1..Len(q) : q[j] = s[i]
    BY <1>8
  <2> HIDE DEF q, N
  <2>3. ToSet(q) = {q[j] : j \in 1..Len(q)} /\ ToSet(s) = {s[i] : i \in 1..N}
    BY <2>1 DEF ToSet
  <2>4. ASSUME NEW x \in ToSet(q) PROVE x \in ToSet(s) /\ lg[x] \in T
    BY <2>2, <2>3
  <2>5. ASSUME NEW x \in ToSet(s), lg[x] \in T PROVE x \in ToSet(q)
    BY <2>2, <2>3, <2>5
  <2>6. ToSet(q) = {i \in ToSet(s) : lg[i] \in T}
    BY <2>4, <2>5
  <2> QED  BY <2>6 DEF q
<1> QED  BY <1>8, <1>9 DEF N

-----------------------------------------------------------------------------
(* A stream, its queue and what it is due. *)

\* The promise to one stream that is due D, has read r, has q in its queue and
\* has lost d events.
StreamOK(D, r, q, d) ==
  /\ Rising(r \o q)
  /\ ToSet(r \o q) \subseteq D
  /\ \A i \in D \ (ToSet(r) \union ToSet(q)), j \in ToSet(q) : i < j
  /\ Cardinality(D) = Len(r) + Len(q) + d

\* The members of two sequences, one after the other.
LEMMA Members ==
  ASSUME NEW r \in Seq(Nat), NEW q \in Seq(Nat)
  PROVE  /\ r \o q \in Seq(Nat) /\ Len(r \o q) = Len(r) + Len(q)
         /\ \A i \in 1..Len(r) : (r \o q)[i] = r[i]
         /\ \A i \in 1..Len(q) : (r \o q)[Len(r) + i] = q[i]
         /\ ToSet(r) = {r[i] : i \in 1..Len(r)}
         /\ ToSet(r \o q) = ToSet(r) \union ToSet(q)
<1>1. /\ r \o q \in Seq(Nat) /\ Len(r \o q) = Len(r) + Len(q)
      /\ \A i \in 1..Len(r) : (r \o q)[i] = r[i]
      /\ \A i \in 1..Len(q) : (r \o q)[Len(r) + i] = q[i]
  OBVIOUS
<1>2. /\ ToSet(r) = Range(r) /\ ToSet(q) = Range(q) /\ ToSet(r \o q) = Range(r \o q)
      /\ ToSet(r) = {r[i] : i \in 1..Len(r)}
  BY DEF ToSet, Range
<1>3. Range(r \o q) = Range(r) \union Range(q)
  BY RangeConcatenation
<1> QED  BY <1>1, <1>2, <1>3

\* Two rising sequences, one above the other.
LEMMA RisingConcat ==
  ASSUME NEW r \in Seq(Nat), NEW q \in Seq(Nat)
  PROVE  Rising(r \o q) <=>
           /\ Rising(r) /\ Rising(q)
           /\ \A i \in 1..Len(r), j \in 1..Len(q) : r[i] < q[j]
<1> DEFINE m == Len(r)
           n == Len(q)
           x == r \o q
<1>1. /\ Len(x) = m + n /\ m \in Nat /\ n \in Nat
      /\ \A i \in 1..m : x[i] = r[i]
      /\ \A i \in 1..n : x[m + i] = q[i]
  BY Members
<1>2. \A i \in 1..(m + n) : i \in 1..m \/ (i - m \in 1..n /\ x[i] = q[i - m] /\ i > m)
  <2> SUFFICES ASSUME NEW i \in 1..(m + n), i > m
               PROVE  i - m \in 1..n /\ x[i] = q[i - m]
    BY <1>1
  <2>1. i - m \in 1..n /\ m + (i - m) = i
    BY <1>1
  <2> QED  BY <1>1, <2>1
<1>3. ASSUME Rising(x)
      PROVE  Rising(r) /\ Rising(q) /\ \A i \in 1..m, j \in 1..n : r[i] < q[j]
  <2>1. \A i, j \in 1..(m + n) : i < j => x[i] < x[j]
    BY <1>1, <1>3 DEF Rising
  <2> HIDE DEF x, m, n
  <2>2. \A i, j \in 1..m : i < j => r[i] < r[j]
    BY <1>1, <2>1
  <2>3. \A i, j \in 1..n : i < j => q[i] < q[j]
    <3> SUFFICES ASSUME NEW i \in 1..n, NEW j \in 1..n, i < j PROVE q[i] < q[j]
      OBVIOUS
    <3>1. m + i \in 1..(m + n) /\ m + j \in 1..(m + n) /\ m + i < m + j
      BY <1>1
    <3> QED  BY <1>1, <2>1, <3>1
  <2>4. \A i \in 1..m, j \in 1..n : r[i] < q[j]
    <3> SUFFICES ASSUME NEW i \in 1..m, NEW j \in 1..n PROVE r[i] < q[j]
      OBVIOUS
    <3>1. i \in 1..(m + n) /\ m + j \in 1..(m + n) /\ i < m + j
      BY <1>1
    <3> QED  BY <1>1, <2>1, <3>1
  <2> QED  BY <2>2, <2>3, <2>4 DEF Rising, m, n
<1>4. ASSUME Rising(r), Rising(q), \A i \in 1..m, j \in 1..n : r[i] < q[j]
      PROVE  Rising(x)
  <2>1. /\ \A i, j \in 1..m : i < j => r[i] < r[j]
        /\ \A i, j \in 1..n : i < j => q[i] < q[j]
    BY <1>4 DEF Rising
  <2> HIDE DEF x, m, n
  <2>2. ASSUME NEW i \in 1..(m + n), NEW j \in 1..(m + n), i < j PROVE x[i] < x[j]
    <3>1. CASE j \in 1..m
      <4>1. i \in 1..m
        BY <1>1, <2>2, <3>1
      <4> QED  BY <1>1, <2>1, <2>2, <3>1, <4>1
    <3>2. CASE j - m \in 1..n /\ x[j] = q[j - m]
      <4>1. CASE i \in 1..m
        BY <1>1, <1>4, <3>2, <4>1
      <4>2. CASE i - m \in 1..n /\ x[i] = q[i - m]
        <5>1. i - m < j - m
          BY <1>1, <2>2
        <5> QED  BY <2>1, <3>2, <4>2, <5>1
      <4> QED  BY <1>2, <4>1, <4>2
    <3> QED  BY <1>2, <3>1, <3>2
  <2> QED  BY <1>1, <2>2 DEF Rising
<1> QED  BY <1>3, <1>4

\* A rising sequence has no member twice.
LEMMA RisingCounts ==
  ASSUME NEW q \in Seq(Nat), Rising(q)
  PROVE  IsFiniteSet(ToSet(q)) /\ Cardinality(ToSet(q)) = Len(q)
<1> DEFINE n == Len(q)
           f == [i \in 1..n |-> q[i]]
<1>1. n \in Nat /\ DOMAIN q = 1..n
  OBVIOUS
<1>2. ToSet(q) = {q[i] : i \in 1..n}
  BY <1>1 DEF ToSet
<1>3. \A i, j \in 1..n : i < j => q[i] < q[j]
  BY DEF Rising
<1>4. \A i \in 1..n : q[i] \in Nat
  OBVIOUS
<1> HIDE DEF n
<1>5. \A i, j \in 1..n : i # j => q[i] # q[j]
  <2> SUFFICES ASSUME NEW i \in 1..n, NEW j \in 1..n, i # j PROVE q[i] # q[j]
    OBVIOUS
  <2>1. i < j \/ j < i
    BY <1>1
  <2> QED  BY <1>3, <1>4, <2>1
<1>6. f \in Bijection(1..n, ToSet(q))
  BY <1>2, <1>5 DEF Bijection, Injection, Surjection, IsInjective
<1> HIDE DEF f
<1>7. ExistsBijection(1..n, ToSet(q))
  BY <1>6 DEF ExistsBijection
<1> QED  BY <1>1, <1>7, FS_NatBijection, FS_CountingElements DEF n

\* A stream that has just been given all it is due.
LEMMA StartOK ==
  ASSUME NEW q \in Seq(Nat), Rising(q)
  PROVE  StreamOK(ToSet(q), <<>>, q, 0)
<1>1. <<>> \o q = q /\ ToSet(<<>>) = {} /\ Len(<<>>) = 0 /\ Len(q) \in Nat
  BY DEF ToSet
<1>2. Cardinality(ToSet(q)) = Len(q)
  BY RisingCounts
<1>3. Cardinality(ToSet(q)) = Len(<<>>) + Len(q) + 0
  BY <1>1, <1>2
<1>4. Rising(<<>> \o q) /\ ToSet(<<>> \o q) \subseteq ToSet(q)
  BY <1>1
<1>5. ToSet(q) \ (ToSet(<<>>) \union ToSet(q)) = {}
  OBVIOUS
<1> QED  BY <1>3, <1>4, <1>5 DEF StreamOK

\* A sequence that is not empty is its head and its tail.
LEMMA HeadAndTail ==
  ASSUME NEW q \in Seq(Nat), q # <<>>
  PROVE  /\ Head(q) \in Nat /\ Tail(q) \in Seq(Nat) /\ Len(q) = Len(Tail(q)) + 1
         /\ q = <<Head(q)>> \o Tail(q)
         /\ ToSet(q) = {Head(q)} \union ToSet(Tail(q))
<1>1. /\ Head(q) \in Nat /\ Tail(q) \in Seq(Nat) /\ Len(q) = Len(Tail(q)) + 1
      /\ q = <<Head(q)>> \o Tail(q)
  OBVIOUS
<1>2. <<Head(q)>> \in Seq(Nat) /\ ToSet(<<Head(q)>>) = {Head(q)}
  BY <1>1 DEF ToSet
<1>3. ToSet(<<Head(q)>> \o Tail(q)) = {Head(q)} \union ToSet(Tail(q))
  BY <1>1, <1>2, Members
<1> QED  BY <1>1, <1>3

\* A sequence with one more member at its end.
LEMMA MembersPut ==
  ASSUME NEW r \in Seq(Nat), NEW h \in Nat
  PROVE  /\ Append(r, h) = r \o <<h>> /\ Append(r, h) \in Seq(Nat)
         /\ Len(Append(r, h)) = Len(r) + 1
         /\ ToSet(Append(r, h)) = ToSet(r) \union {h}
<1>1. /\ Append(r, h) = r \o <<h>> /\ Append(r, h) \in Seq(Nat)
      /\ Len(Append(r, h)) = Len(r) + 1
  OBVIOUS
<1>2. <<h>> \in Seq(Nat) /\ ToSet(<<h>>) = {h}
  BY DEF ToSet
<1>3. ToSet(r \o <<h>>) = ToSet(r) \union ToSet(<<h>>)
  BY <1>2, Members
<1> QED  BY <1>1, <1>2, <1>3

\* The stream takes the head of its queue.
LEMMA TakeOK ==
  ASSUME NEW D, NEW r \in Seq(Nat), NEW q \in Seq(Nat), NEW d \in Nat,
         StreamOK(D, r, q, d), q # <<>>
  PROVE  StreamOK(D, Append(r, Head(q)), Tail(q), d)
<1> DEFINE h == Head(q)
           t == Tail(q)
           r2 == Append(r, h)
<1>1. /\ h \in Nat /\ t \in Seq(Nat) /\ Len(q) = Len(t) + 1 /\ q = <<h>> \o t
      /\ ToSet(q) = {h} \union ToSet(t)
  BY HeadAndTail
<1> HIDE DEF h, t
<1>2. r2 = r \o <<h>> /\ <<h>> \in Seq(Nat)
  BY <1>1
<1>3. /\ r2 \in Seq(Nat) /\ Len(r2) = Len(r) + 1
      /\ ToSet(r2) = ToSet(r) \union {h}
  BY <1>1, MembersPut
<1>4. r2 \o t = r \o q
  BY <1>1, <1>2, ConcatAssociative
<1>5. Rising(r2 \o t) /\ ToSet(r2 \o t) \subseteq D
  BY <1>4 DEF StreamOK
<1>6. ToSet(r2) \union ToSet(t) = ToSet(r) \union ToSet(q)
  BY <1>1, <1>3
<1>7. \A i \in D \ (ToSet(r2) \union ToSet(t)), j \in ToSet(t) : i < j
  BY <1>1, <1>6 DEF StreamOK
<1>8. Cardinality(D) = Len(r2) + Len(t) + d
  <2>1. Cardinality(D) = Len(r) + Len(q) + d
    BY DEF StreamOK
  <2>2. Len(r) \in Nat /\ Len(t) \in Nat
    BY <1>1
  <2> HIDE DEF r2
  <2> QED  BY <1>1, <1>3, <2>1, <2>2
<1> HIDE DEF r2
<1>9. StreamOK(D, r2, t, d)
  BY <1>5, <1>7, <1>8 DEF StreamOK
<1> QED  BY <1>9 DEF r2, h, t

\* A full queue loses its head, which is then the newest of the lost.
LEMMA DropOK ==
  ASSUME NEW D, NEW r \in Seq(Nat), NEW q \in Seq(Nat), NEW d \in Nat,
         StreamOK(D, r, q, d), q # <<>>
  PROVE  StreamOK(D, r, Tail(q), d + 1)
<1> DEFINE h == Head(q)
           t == Tail(q)
<1>1. /\ h \in Nat /\ t \in Seq(Nat) /\ Len(q) = Len(t) + 1 /\ q = <<h>> \o t
      /\ ToSet(q) = {h} \union ToSet(t)
  BY HeadAndTail
<1> HIDE DEF h, t
<1>2. <<h>> \in Seq(Nat) /\ Len(<<h>>) = 1 /\ <<h>>[1] = h
  BY <1>1
<1>3. /\ Rising(r) /\ Rising(q)
      /\ \A i \in 1..Len(r), j \in 1..Len(q) : r[i] < q[j]
  BY RisingConcat DEF StreamOK
<1>4. Rising(t) /\ \A j \in 1..Len(t) : h < t[j]
  <2>1. Rising(<<h>> \o t)
    BY <1>1, <1>3
  <2>2. Rising(t) /\ \A i \in 1..Len(<<h>>), j \in 1..Len(t) : <<h>>[i] < t[j]
    BY <1>1, <1>2, <2>1, RisingConcat
  <2> QED  BY <1>2, <2>2
<1>5. \A i \in 1..Len(r), j \in 1..Len(t) : r[i] < t[j]
  <2> SUFFICES ASSUME NEW i \in 1..Len(r), NEW j \in 1..Len(t) PROVE r[i] < t[j]
    OBVIOUS
  <2>1. j + 1 \in 1..Len(q) /\ q[1 + j] = t[j]
    BY <1>1, <1>2, Members
  <2> QED  BY <1>3, <2>1
<1>6. Rising(r \o t)
  BY <1>1, <1>3, <1>4, <1>5, RisingConcat
<1>7. ToSet(r \o t) \subseteq D
  <2>1. ToSet(r \o q) = ToSet(r) \union ToSet(q)
    BY Members
  <2>2. ToSet(r \o t) = ToSet(r) \union ToSet(t)
    BY <1>1, Members
  <2>3. ToSet(r \o q) \subseteq D
    BY DEF StreamOK
  <2> QED  BY <1>1, <2>1, <2>2, <2>3
<1>8. \A i \in D \ (ToSet(r) \union ToSet(t)), j \in ToSet(t) : i < j
  <2> SUFFICES ASSUME NEW i \in D \ (ToSet(r) \union ToSet(t)), NEW j \in ToSet(t)
               PROVE  i < j
    OBVIOUS
  <2>1. CASE i = h
    BY <1>1, <1>4, <2>1, Members
  <2>2. CASE i # h
    BY <1>1, <2>2 DEF StreamOK
  <2> QED  BY <2>1, <2>2
<1>9. Cardinality(D) = Len(r) + Len(t) + (d + 1)
  <2>1. Cardinality(D) = Len(r) + Len(q) + d
    BY DEF StreamOK
  <2>2. Len(r) \in Nat /\ Len(t) \in Nat
    BY <1>1
  <2> QED  BY <1>1, <2>1, <2>2
<1>10. StreamOK(D, r, t, d + 1)
  BY <1>6, <1>7, <1>8, <1>9 DEF StreamOK
<1> QED  BY <1>10 DEF t

\* A newer event is put at the end of the queue.
LEMMA PutOK ==
  ASSUME NEW D \in SUBSET Nat, IsFiniteSet(D), NEW r \in Seq(Nat), NEW q \in Seq(Nat),
         NEW d \in Nat, StreamOK(D, r, q, d), NEW i \in Nat, \A j \in D : j < i
  PROVE  StreamOK(D \union {i}, r, Append(q, i), d)
<1> DEFINE x == r \o q
           y == x \o <<i>>
           p == Append(q, i)
<1>1. x \in Seq(Nat) /\ Rising(x) /\ ToSet(x) \subseteq D /\ ToSet(x) = {x[k] : k \in 1..Len(x)}
  BY Members DEF StreamOK
<1>2. <<i>> \in Seq(Nat) /\ Len(<<i>>) = 1 /\ <<i>>[1] = i /\ ToSet(<<i>>) = {i}
  BY DEF ToSet
<1>3. p = q \o <<i>> /\ r \o p = y
  BY <1>2, ConcatAssociative
<1>4. p \in Seq(Nat) /\ Len(p) = Len(q) + 1 /\ ToSet(p) = ToSet(q) \union {i}
  BY MembersPut
<1> HIDE DEF x
<1>5. Rising(y)
  <2>1. Rising(<<i>>)
    BY DEF Rising
  <2>2. \A k \in 1..Len(x), l \in 1..Len(<<i>>) : x[k] < <<i>>[l]
    BY <1>1, <1>2
  <2> QED  BY <1>1, <1>2, <2>1, <2>2, RisingConcat
<1>6. ToSet(y) \subseteq D \union {i}
  <2>1. ToSet(y) = ToSet(x) \union ToSet(<<i>>)
    BY <1>1, <1>2, Members
  <2> QED  BY <1>1, <1>2, <2>1
<1>7. \A k \in (D \union {i}) \ (ToSet(r) \union ToSet(p)), j \in ToSet(p) : k < j
  BY <1>4 DEF StreamOK
<1>8. Cardinality(D \union {i}) = Len(r) + Len(p) + d
  <2>1. Cardinality(D) = Len(r) + Len(q) + d /\ Len(r) \in Nat /\ Len(q) \in Nat
    BY DEF StreamOK
  <2>2. i \notin D
    OBVIOUS
  <2>3. Cardinality(D \union {i}) = Cardinality(D) + 1
    BY <2>2, FS_AddElement
  <2> HIDE DEF p
  <2> QED  BY <1>4, <2>1, <2>3
<1> HIDE DEF y, p
<1>9. StreamOK(D \union {i}, r, p, d)
  BY <1>3, <1>5, <1>6, <1>7, <1>8 DEF StreamOK
<1> QED  BY <1>9 DEF p

\* A matching event is offered to the queue.
LEMMA OfferOK ==
  ASSUME NEW D \in SUBSET Nat, IsFiniteSet(D), NEW r \in Seq(Nat), NEW q \in Seq(Nat),
         NEW d \in Nat, StreamOK(D, r, q, d), NEW i \in Nat, \A j \in D : j < i
  PROVE  /\ Offered(q, i) \in Seq(Nat)
         /\ StreamOK(D \union {i}, r, Offered(q, i),
                     IF Len(q) = QueueSize THEN d + 1 ELSE d)
<1>1. CASE Len(q) = QueueSize
  <2>1. q # <<>>
    BY <1>1, BusAssumption
  <2>2. StreamOK(D, r, Tail(q), d + 1) /\ Tail(q) \in Seq(Nat) /\ d + 1 \in Nat
    BY <2>1, DropOK, HeadAndTail
  <2>3. StreamOK(D \union {i}, r, Append(Tail(q), i), d + 1)
    BY <2>2, PutOK
  <2> QED  BY <1>1, <2>2, <2>3 DEF Offered
<1>2. CASE Len(q) # QueueSize
  <2>1. StreamOK(D \union {i}, r, Append(q, i), d)
    BY PutOK
  <2> QED  BY <1>2, <2>1 DEF Offered
<1> QED  BY <1>1, <1>2

-----------------------------------------------------------------------------
(* The bus. *)

BusTypes ==
  /\ log \in Seq(Topics)
  /\ replay \in Seq(Nat)
  /\ state \in [Streams -> {"new", "open", "refused", "closed"}]
  /\ queue \in [Streams -> Seq(Nat)]
  /\ read \in [Streams -> Seq(Nat)]
  /\ dropped \in [Streams -> Nat]
  /\ since \in [Streams -> Nat]

\* The replay buffer holds the newest events in their order.
ReplayIsNewest ==
  /\ Len(replay) = IF Len(log) < ReplaySize THEN Len(log) ELSE ReplaySize
  /\ \A k \in 1..Len(replay) : replay[k] = Len(log) - Len(replay) + k

\* Nothing has happened to a stream that has not subscribed.
Untouched(c) == state[c] = "new" => read[c] = <<>> /\ dropped[c] = 0

Served(c) == state[c] = "open" => StreamOK(Due(c), read[c], queue[c], dropped[c])

BusInv ==
  /\ BusTypes
  /\ ReplayIsNewest
  /\ \A c \in Streams : since[c] <= Len(log) /\ Untouched(c) /\ Served(c)

\* What a stream is due are positions of the log.
LEMMA DueIsFinite ==
  ASSUME BusTypes, NEW c \in Streams
  PROVE  /\ Due(c) \in SUBSET Nat /\ IsFiniteSet(Due(c))
         /\ \A j \in Due(c) : j < Len(log) + 1
<1>1. Len(log) \in Nat
  BY DEF BusTypes
<1>2. Due(c) \subseteq 1..Len(log) /\ IsFiniteSet(1..Len(log))
  BY <1>1, FS_Interval DEF Due
<1> QED  BY <1>1, <1>2, FS_Subset

\* The queue of a new subscriber has all it is due, and in order.
LEMMA ReplayedIsDue ==
  ASSUME BusTypes, ReplayIsNewest, NEW c
  PROVE  /\ Replayed(c) \in Seq(Nat) /\ Rising(Replayed(c))
         /\ ToSet(Replayed(c)) =
              {i \in 1..Len(log) : i > Len(log) - ReplaySize /\ log[i] \in Wanted[c]}
<1> DEFINE n == Len(replay)
           N == Len(log)
<1>1. /\ n \in Nat /\ N \in Nat /\ ReplaySize \in Nat /\ QueueSize \in Nat
      /\ n = (IF N < ReplaySize THEN N ELSE ReplaySize) /\ ReplaySize <= QueueSize
      /\ \A k \in 1..n : replay[k] = N - n + k
  <2>1. n \in Nat /\ N \in Nat
    BY DEF BusTypes
  <2>2. /\ ReplaySize \in Nat /\ QueueSize \in Nat /\ ReplaySize <= QueueSize
    BY BusAssumption
  <2>3. /\ n = (IF N < ReplaySize THEN N ELSE ReplaySize)
        /\ \A k \in 1..n : replay[k] = N - n + k
    BY DEF ReplayIsNewest
  <2> QED  BY <2>1, <2>2, <2>3
<1>1a. Len(replay) \in Nat
  BY <1>1
<1>2. PICK put : /\ Fills(put, replay, log, Wanted[c], Len(replay))
                 /\ Replayed(c) = put[Len(replay)]
  BY <1>1a, ReplayedFills
<1>3. replay \in Seq(Nat) /\ n <= QueueSize /\ Rising(replay)
  <2>1. \A i, j \in 1..n : i < j => replay[i] < replay[j]
    <3> HIDE DEF n, N
    <3> QED  BY <1>1
  <2> QED  BY <1>1, <2>1 DEF BusTypes, Rising
<1>4. /\ Replayed(c) \in Seq(Nat) /\ Rising(Replayed(c))
      /\ ToSet(Replayed(c)) = {i \in ToSet(replay) : log[i] \in Wanted[c]}
  BY <1>2, <1>3, Filled
<1>5. ToSet(replay) = {i \in 1..N : i > N - ReplaySize}
  <2>1. ToSet(replay) = {replay[k] : k \in 1..n}
    BY <1>3 DEF ToSet
  <2> HIDE DEF n, N
  <2>2. ASSUME NEW k \in 1..n PROVE replay[k] \in 1..N /\ replay[k] > N - ReplaySize
    BY <1>1
  <2>3. ASSUME NEW i \in 1..N, i > N - ReplaySize PROVE \E k \in 1..n : replay[k] = i
    <3>1. i - (N - n) \in 1..n
      BY <1>1, <2>3
    <3>2. replay[i - (N - n)] = N - n + (i - (N - n))
      BY <1>1, <3>1
    <3>3. N - n + (i - (N - n)) = i
      BY <1>1
    <3> QED  BY <3>1, <3>2, <3>3
  <2> QED  BY <2>1, <2>2, <2>3
<1> QED  BY <1>4, <1>5

\* An event is added to what a stream is due if the stream wants it.
LEMMA DueGrows ==
  ASSUME BusTypes, NEW c \in Streams, NEW t \in Topics, since[c] <= Len(log),
         log' = Append(log, t), since' = since
  PROVE  Due(c)' = IF t \in Wanted[c] THEN Due(c) \union {Len(log) + 1} ELSE Due(c)
<1> DEFINE N == Len(log)
           x == log'
           from == since[c] - ReplaySize
           T == Wanted[c]
<1>1. /\ N \in Nat /\ Len(x) = N + 1 /\ x[N + 1] = t
      /\ \A i \in 1..N : x[i] = log[i]
  BY DEF BusTypes
<1>2. from \in Int /\ N + 1 > from
  BY <1>1, BusAssumption DEF BusTypes
<1>3. /\ Due(c) = {i \in 1..N : i > from /\ log[i] \in T}
      /\ Due(c)' = {i \in 1..Len(x) : i > from /\ x[i] \in T}
  BY DEF Due
<1> HIDE DEF N, x, from, T
<1>4. {i \in 1..Len(x) : i > from /\ x[i] \in T}
        = {i \in 1..N : i > from /\ log[i] \in T}
            \union (IF t \in T THEN {N + 1} ELSE {})
  BY <1>1, <1>2
<1>5. CASE t \in T
  BY <1>3, <1>4, <1>5 DEF N, T
<1>6. CASE t \notin T
  BY <1>3, <1>4, <1>6 DEF N, T
<1> QED  BY <1>5, <1>6

\* An event reaches every open stream that wants it.
LEMMA BroadcastServes ==
  ASSUME BusInv, NEW t \in Topics, Broadcast(t)
  PROVE  BusInv'
<1> DEFINE i == Len(log) + 1
           to == {c \in Open : t \in Wanted[c]}
<1>1. /\ log' = Append(log, t)
      /\ replay' = IF Len(replay) < ReplaySize THEN Append(replay, i)
                   ELSE IF ReplaySize = 0 THEN replay
                   ELSE Append(Tail(replay), i)
      /\ queue' = [c \in Streams |-> IF c \in to THEN Offered(queue[c], i)
                                                 ELSE queue[c]]
      /\ dropped' = [c \in Streams |->
                       IF c \in to /\ Len(queue[c]) = QueueSize
                       THEN dropped[c] + 1 ELSE dropped[c]]
      /\ state' = state /\ since' = since /\ read' = read
  BY DEF Broadcast
<1>2. BusTypes /\ i \in Nat /\ Len(log') = i
  BY <1>1 DEF BusInv, BusTypes
<1> HIDE DEF i
<1>3. ASSUME NEW c \in Streams, c \in to
      PROVE  /\ queue'[c] \in Seq(Nat)
             /\ StreamOK(Due(c)', read'[c], queue'[c], dropped'[c])
  <2>1. StreamOK(Due(c), read[c], queue[c], dropped[c]) /\ since[c] <= Len(log)
    BY <1>3 DEF BusInv, Served, Open
  <2>2. Due(c) \in SUBSET Nat /\ IsFiniteSet(Due(c)) /\ \A j \in Due(c) : j < i
    BY <1>2, DueIsFinite DEF i
  <2>3. read[c] \in Seq(Nat) /\ queue[c] \in Seq(Nat) /\ dropped[c] \in Nat
    BY <1>2 DEF BusTypes
  <2>4. Due(c)' = Due(c) \union {i}
    BY <1>1, <1>2, <1>3, <2>1, DueGrows DEF i
  <2>5. /\ read'[c] = read[c] /\ queue'[c] = Offered(queue[c], i)
        /\ dropped'[c] = IF Len(queue[c]) = QueueSize THEN dropped[c] + 1 ELSE dropped[c]
    BY <1>1, <1>3
  <2>6. /\ Offered(queue[c], i) \in Seq(Nat)
        /\ StreamOK(Due(c) \union {i}, read[c], Offered(queue[c], i),
                    IF Len(queue[c]) = QueueSize THEN dropped[c] + 1 ELSE dropped[c])
    BY <1>2, <2>1, <2>2, <2>3, OfferOK
  <2> QED  BY <2>4, <2>5, <2>6
<1>4. ASSUME NEW c \in Streams, c \notin to
      PROVE  queue'[c] = queue[c] /\ dropped'[c] = dropped[c] /\ Served(c)'
  <2>1. queue'[c] = queue[c] /\ dropped'[c] = dropped[c]
    BY <1>1, <1>4
  <2>2. state[c] = "open" => t \notin Wanted[c]
    BY <1>4 DEF Open
  <2>3. since[c] <= Len(log) /\ Served(c)
    BY DEF BusInv
  <2>4. state[c] = "open" => Due(c)' = Due(c)
    BY <1>1, <1>2, <2>2, <2>3, DueGrows
  <2>5. state'[c] = state[c] /\ read'[c] = read[c]
    BY <1>1
  <2> QED  BY <2>1, <2>3, <2>4, <2>5 DEF Served
<1>5. BusTypes'
  <2>1. log' \in Seq(Topics) /\ replay' \in Seq(Nat)
    <3>1. log \in Seq(Topics) /\ replay \in Seq(Nat) /\ ReplaySize \in Nat
      BY <1>2, BusAssumption DEF BusTypes
    <3>2. Append(replay, i) \in Seq(Nat)
      BY <1>2, <3>1
    <3>3. replay # <<>> => Append(Tail(replay), i) \in Seq(Nat)
      BY <1>2, <3>1
    <3>4. replay = <<>> /\ ReplaySize # 0 => Len(replay) < ReplaySize
      BY <3>1
    <3> QED  BY <1>1, <3>1, <3>2, <3>3, <3>4
  <2>2. \A c \in Streams : queue'[c] \in Seq(Nat)
    BY <1>2, <1>3, <1>4 DEF BusTypes
  <2>3. queue' = [c \in Streams |-> queue'[c]]
    BY <1>1
  <2>4. queue' \in [Streams -> Seq(Nat)]
    BY <2>2, <2>3
  <2>5. dropped' \in [Streams -> Nat]
    BY <1>1, <1>2 DEF BusTypes
  <2> QED  BY <1>1, <1>2, <2>1, <2>4, <2>5 DEF BusTypes
<1>6. ReplayIsNewest'
  <2> DEFINE n == Len(replay)
             N == Len(log)
             p == replay'
  <2>0. Len(log') = N + 1
    BY <1>2 DEF i
  <2>1. /\ n \in Nat /\ N \in Nat /\ ReplaySize \in Nat /\ i = N + 1
        /\ n = (IF N < ReplaySize THEN N ELSE ReplaySize)
        /\ \A k \in 1..n : replay[k] = N - n + k
    <3>1. n \in Nat /\ N \in Nat /\ ReplaySize \in Nat /\ i = N + 1
      BY <1>2, BusAssumption DEF BusTypes, i
    <3>2. /\ n = (IF N < ReplaySize THEN N ELSE ReplaySize)
          /\ \A k \in 1..n : replay[k] = N - n + k
      BY DEF BusInv, ReplayIsNewest
    <3> QED  BY <3>1, <3>2
  <2>2. CASE n < ReplaySize
    <3>1. p = Append(replay, i)
      BY <1>1, <2>2
    <3>2. Len(p) = n + 1 /\ p[n + 1] = i /\ \A k \in 1..n : p[k] = replay[k]
      BY <1>2, <3>1 DEF BusTypes
    <3>3. n = N /\ N + 1 <= ReplaySize
      BY <2>1, <2>2
    <3> HIDE DEF n, N, p
    <3>4. Len(p) = IF N + 1 < ReplaySize THEN N + 1 ELSE ReplaySize
      BY <2>1, <3>2, <3>3
    <3>5. \A k \in 1..Len(p) : p[k] = (N + 1) - Len(p) + k
      BY <2>1, <3>2, <3>3
    <3> HIDE DEF i
    <3> QED  BY <2>0, <3>4, <3>5 DEF ReplayIsNewest, p
  <2>3. CASE ReplaySize = 0
    <3>1. p = replay /\ n = 0
      BY <1>1, <2>1, <2>3
    <3> QED  BY <1>2, <2>1, <2>3, <3>1 DEF ReplayIsNewest
  <2>4. CASE n = ReplaySize /\ ReplaySize # 0
    <3>1. p = Append(Tail(replay), i)
      BY <1>1, <2>1, <2>4
    <3>2. replay # <<>>
      BY <2>4
    <3>3. /\ Len(p) = n /\ p[n] = i
          /\ \A k \in 1..(n - 1) : p[k] = replay[k + 1]
      BY <1>2, <2>1, <3>1, <3>2 DEF BusTypes
    <3>4. N >= ReplaySize /\ n \in Nat \ {0}
      BY <2>1, <2>4
    <3> HIDE DEF n, N, p
    <3>5. Len(p) = IF N + 1 < ReplaySize THEN N + 1 ELSE ReplaySize
      BY <2>1, <2>4, <3>3, <3>4
    <3>6. ASSUME NEW k \in 1..Len(p) PROVE p[k] = (N + 1) - Len(p) + k
      <4>1. CASE k = n
        BY <2>1, <3>3, <4>1
      <4>2. CASE k \in 1..(n - 1)
        <5>1. k + 1 \in 1..n
          BY <2>1, <4>2
        <5> QED  BY <2>1, <3>3, <4>2, <5>1
      <4> QED  BY <2>1, <3>3, <3>4, <4>1, <4>2
    <3> QED  BY <2>0, <3>5, <3>6 DEF ReplayIsNewest, p
  <2> QED  BY <2>1, <2>2, <2>3, <2>4
<1>7. ASSUME NEW c \in Streams
      PROVE  since'[c] <= Len(log') /\ Untouched(c)' /\ Served(c)'
  <2>1. since'[c] <= Len(log')
    BY <1>1, <1>2 DEF BusInv, BusTypes, i
  <2>2. Untouched(c)'
    BY <1>1, <1>4 DEF BusInv, Untouched, Open
  <2>3. Served(c)'
    BY <1>3, <1>4 DEF Served
  <2> QED  BY <2>1, <2>2, <2>3
<1> QED  BY <1>5, <1>6, <1>7 DEF BusInv

\* A new stream is given all it is due.
LEMMA SubscribeServes ==
  ASSUME BusInv, NEW c \in Streams, Subscribe(c)
  PROVE  BusInv'
<1>1. /\ state[c] = "new"
      /\ state' = [state EXCEPT ![c] = "open"]
      /\ queue' = [queue EXCEPT ![c] = Replayed(c)]
      /\ since' = [since EXCEPT ![c] = Len(log)]
      /\ log' = log /\ replay' = replay /\ dropped' = dropped /\ read' = read
  BY DEF Subscribe
<1>2. BusTypes /\ ReplayIsNewest
  BY DEF BusInv
<1>3. /\ Replayed(c) \in Seq(Nat) /\ Rising(Replayed(c))
      /\ ToSet(Replayed(c)) =
           {i \in 1..Len(log) : i > Len(log) - ReplaySize /\ log[i] \in Wanted[c]}
  BY <1>2, ReplayedIsDue
<1>4. BusTypes'
  BY <1>1, <1>2, <1>3 DEF BusTypes
<1>5. ReplayIsNewest'
  BY <1>1, <1>2 DEF ReplayIsNewest
<1>6. since'[c] <= Len(log') /\ Untouched(c)' /\ Served(c)'
  <2>1. since'[c] = Len(log) /\ queue'[c] = Replayed(c) /\ state'[c] = "open"
    BY <1>1, <1>2 DEF BusTypes
  <2>2. Len(log) \in Nat
    BY <1>2 DEF BusTypes
  <2>3. read[c] = <<>> /\ dropped[c] = 0
    BY <1>1 DEF BusInv, Untouched
  <2>4. Due(c)' = ToSet(Replayed(c))
    BY <1>1, <1>3, <2>1 DEF Due
  <2>5. StreamOK(Due(c)', <<>>, Replayed(c), 0)
    BY <1>3, <2>4, StartOK
  <2>6. StreamOK(Due(c)', read'[c], queue'[c], dropped'[c])
    BY <1>1, <2>1, <2>3, <2>5
  <2> QED  BY <1>1, <2>1, <2>2, <2>6 DEF Untouched, Served
<1>7. ASSUME NEW u \in Streams, u # c
      PROVE  since'[u] <= Len(log') /\ Untouched(u)' /\ Served(u)'
  <2>1. since'[u] = since[u] /\ queue'[u] = queue[u] /\ state'[u] = state[u]
    BY <1>1, <1>2, <1>7 DEF BusTypes
  <2>2. Due(u)' = Due(u)
    BY <1>1, <2>1 DEF Due
  <2> QED  BY <1>1, <2>1, <2>2 DEF BusInv, Untouched, Served
<1> QED  BY <1>4, <1>5, <1>6, <1>7 DEF BusInv

\* A stream that reads loses nothing.
LEMMA TakeServes ==
  ASSUME BusInv, NEW c \in Streams, Take(c)
  PROVE  BusInv'
<1>1. /\ state[c] = "open" /\ queue[c] # <<>>
      /\ queue' = [queue EXCEPT ![c] = Tail(queue[c])]
      /\ read' = [read EXCEPT ![c] = Append(read[c], Head(queue[c]))]
      /\ log' = log /\ replay' = replay /\ state' = state /\ dropped' = dropped
      /\ since' = since
  BY DEF Take, Open
<1>2. BusTypes /\ ReplayIsNewest
  BY DEF BusInv
<1>3. read[c] \in Seq(Nat) /\ queue[c] \in Seq(Nat) /\ dropped[c] \in Nat
  BY <1>2 DEF BusTypes
<1>4. Head(queue[c]) \in Nat /\ Tail(queue[c]) \in Seq(Nat)
  BY <1>1, <1>3, HeadAndTail
<1>5. BusTypes'
  BY <1>1, <1>2, <1>3, <1>4 DEF BusTypes
<1>6. ReplayIsNewest'
  BY <1>1, <1>2 DEF ReplayIsNewest
<1>7. \A u \in Streams : Due(u)' = Due(u)
  BY <1>1 DEF Due
<1>8. Served(c)'
  <2>1. StreamOK(Due(c), read[c], queue[c], dropped[c])
    BY <1>1 DEF BusInv, Served
  <2>2. StreamOK(Due(c), Append(read[c], Head(queue[c])), Tail(queue[c]), dropped[c])
    BY <1>1, <1>3, <2>1, TakeOK
  <2>3. /\ read'[c] = Append(read[c], Head(queue[c]))
        /\ queue'[c] = Tail(queue[c])
    BY <1>1, <1>2 DEF BusTypes
  <2> QED  BY <1>1, <1>7, <2>2, <2>3 DEF Served
<1>9. ASSUME NEW u \in Streams
      PROVE  since'[u] <= Len(log') /\ Untouched(u)' /\ Served(u)'
  <2>1. u # c => queue'[u] = queue[u] /\ read'[u] = read[u]
    BY <1>1, <1>2 DEF BusTypes
  <2>2. Untouched(u)' /\ since'[u] <= Len(log')
    BY <1>1, <2>1 DEF BusInv, Untouched
  <2>3. u # c => Served(u)'
    BY <1>1, <1>7, <2>1 DEF BusInv, Served
  <2> QED  BY <1>8, <2>2, <2>3
<1> QED  BY <1>5, <1>6, <1>9 DEF BusInv

\* A stream that ends, or never begins, is owed nothing any more.
LEMMA EndServes ==
  ASSUME BusInv, NEW c \in Streams, Refuse(c) \/ Close(c)
  PROVE  BusInv'
<1>1. PICK s \in {"refused", "closed"} : state' = [state EXCEPT ![c] = s]
  BY DEF Refuse, Close
<1>2. /\ queue' = queue \/ queue' = [queue EXCEPT ![c] = <<>>]
      /\ log' = log /\ replay' = replay /\ dropped' = dropped /\ since' = since
      /\ read' = read
  BY DEF Refuse, Close
<1>3. BusTypes /\ ReplayIsNewest
  BY DEF BusInv
<1>4. BusTypes'
  <2>1. queue' \in [Streams -> Seq(Nat)]
    <3>1. queue \in [Streams -> Seq(Nat)] /\ <<>> \in Seq(Nat)
      BY <1>3 DEF BusTypes
    <3>2. [queue EXCEPT ![c] = <<>>] \in [Streams -> Seq(Nat)]
      BY <3>1
    <3> QED  BY <1>2, <3>1, <3>2
  <2>2. state' \in [Streams -> {"new", "open", "refused", "closed"}]
    BY <1>1, <1>3 DEF BusTypes
  <2> QED  BY <1>2, <1>3, <2>1, <2>2 DEF BusTypes
<1>5. ReplayIsNewest'
  BY <1>2, <1>3 DEF ReplayIsNewest
<1>6. \A u \in Streams : Due(u)' = Due(u)
  BY <1>2 DEF Due
<1>7. ASSUME NEW u \in Streams
      PROVE  since'[u] <= Len(log') /\ Untouched(u)' /\ Served(u)'
  <2>1. /\ u = c => state'[u] \in {"refused", "closed"}
        /\ u # c => state'[u] = state[u]
    BY <1>1, <1>3 DEF BusTypes
  <2>2. u # c => queue'[u] = queue[u]
    BY <1>2, <1>3 DEF BusTypes
  <2> QED  BY <1>2, <1>6, <2>1, <2>2 DEF BusInv, Untouched, Served
<1> QED  BY <1>4, <1>5, <1>7 DEF BusInv

\* Every state keeps the promise to every open stream.
LEMMA BusStays == Spec => []BusInv
<1>1. Init => BusInv
  <2> SUFFICES ASSUME Init PROVE BusInv
    OBVIOUS
  <2>1. Len(log) = 0 /\ Len(replay) = 0
    BY DEF Init
  <2>2. BusTypes
    BY DEF Init, BusTypes
  <2>3. ReplayIsNewest
    BY <2>1, BusAssumption DEF ReplayIsNewest
  <2>4. \A c \in Streams : since[c] <= Len(log) /\ Untouched(c) /\ Served(c)
    BY <2>1 DEF Init, Untouched, Served
  <2> QED  BY <2>2, <2>3, <2>4 DEF BusInv
<1>2. BusInv /\ [Next]_vars => BusInv'
  <2> SUFFICES ASSUME BusInv, [Next]_vars PROVE BusInv'
    OBVIOUS
  <2>1. ASSUME NEW t \in Topics, Broadcast(t) PROVE BusInv'
    BY <2>1, BroadcastServes
  <2>2. ASSUME NEW c \in Streams, Subscribe(c) PROVE BusInv'
    BY <2>2, SubscribeServes
  <2>3. ASSUME NEW c \in Streams, Take(c) PROVE BusInv'
    BY <2>3, TakeServes
  <2>4. ASSUME NEW c \in Streams, Refuse(c) \/ Close(c) PROVE BusInv'
    BY <2>4, EndServes
  <2>5. CASE UNCHANGED vars
    BY <2>5 DEF vars, BusInv, BusTypes, ReplayIsNewest, Untouched, Served, Due
  <2> QED  BY <2>1, <2>2, <2>3, <2>4, <2>5 DEF Next
<1> QED  BY <1>1, <1>2, PTL DEF Spec

\* OldestLost: every open stream reads what it is due in the order of the broadcasts
\* and nothing twice, and has lost only what is older than all its queue holds.
THEOREM OldestAreLost == Spec => []OldestLost
<1>1. BusInv => OldestLost
  <2> SUFFICES ASSUME BusInv, NEW c \in Open
               PROVE  /\ Rising(read[c] \o queue[c])
                      /\ ToSet(read[c] \o queue[c]) \subseteq Due(c)
                      /\ \A i \in Due(c) \ (ToSet(read[c]) \union ToSet(queue[c])),
                            j \in ToSet(queue[c]) : i < j
    BY DEF OldestLost
  <2>1. StreamOK(Due(c), read[c], queue[c], dropped[c])
    BY DEF BusInv, Served, Open
  <2> QED  BY <2>1 DEF StreamOK
<1> QED  BY <1>1, BusStays, PTL

\* LossesCounted: what an open stream is due, it has read, still has in its queue
\* or has been counted as dropped.
THEOREM LossesAreCounted == Spec => []LossesCounted
<1>1. BusInv => LossesCounted
  <2> SUFFICES ASSUME BusInv, NEW c \in Open
               PROVE  Cardinality(Due(c)) = Len(read[c]) + Len(queue[c]) + dropped[c]
    BY DEF LossesCounted
  <2>1. StreamOK(Due(c), read[c], queue[c], dropped[c])
    BY DEF BusInv, Served, Open
  <2> QED  BY <2>1 DEF StreamOK
<1> QED  BY <1>1, BusStays, PTL
=============================================================================
