--------------------------- MODULE FlowMemoryProofs ---------------------------
(***************************************************************************)
(* Proofs about the two memories that the decision flow keeps between      *)
(* requests: the idempotency cache, for any finite set of request ids, any *)
(* responses and any positive size; and the memory of the anti-bypass      *)
(* guard, for any finite set of attempts, any effects that have no         *)
(* capability twice, any likenesses, any settings, any time to live and    *)
(* any number of records.                                                  *)
(***************************************************************************)
EXTENDS IdempotencyCache, AntiBypassMemory, FiniteSetTheorems, WellFoundedInduction, TLAPS

-----------------------------------------------------------------------------
(* The idempotency cache. *)

TotalOrder ==
  /\ \A j, k \in Stored : j # k => (<<j, k>> \in before <=> <<k, j>> \notin before)
  /\ \A i, j, k \in Stored :
       <<i, j>> \in before /\ <<j, k>> \in before => <<i, k>> \in before
  /\ \A k \in Stored : <<k, k>> \notin before

CacheInv == CacheTypeOK /\ Cardinality(Stored) <= MaxSize /\ TotalOrder

Below(k) == {j \in Stored : <<j, k>> \in before}

\* The dict of a cache that is not empty has a first key: one whose set of
\* earlier keys is minimal.
LEMMA OldestExists ==
  ASSUME CacheInv, Stored # {}
  PROVE  /\ Oldest \in Stored
         /\ \A j \in Stored \ {Oldest} : <<Oldest, j>> \in before
<1>1. IsFiniteSet(Stored)
  BY CacheAssumption, FS_Subset DEF Stored
<1> DEFINE T == {Below(k) : k \in Stored}
<1>2. T \subseteq FiniteSubsetsOf(Stored) /\ T # {}
  <2>1. \A k \in Stored : Below(k) \subseteq Stored
    BY DEF Below
  <2>2. \A k \in Stored : IsFiniteSet(Below(k))
    BY <1>1, <2>1, FS_Subset
  <2> QED BY <2>1, <2>2 DEF FiniteSubsetsOf
<1>3. PICK U \in T : \A V \in T : <<V, U>> \notin StrictSubsetOrdering(Stored)
  BY <1>2, FS_StrictSubsetOrderingWellFounded, WFMin
<1>4. PICK k \in Stored : U = Below(k)
  BY <1>3
<1>5. ASSUME NEW j \in Stored, <<j, k>> \in before PROVE FALSE
  <2>1. Below(j) \subseteq Below(k)
    BY <1>5 DEF Below, CacheInv, TotalOrder
  <2>2. j \in Below(k) /\ j \notin Below(j)
    BY <1>5 DEF Below, CacheInv, TotalOrder
  <2>3. Below(j) \in SUBSET Stored /\ Below(k) \in SUBSET Stored
    BY DEF Below
  <2>4. <<Below(j), Below(k)>> \in StrictSubsetOrdering(Stored)
    BY <2>1, <2>2, <2>3 DEF StrictSubsetOrdering
  <2> QED BY <1>3, <1>4, <2>4
<1>6. \A j \in Stored \ {k} : <<k, j>> \in before
  BY <1>5 DEF CacheInv, TotalOrder
<1> QED BY <1>6 DEF Oldest

\* The empty cache satisfies the invariant.
THEOREM InitCacheInv == CacheInit => CacheInv
<1> SUFFICES ASSUME CacheInit PROVE CacheInv
  OBVIOUS
<1>1. Stored = {}
  BY DEF CacheInit, Stored
<1>2. CacheTypeOK
  BY <1>1 DEF CacheInit, CacheTypeOK
<1>3. Cardinality(Stored) <= MaxSize
  BY <1>1, FS_EmptySet, CacheAssumption
<1> QED BY <1>1, <1>2, <1>3 DEF CacheInv, TotalOrder

\* Deleting keys keeps the invariant.
LEMMA DeleteStep ==
  ASSUME CacheInv, NEW gone, Delete(gone)
  PROVE  CacheInv' /\ Stored' = Stored \ gone
<1> USE DEF CacheInv
<1>1. Stored' = Stored \ gone
  BY DEF Delete, Stored, CacheTypeOK
<1>2. CacheTypeOK'
  <2>1. store' \in [Keys -> Responses \union {NoResponse}]
    BY DEF Delete, CacheTypeOK
  <2>2. before' \subseteq Stored' \X Stored' /\ stale' \subseteq Stored'
    BY <1>1 DEF Delete, CacheTypeOK
  <2> QED BY <2>1, <2>2 DEF CacheTypeOK
<1>3. Cardinality(Stored') <= MaxSize
  <2>1. IsFiniteSet(Stored)
    BY CacheAssumption, FS_Subset DEF Stored
  <2>2. /\ Cardinality(Stored') <= Cardinality(Stored)
        /\ Cardinality(Stored') \in Nat /\ Cardinality(Stored) \in Nat
    BY <1>1, <2>1, FS_Subset, FS_CardinalityType
  <2> QED BY <2>2, CacheAssumption
<1>4. TotalOrder'
  BY <1>1 DEF TotalOrder, Delete
<1> QED BY <1>1, <1>2, <1>3, <1>4

\* Inserting a key, with room for it, keeps the invariant.
LEMMA InsertStep ==
  ASSUME CacheInv, NEW k \in Keys, NEW r \in Responses, NEW gone \in SUBSET Stored,
         Insert(k, r, gone), Cardinality(Stored \ gone) < MaxSize
  PROVE  CacheInv' /\ Stored' = (Stored \ gone) \union {k}
<1> USE DEF CacheInv
<1>1. Stored' = (Stored \ gone) \union {k}
  BY CacheAssumption DEF Insert, Stored, CacheTypeOK
<1>2. CacheTypeOK'
  <2>1. store' \in [Keys -> Responses \union {NoResponse}]
    BY DEF Insert, CacheTypeOK
  <2>2. before' \subseteq Stored' \X Stored' /\ stale' \subseteq Stored'
    BY <1>1 DEF Insert, CacheTypeOK
  <2> QED BY <2>1, <2>2 DEF CacheTypeOK
<1>3. Cardinality(Stored') <= MaxSize
  <2>1. IsFiniteSet(Stored \ gone)
    BY CacheAssumption, FS_Subset DEF Stored
  <2>2. Cardinality(Stored \ gone) \in Nat
    BY <2>1, FS_CardinalityType
  <2>3. Cardinality(Stored') \in {Cardinality(Stored \ gone), Cardinality(Stored \ gone) + 1}
    BY <1>1, <2>1, FS_AddElement
  <2> QED BY <2>2, <2>3, CacheAssumption
<1>4. TotalOrder'
  <2> DEFINE kept == Stored \ gone
  <2>1. \A i, j \in Stored' : <<i, j>> \in before' <=>
          \/ i \in kept /\ j \in kept /\ <<i, j>> \in before
          \/ k \notin kept /\ i \in kept /\ j = k
    <3>1. PICK news : /\ news = {<<j, k>> : j \in IF k \in kept THEN {} ELSE kept}
                      /\ before' = {p \in before : p[1] \notin gone /\ p[2] \notin gone}
                                     \union news
      BY DEF Insert
    <3>2. \A i, j : <<i, j>> \in news <=> k \notin kept /\ i \in kept /\ j = k
      BY <3>1
    <3>3. \A i, j \in Stored' : <<i, j>> \in before => i \in Stored /\ j \in Stored
      BY DEF CacheTypeOK
    <3>4. \A i, j : <<i, j>> \in before' <=>
            \/ <<i, j>> \in before /\ i \notin gone /\ j \notin gone
            \/ <<i, j>> \in news
      <4> SUFFICES ASSUME NEW i, NEW j
                   PROVE  <<i, j>> \in before' <=>
                            \/ <<i, j>> \in before /\ i \notin gone /\ j \notin gone
                            \/ <<i, j>> \in news
        OBVIOUS
      <4>1. <<i, j>>[1] = i /\ <<i, j>>[2] = j
        OBVIOUS
      <4>2. <<i, j>> \in {p \in before : p[1] \notin gone /\ p[2] \notin gone} <=>
              <<i, j>> \in before /\ i \notin gone /\ j \notin gone
        BY <4>1
      <4> QED BY <3>1, <4>2
    <3> HIDE DEF kept
    <3>5. kept = Stored \ gone
      BY DEF kept
    <3> QED BY <3>2, <3>3, <3>4, <3>5
  <2>2. kept \subseteq Stored /\ Stored' = kept \union {k}
    BY <1>1
  <2> HIDE DEF kept
  <2>3. ASSUME NEW i \in Stored', NEW j \in Stored', i # j
        PROVE  <<i, j>> \in before' <=> <<j, i>> \notin before'
    <3>1. CASE i \in kept /\ j \in kept
      BY <2>1, <2>2, <2>3, <3>1 DEF TotalOrder
    <3>2. CASE ~(i \in kept /\ j \in kept)
      BY <2>1, <2>2, <2>3, <3>2
    <3> QED BY <3>1, <3>2
  <2>4. \A h, i, j \in Stored' :
          <<h, i>> \in before' /\ <<i, j>> \in before' => <<h, j>> \in before'
    BY <2>1, <2>2 DEF TotalOrder
  <2>5. \A i \in Stored' : <<i, i>> \notin before'
    BY <2>1, <2>2 DEF TotalOrder
  <2> QED BY <2>3, <2>4, <2>5 DEF TotalOrder
<1> QED BY <1>1, <1>2, <1>3, <1>4

\* What a put that stores deletes first leaves room for it.
LEMMA PutMakesRoom ==
  ASSUME CacheInv, NEW gone,
         gone = IF Cardinality(Stored) >= MaxSize THEN {Oldest} ELSE {}
  PROVE  gone \in SUBSET Stored /\ Cardinality(Stored \ gone) < MaxSize
<1>1. IsFiniteSet(Stored)
  BY CacheAssumption, FS_Subset DEF Stored
<1>2. Cardinality(Stored) \in Nat
  BY <1>1, FS_CardinalityType
<1>3. CASE Cardinality(Stored) >= MaxSize
  <2>1. Stored # {}
    BY <1>3, FS_EmptySet, CacheAssumption
  <2>2. Oldest \in Stored
    BY <2>1, OldestExists
  <2>3. Cardinality(Stored \ {Oldest}) = Cardinality(Stored) - 1
    BY <1>1, <2>2, FS_RemoveElement
  <2>4. gone = {Oldest} /\ Cardinality(Stored) <= MaxSize
    BY <1>3 DEF CacheInv
  <2>5. Cardinality(Stored) - 1 < MaxSize
    BY <1>2, <2>4, CacheAssumption
  <2>6. Cardinality(Stored \ gone) < MaxSize
    BY <2>3, <2>4, <2>5
  <2> QED BY <2>2, <2>4, <2>6
<1>4. CASE ~(Cardinality(Stored) >= MaxSize)
  BY <1>2, <1>4, CacheAssumption
<1> QED BY <1>3, <1>4

\* Every operation of the cache keeps it.
THEOREM NextCacheInv == CacheInv /\ [CacheNext]_cachevars => CacheInv'
<1> SUFFICES ASSUME CacheInv, [CacheNext]_cachevars PROVE CacheInv'
  OBVIOUS
<1>1. CASE UNCHANGED cachevars
  <2>1. Stored' = Stored /\ UNCHANGED <<store, before, stale>>
    BY <1>1 DEF cachevars, Stored
  <2>2. CacheTypeOK' /\ TotalOrder'
    BY <2>1 DEF CacheInv, CacheTypeOK, TotalOrder
  <2> QED BY <2>1, <2>2 DEF CacheInv
<1>2. ASSUME NEW k \in Keys, Get(k) PROVE CacheInv'
  BY <1>1, <1>2, DeleteStep DEF Get
<1>3. ASSUME NEW k \in Keys, Expire(k) PROVE CacheInv'
  <2>1. Stored' = Stored /\ UNCHANGED <<store, before>> /\ k \in Stored
    BY <1>3 DEF Expire, Fresh, Stored
  <2>2. stale' = stale \union {k}
    BY <1>3 DEF Expire
  <2>3. CacheTypeOK' /\ TotalOrder'
    BY <2>1, <2>2 DEF CacheInv, CacheTypeOK, TotalOrder
  <2> QED BY <2>1, <2>3 DEF CacheInv
<1>4. ASSUME NEW k \in Keys, NEW r \in Responses, Put(k, r) PROVE CacheInv'
  <2>1. CASE Fresh(k)
    BY <1>1, <1>4, <2>1 DEF Put
  <2>2. CASE ~Fresh(k)
    BY <1>4, <2>2, PutMakesRoom, InsertStep DEF Put
  <2> QED BY <2>1, <2>2
<1>5. CASE Cleanup
  BY <1>5, DeleteStep DEF Cleanup
<1> QED BY <1>1, <1>2, <1>3, <1>4, <1>5 DEF CacheNext

\* The invariant holds throughout.
THEOREM CacheInductive == CacheSpec => []CacheInv
BY InitCacheInv, NextCacheInv, PTL DEF CacheSpec

\* Every reachable state of the cache is well typed.
THEOREM CacheTypeInvariant == CacheSpec => []CacheTypeOK
<1>1. CacheInv => CacheTypeOK
  BY DEF CacheInv
<1> QED BY <1>1, CacheInductive, PTL

\* For any size, the cache never outgrows it and its order stays total on the
\* stored keys.
THEOREM CacheStaysBounded == CacheSpec => []CacheBounded
<1>1. CacheInv => CacheBounded
  BY DEF CacheInv, TotalOrder, CacheBounded
<1> QED BY <1>1, CacheInductive, PTL

\* A valid entry is never replaced by another response.
THEOREM FirstStands == CacheSpec => FirstResponseStands
<1>1. CacheInv /\ [CacheNext]_cachevars =>
        [\A k \in Keys : Fresh(k) /\ Fresh(k)' => store'[k] = store[k]]_cachevars
  <2> SUFFICES ASSUME CacheInv, CacheNext, NEW k \in Keys, Fresh(k), Fresh(k)'
               PROVE  store'[k] = store[k]
    OBVIOUS
  <2>1. ASSUME NEW gone, Delete(gone) PROVE store'[k] = store[k]
    BY <2>1 DEF Delete, Fresh
  <2>2. CASE UNCHANGED store
    BY <2>2
  <2>3. ASSUME NEW j \in Keys, NEW r \in Responses, Put(j, r)
        PROVE  store'[k] = store[k]
    BY <2>3 DEF Put, Insert, Fresh, cachevars
  <2> QED BY <2>1, <2>2, <2>3 DEF CacheNext, Get, Expire, Cleanup, cachevars
<1> QED BY <1>1, CacheInductive, PTL DEF FirstResponseStands, CacheSpec

\* A valid entry goes only from a full cache, and only as its oldest key.
THEOREM ValidKept == CacheSpec => ValidEntriesKept
<1>1. CacheInv /\ [CacheNext]_cachevars =>
        [\A k \in Keys :
           Fresh(k) /\ store'[k] = NoResponse =>
             /\ Cardinality(Stored) = MaxSize
             /\ \A j \in Stored \ {k} : <<k, j>> \in before]_cachevars
  <2> SUFFICES ASSUME CacheInv, CacheNext, NEW k \in Keys, Fresh(k),
                      store'[k] = NoResponse
               PROVE  /\ Cardinality(Stored) = MaxSize
                      /\ \A j \in Stored \ {k} : <<k, j>> \in before
    OBVIOUS
  <2>1. k \notin stale /\ store[k] # NoResponse /\ k \in Stored
    BY DEF Fresh, Stored
  <2>2. ~ UNCHANGED store
    BY <2>1
  <2>3. ~ (\E gone \in SUBSET stale : Delete(gone))
    BY <2>1 DEF Delete
  <2>4. PICK j \in Keys, r \in Responses : Put(j, r) /\ ~Fresh(j)
    <3>1. \A j \in Keys : Get(j) => (Delete({j}) /\ j \in stale) \/ UNCHANGED store
      BY DEF Get, cachevars
    <3> QED BY <2>2, <2>3, <3>1 DEF CacheNext, Expire, Cleanup, Put, cachevars
  <2>5. Cardinality(Stored) >= MaxSize /\ k = Oldest
    BY <2>1, <2>4, CacheAssumption DEF Put, Insert, Fresh
  <2>6. Cardinality(Stored) \in Nat
    BY CacheAssumption, FS_Subset, FS_CardinalityType DEF Stored
  <2> QED BY <2>1, <2>5, <2>6, OldestExists, CacheAssumption DEF CacheInv
<1> QED BY <1>1, CacheInductive, PTL DEF ValidEntriesKept, CacheSpec

-----------------------------------------------------------------------------
(* What is remembered of attempts: the deques. *)

\* A record of an effect.
IsRecord(r) ==
  /\ r = [of |-> r.of, capability |-> r.capability, high |-> r.high, left |-> r.left,
           on |-> r.on]
  /\ r.of \in Attempts /\ r.left \in Nat /\ r.on \in {"decision", "answer"}

\* The deques of effects are sequences of the records in D and in H.
DequesOver(m, D, H) ==
  /\ m = [k \in Kinds |-> m[k]]
  /\ m["denied"] \in Seq(D) /\ m["held"] \in Seq(H)

\* The records that an attempt leaves.
Made(a, high, on) == Range(EffectRecords(a, high, on))

\* The larger of two numbers is one of them, and no smaller than zero if that is
\* the other.
LEMMA MaxOfTwo ==
  ASSUME NEW i \in Int, NEW j \in Int
  PROVE  /\ Max({i, j}) \in {i, j} /\ Max({i, j}) >= i /\ Max({i, j}) >= j
<1>1. \E x \in {i, j} : \A y \in {i, j} : x >= y
  <2>1. CASE i >= j
    <3>1. \A y \in {i, j} : i >= y
      BY <2>1
    <3> QED  BY <3>1
  <2>2. CASE ~(i >= j)
    <3>1. \A y \in {i, j} : j >= y
      BY <2>2
    <3> QED  BY <3>1
  <2> QED  BY <2>1, <2>2
<1> QED  BY <1>1 DEF Max

\* A set of numbers has a least one.
LEMMA LeastBelow ==
  ASSUME NEW T \in SUBSET Nat, T # {}
  PROVE  Min(T) \in T /\ \A y \in T : Min(T) <= y
<1> DEFINE R == OpToRel(<, Nat)
<1>1. IsWellFoundedOn(R, Nat)
  BY NatLessThanWellFounded
<1>2. \A x, y \in Nat : <<y, x>> \in R <=> y < x
  BY DEF OpToRel
<1> HIDE DEF R
<1>3. PICK x \in T : \A y \in T : ~ (<<y, x>> \in R)
  BY <1>1, WFMin
<1>4. \A y \in T : ~ (y < x)
  BY <1>2, <1>3
<1>5. \A y \in T : x <= y
  BY <1>4
<1> QED  BY <1>5 DEF Min

\* A sequence over a set is one over its own members, which are in the set.
LEMMA OwnMembers ==
  ASSUME NEW S, NEW s \in Seq(S)
  PROVE  /\ s \in Seq(Range(s)) /\ Range(s) \subseteq S
         /\ DOMAIN s = 1..Len(s) /\ Len(s) \in Nat
<1>1. /\ DOMAIN s = 1..Len(s) /\ Len(s) \in Nat
      /\ \A i \in DOMAIN s : s[i] \in S
  OBVIOUS
<1>2. \A i \in DOMAIN s : s[i] \in Range(s)
  BY DEF Range
<1>3. s \in Seq(Range(s))
  BY <1>1, <1>2
<1>4. Range(s) \subseteq S
  BY <1>1 DEF Range
<1> QED  BY <1>1, <1>3, <1>4

\* The end of a sequence.
LEMMA EndOf ==
  ASSUME NEW S, NEW s \in Seq(S), NEW i \in 1..(Len(s) + 1)
  PROVE  SubSeq(s, i, Len(s)) \in Seq(S)
OBVIOUS

\* Keeping a deque within its size drops records and adds none.
LEMMA CappedIs ==
  ASSUME NEW S, NEW s \in Seq(S)
  PROVE  Capped(s) \in Seq(S)
<1> DEFINE low == Max({0, Len(s) - MaxRecords})
<1>1. /\ Len(s) \in Nat /\ MaxRecords \in Nat \ {0}
      /\ 0 \in Int /\ Len(s) - MaxRecords \in Int
  BY BypassAssumption
<1>2. low \in {0, Len(s) - MaxRecords} /\ low >= 0
  BY <1>1, MaxOfTwo
<1>3. low + 1 \in 1..(Len(s) + 1)
  BY <1>1, <1>2
<1> HIDE DEF low
<1>4. SubSeq(s, low + 1, Len(s)) \in Seq(S)
  BY <1>3, EndOf
<1> QED  BY <1>4 DEF Capped, low

\* So does dropping what has expired.
LEMMA EvictedIs ==
  ASSUME NEW m, NEW k \in Kinds, NEW S, m[k] \in Seq(S)
  PROVE  Evicted(m)[k] \in Seq(S)
<1> DEFINE s == m[k]
           live == {i \in DOMAIN s : s[i].left > 0}
<1>1. Evicted(m)[k] = IF live = {} THEN <<>> ELSE SubSeq(s, Min(live), Len(s))
  BY DEF Evicted
<1>2. DOMAIN s = 1..Len(s) /\ Len(s) \in Nat
  OBVIOUS
<1>3. live \in SUBSET Nat /\ live \subseteq 1..Len(s)
  BY <1>2
<1>4. CASE live = {}
  BY <1>1, <1>4
<1>5. CASE live # {}
  <2>1. Min(live) \in live
    BY <1>3, <1>5, LeastBelow
  <2>2. Min(live) \in 1..(Len(s) + 1)
    BY <1>2, <1>3, <2>1
  <2>3. s \in Seq(S)
    OBVIOUS
  <2> HIDE DEF live, s
  <2>4. SubSeq(s, Min(live), Len(s)) \in Seq(S)
    BY <2>2, <2>3, EndOf
  <2> QED  BY <1>1, <1>5, <2>4
<1> QED  BY <1>4, <1>5

\* An attempt leaves one record for each of its capabilities, or none.
LEMMA MadeIs ==
  ASSUME NEW a \in Attempts, NEW high, NEW on \in {"decision", "answer"}
  PROVE  /\ EffectRecords(a, high, on) \in Seq(Made(a, high, on))
         /\ \A r \in Made(a, high, on) :
              IsRecord(r) /\ r.of = a /\ r.left = TTL /\ r.on = on /\ Memorable(a)
<1> DEFINE caps == Effect[a].capabilities
           Rec(c) == [of |-> a, capability |-> c, high |-> high, left |-> TTL,
                       on |-> on]
           recs == [i \in DOMAIN caps |-> Rec(caps[i])]
<1>1. caps \in Seq(STRING)
  BY BypassAssumption
<1>2. DOMAIN caps = 1..Len(caps) /\ Len(caps) \in Nat
  BY <1>1
<1>3. \A c : IsRecord(Rec(c)) /\ Rec(c).of = a /\ Rec(c).left = TTL /\ Rec(c).on = on
  BY BypassAssumption DEF IsRecord
<1>4. CASE ~Memorable(a)
  <2>1. EffectRecords(a, high, on) = <<>>
    BY <1>4 DEF EffectRecords
  <2>2. Made(a, high, on) = {}
    BY <2>1 DEF Made, Range
  <2> QED  BY <2>1, <2>2
<1>5. CASE Memorable(a)
  <2>1. EffectRecords(a, high, on) = recs
    BY <1>5 DEF EffectRecords
  <2>2. \A i \in 1..Len(caps) : recs[i] = Rec(caps[i])
    BY <1>2
  <2>3. recs = [i \in 1..Len(caps) |-> recs[i]] /\ DOMAIN recs = 1..Len(caps)
    BY <1>2
  <2> HIDE DEF recs
  <2>4. \A i \in 1..Len(caps) : recs[i] \in Made(a, high, on)
    BY <2>1, <2>3 DEF Made, Range
  <2>5. recs \in Seq(Made(a, high, on))
    <3> DEFINE n == Len(caps)
               S == Made(a, high, on)
    <3>1. recs \in [1..n -> S] /\ n \in Nat
      BY <1>2, <2>3, <2>4
    <3> HIDE DEF n, S
    <3>2. recs \in Seq(S)
      BY <3>1
    <3> QED  BY <3>2 DEF S
  <2>6. \A r \in Made(a, high, on) : \E i \in 1..Len(caps) : r = recs[i]
    BY <2>1, <2>3 DEF Made, Range
  <2>7. \A r \in Made(a, high, on) : IsRecord(r) /\ r.of = a /\ r.left = TTL /\ r.on = on
    <3> HIDE DEF Rec
    <3> QED  BY <1>3, <2>2, <2>6
  <2> QED  BY <1>5, <2>1, <2>5, <2>7
<1> QED  BY <1>4, <1>5

-----------------------------------------------------------------------------
(* The loop that takes the records of an event out of the held ones. *)

\* f is that loop over the records s for the event of a, up to the n-th of them.
Keeps(f, s, a, n) ==
  f = [k \in 0..n |->
         IF k = 0 THEN <<>>
         ELSE IF Event[s[k].of] # Event[a] THEN Append(f[k - 1], s[k])
         ELSE f[k - 1]]

\* One more round of it.
LEMMA KeepsOnce ==
  ASSUME NEW s, NEW a, NEW n \in Nat, NEW f, Keeps(f, s, a, n)
  PROVE  \E more : Keeps(more, s, a, n + 1)
<1> DEFINE new == IF Event[s[n + 1].of] # Event[a] THEN Append(f[n], s[n + 1]) ELSE f[n]
           more == [k \in 0..(n + 1) |-> IF k = n + 1 THEN new ELSE f[k]]
           Round(g, k) == IF k = 0 THEN <<>>
                          ELSE IF Event[s[k].of] # Event[a] THEN Append(g[k - 1], s[k])
                          ELSE g[k - 1]
<1>1. \A k \in 0..n : f[k] = Round(f, k)
  BY DEF Keeps
<1>2. \A k \in 0..n : more[k] = f[k]
  OBVIOUS
<1>3. more[n + 1] = new
  OBVIOUS
<1>4. \A k \in 0..(n + 1) : more[k] = Round(more, k)
  <2> SUFFICES ASSUME NEW k \in 0..(n + 1) PROVE more[k] = Round(more, k)
    OBVIOUS
  <2> HIDE DEF more
  <2>1. k = 0 => more[k] = <<>>
    BY <1>1, <1>2
  <2>2. CASE k \in 1..n
    <3>1. k - 1 \in 0..n /\ k \in 0..n
      BY <2>2
    <3>2. more[k - 1] = f[k - 1] /\ more[k] = f[k]
      BY <1>2, <3>1
    <3> QED  BY <1>1, <3>1, <3>2
  <2>3. CASE k = n + 1
    <3>1. more[k - 1] = f[n] /\ k # 0
      BY <1>2, <2>3
    <3> QED  BY <1>3, <2>3, <3>1
  <2> QED  BY <2>1, <2>2, <2>3
<1>5. more = [k \in 0..(n + 1) |-> more[k]]
  OBVIOUS
<1> HIDE DEF more
<1>6. more = [k \in 0..(n + 1) |-> Round(more, k)]
  BY <1>4, <1>5
<1>7. Keeps(more, s, a, n + 1)
  BY <1>6 DEF Keeps
<1> QED  BY <1>7

\* There is such a loop for every number of rounds.
LEMMA KeepsAlways ==
  ASSUME NEW s, NEW a
  PROVE  \A n \in Nat : \E f : Keeps(f, s, a, n)
<1> DEFINE Bad == {n \in Nat : ~\E f : Keeps(f, s, a, n)}
<1> SUFFICES ASSUME Bad # {} PROVE FALSE
  OBVIOUS
<1>1. PICK n \in Bad : \A m \in Bad : ~(<<m, n>> \in OpToRel(<, Nat))
  BY NatLessThanWellFounded, WFMin
<1>2. \A m \in Nat : m < n => m \notin Bad
  BY <1>1 DEF OpToRel
<1>3. n # 0
  <2>1. Keeps([k \in 0..0 |-> <<>>], s, a, 0)
    BY DEF Keeps
  <2> QED  BY <2>1
<1>4. n - 1 \in Nat /\ n - 1 < n
  BY <1>3
<1>5. PICK f : Keeps(f, s, a, n - 1)
  BY <1>2, <1>4
<1>6. \E more : Keeps(more, s, a, (n - 1) + 1)
  BY <1>4, <1>5, KeepsOnce
<1> QED  BY <1>4, <1>6

\* What the loop has kept at its end are records of other events.
LEMMA KeptIs ==
  ASSUME NEW S, NEW s \in Seq(S), NEW a, NEW f, Keeps(f, s, a, Len(s))
  PROVE  f[Len(s)] \in Seq({r \in S : Event[r.of] # Event[a]})
<1> DEFINE N == Len(s)
           T == {r \in S : Event[r.of] # Event[a]}
           Bad == {k \in 0..N : f[k] \notin Seq(T)}
<1>1. N \in Nat /\ \A k \in 1..N : s[k] \in S
  OBVIOUS
<1>2. \A k \in 0..N : f[k] = IF k = 0 THEN <<>>
           ELSE IF Event[s[k].of] # Event[a] THEN Append(f[k - 1], s[k])
           ELSE f[k - 1]
  BY DEF Keeps
<1>3. \A k \in 1..N : Event[s[k].of] # Event[a] => s[k] \in T
  BY <1>1
<1> HIDE DEF N, T
<1>4. f[0] \in Seq(T)
  <2>1. f[0] = <<>>
    BY <1>1, <1>2
  <2> QED  BY <2>1
<1>5. ASSUME NEW k \in 1..N, f[k - 1] \in Seq(T) PROVE f[k] \in Seq(T)
  <2>1. f[k] = IF Event[s[k].of] # Event[a] THEN Append(f[k - 1], s[k]) ELSE f[k - 1]
    BY <1>1, <1>2
  <2>2. CASE Event[s[k].of] # Event[a]
    <3>1. f[k] = Append(f[k - 1], s[k]) /\ s[k] \in T
      BY <1>3, <2>1, <2>2
    <3> QED  BY <1>5, <3>1
  <2>3. CASE Event[s[k].of] = Event[a]
    BY <1>5, <2>1, <2>3
  <2> QED  BY <2>2, <2>3
<1>6. Bad = {}
  <2> SUFFICES ASSUME Bad # {} PROVE FALSE
    OBVIOUS
  <2>1. Bad \subseteq Nat
    BY <1>1
  <2>2. PICK n \in Bad : \A m \in Bad : ~(<<m, n>> \in OpToRel(<, Nat))
    BY <2>1, NatLessThanWellFounded, WFMin
  <2>3. \A m \in 0..N : m < n => m \notin Bad
    BY <1>1, <2>1, <2>2 DEF OpToRel
  <2>4. n # 0 /\ n \in 0..N
    BY <1>4
  <2>5. n - 1 \in 0..N /\ n - 1 < n /\ n \in 1..N
    BY <1>1, <2>4
  <2>6. f[n - 1] \in Seq(T)
    BY <2>3, <2>5
  <2> QED  BY <1>5, <2>5, <2>6
<1>7. f[N] \in Seq(T)
  BY <1>1, <1>6
<1> QED  BY <1>7 DEF N, T

\* What is left of the held records when those of an event are taken out.
LEMMA FreedIs ==
  ASSUME NEW S, NEW s \in Seq(S), NEW a
  PROVE  Freed(s, a) \in Seq({r \in S : Event[r.of] # Event[a]})
<1> DEFINE IsKept(f) ==
      f = [n \in 0..Len(s) |->
             IF n = 0 THEN <<>>
             ELSE IF Event[s[n].of] # Event[a] THEN Append(f[n - 1], s[n])
             ELSE f[n - 1]]
           loop == CHOOSE f : IsKept(f)
<1>1. \E f : IsKept(f)
  <2>1. Len(s) \in Nat
    OBVIOUS
  <2>2. PICK f : Keeps(f, s, a, Len(s))
    BY <2>1, KeepsAlways
  <2>3. IsKept(f)
    BY <2>2 DEF Keeps
  <2> QED  BY <2>3
<1>2. Freed(s, a) = loop[Len(s)]
  BY DEF Freed
<1> HIDE DEF IsKept
<1>3. IsKept(loop)
  BY <1>1
<1> HIDE DEF loop
<1>4. Keeps(loop, s, a, Len(s))
  BY <1>3 DEF IsKept, Keeps
<1> QED  BY <1>2, <1>4, KeptIs

-----------------------------------------------------------------------------
(* What the guard's operations make of the deques. *)

\* A sequence over a set is one over a larger set.
LEMMA SeqOver ==
  ASSUME NEW S, NEW s \in Seq(S), NEW T, S \subseteq T
  PROVE  s \in Seq(T)
OBVIOUS

\* Records are added at the end of a deque, which keeps its size.
LEMMA AddedOver ==
  ASSUME NEW S, NEW s \in Seq(S), NEW T, NEW t \in Seq(T)
  PROVE  Capped(s \o t) \in Seq(S \union T)
<1> DEFINE U == S \union T
<1>1. s \in Seq(U) /\ t \in Seq(U)
  BY SeqOver
<1> HIDE DEF U
<1>2. s \o t \in Seq(U)
  BY <1>1
<1> QED  BY <1>2, CappedIs DEF U

\* What expires.
LEMMA EvictedOver ==
  ASSUME NEW m, NEW D, NEW H, DequesOver(m, D, H)
  PROVE  DequesOver(Evicted(m), D, H)
<1>1. "denied" \in Kinds /\ "held" \in Kinds
  BY DEF Kinds
<1>2. Evicted(m)["denied"] \in Seq(D) /\ Evicted(m)["held"] \in Seq(H)
  BY <1>1, EvictedIs DEF DequesOver
<1>3. Evicted(m) = [k \in Kinds |-> Evicted(m)[k]]
  BY DEF Evicted
<1> QED  BY <1>2, <1>3 DEF DequesOver

\* A deque that is replaced, the others staying as they are.
LEMMA ReplacedOver ==
  ASSUME NEW m, NEW D, NEW H, DequesOver(m, D, H), NEW s
  PROVE  /\ DequesOver([m EXCEPT !["prior"] = s], D, H)
         /\ \A S : s \in Seq(S) => DequesOver([m EXCEPT !["denied"] = s], S, H)
         /\ \A S : s \in Seq(S) => DequesOver([m EXCEPT !["held"] = s], D, S)
<1>1. DOMAIN m = Kinds
  BY DEF DequesOver
<1>2. ASSUME NEW k \in Kinds
      PROVE  LET n == [m EXCEPT ![k] = s]
             IN  /\ n = [j \in Kinds |-> n[j]]
                 /\ n[k] = s /\ \A j \in Kinds \ {k} : n[j] = m[j]
  BY <1>1
<1>3. /\ "prior" \in Kinds /\ "denied" \in Kinds /\ "held" \in Kinds
      /\ "prior" # "denied" /\ "prior" # "held" /\ "denied" # "held"
  BY DEF Kinds
<1>4. DequesOver([m EXCEPT !["prior"] = s], D, H)
  BY <1>2, <1>3 DEF DequesOver
<1>5. \A S : s \in Seq(S) => DequesOver([m EXCEPT !["denied"] = s], S, H)
  BY <1>2, <1>3 DEF DequesOver
<1>6. \A S : s \in Seq(S) => DequesOver([m EXCEPT !["held"] = s], D, S)
  BY <1>2, <1>3 DEF DequesOver
<1> QED  BY <1>4, <1>5, <1>6

\* The records a block adds to the denials.
Pronounced(a, d, on) == IF d.by = "guard" THEN {} ELSE Made(a, d.high, on)

\* What it leaves.
LEMMA DeniedOver ==
  ASSUME NEW m, NEW D, NEW H, DequesOver(m, D, H), NEW a \in Attempts, NEW d,
         NEW on \in {"decision", "answer"}
  PROVE  DequesOver(Denied(m, a, d, on), D \union Pronounced(a, d, on), H)
<1>1. CASE d.by = "guard"
  <2>1. Denied(m, a, d, on) = m /\ D \union Pronounced(a, d, on) = D
    BY <1>1 DEF Denied, Pronounced
  <2> QED  BY <2>1
<1>2. CASE d.by # "guard"
  <2> DEFINE s == Capped(m["denied"] \o EffectRecords(a, d.high, on))
  <2>1. Denied(m, a, d, on) = [m EXCEPT !["denied"] = s]
    BY <1>2 DEF Denied
  <2>2. s \in Seq(D \union Made(a, d.high, on))
    BY MadeIs, AddedOver DEF DequesOver
  <2> HIDE DEF s
  <2>3. DequesOver([m EXCEPT !["denied"] = s], D \union Made(a, d.high, on), H)
    BY <2>2, ReplacedOver
  <2> QED  BY <1>2, <2>1, <2>3 DEF Pronounced
<1> QED  BY <1>1, <1>2

\* A deferral that is not final is held.
LEMMA HeldOver ==
  ASSUME NEW m, NEW D, NEW H, DequesOver(m, D, H), NEW a \in Attempts, NEW d
  PROVE  DequesOver(Held(m, a, d), D, H \union Made(a, d.high, "decision"))
<1> DEFINE s == Capped(m["held"] \o EffectRecords(a, d.high, "decision"))
<1>1. Held(m, a, d) = [m EXCEPT !["held"] = s]
  BY DEF Held
<1>2. s \in Seq(H \union Made(a, d.high, "decision"))
  BY MadeIs, AddedOver DEF DequesOver
<1> HIDE DEF s
<1>3. DequesOver([m EXCEPT !["held"] = s], D, H \union Made(a, d.high, "decision"))
  BY <1>2, ReplacedOver
<1> QED  BY <1>1, <1>3

\* What recording a decision adds to the denials, and to the holds.
NewDenials(a, d) ==
  IF d.final /\ d.verdict = "block" THEN Pronounced(a, d, "decision") ELSE {}
NewHolds(a, d) == IF d.final THEN {} ELSE Made(a, d.high, "decision")

\* The deques after a decision has been recorded.
LEMMA RecordedOver ==
  ASSUME NEW m, NEW D, NEW H, DequesOver(m, D, H), NEW a \in Attempts, NEW d
  PROVE  DequesOver(Recorded(m, a, d), D \union NewDenials(a, d), H \union NewHolds(a, d))
<1>1. DequesOver(Evicted(m), D, H)
  BY EvictedOver
<1>2. CASE ~d.final
  <2>1. Recorded(m, a, d) = Held(Evicted(m), a, d)
    BY <1>2 DEF Recorded
  <2>2. D \union NewDenials(a, d) = D /\ NewHolds(a, d) = Made(a, d.high, "decision")
    BY <1>2 DEF NewDenials, NewHolds
  <2> QED  BY <1>1, <2>1, <2>2, HeldOver
<1>3. CASE d.final
  <2> DEFINE p == IF d.high THEN Prior(Evicted(m), a) ELSE Evicted(m)
  <2>1. H \union NewHolds(a, d) = H
    BY <1>3 DEF NewHolds
  <2>2. DequesOver(p, D, H)
    BY <1>1, ReplacedOver DEF Prior
  <2> HIDE DEF p
  <2>3. CASE d.verdict = "block"
    <3>1. Recorded(m, a, d) = Denied(p, a, d, "decision")
      BY <1>3, <2>3 DEF Recorded, p
    <3>2. NewDenials(a, d) = Pronounced(a, d, "decision")
      BY <1>3, <2>3 DEF NewDenials
    <3>3. DequesOver(Denied(p, a, d, "decision"),
                     D \union Pronounced(a, d, "decision"), H)
      BY <2>2, DeniedOver
    <3> QED  BY <2>1, <3>1, <3>2, <3>3
  <2>4. CASE d.verdict # "block"
    <3>1. Recorded(m, a, d) = m \/ Recorded(m, a, d) = p
      BY <1>3, <2>4 DEF Recorded, p
    <3>2. D \union NewDenials(a, d) = D
      BY <2>4 DEF NewDenials
    <3> QED  BY <2>1, <2>2, <3>1, <3>2
  <2> QED  BY <2>3, <2>4
<1> QED  BY <1>2, <1>3

\* What resolving a deferral leaves.
LEMMA ResolvedOver ==
  ASSUME NEW m, NEW D, NEW H, DequesOver(m, D, H), NEW a \in Attempts, NEW d
  PROVE  DequesOver(Resolved(m, a, d),
                    D \union (IF d.verdict = "block" THEN Pronounced(a, d, "answer") ELSE {}),
                    {r \in H : Event[r.of] # Event[a]})
<1> DEFINE freed == [m EXCEPT !["held"] = Freed(m["held"], a)]
           rest == {r \in H : Event[r.of] # Event[a]}
<1>1. Freed(m["held"], a) \in Seq(rest)
  BY FreedIs DEF DequesOver
<1> HIDE DEF rest
<1>2. DequesOver(freed, D, rest)
  BY <1>1, ReplacedOver
<1>3. Resolved(m, a, d) = IF d.verdict = "block" THEN Denied(Evicted(freed), a, d, "answer")
                          ELSE freed
  BY DEF Resolved
<1> HIDE DEF freed
<1>4. CASE d.verdict = "block"
  <2>1. DequesOver(Evicted(freed), D, rest)
    BY <1>2, EvictedOver
  <2>2. DequesOver(Denied(Evicted(freed), a, d, "answer"), D \union Pronounced(a, d, "answer"), rest)
    BY <2>1, DeniedOver
  <2> QED  BY <1>3, <1>4, <2>2 DEF rest
<1>5. CASE d.verdict # "block"
  <2>1. D \union {} = D
    OBVIOUS
  <2> QED  BY <1>2, <1>3, <1>5, <2>1 DEF rest
<1> QED  BY <1>4, <1>5

-----------------------------------------------------------------------------
(* The memory says of each attempt what has become of it. *)

Times == [Attempts -> [Kinds -> 0..TTL]]
Stages == {"new", "recognising", "waiting", "open", "done"}

\* What an operator is asked about is a deferral or a confirmation.
UnderWay ==
  \A a \in Attempts :
    /\ stage[a] \in {"new", "recognising"} => outcome[a] = Undecided
    /\ stage[a] = "waiting" => outcome[a].verdict = "defer" \/ a \in Confirms

\* r is a denial of an attempt at the stage s with the outcome o, at the times t.
IsDenial(r, s, o, t) ==
  /\ IsRecord(r)
  /\ o.by = "policy" /\ r.left <= t["denied"]
  /\ o.verdict # "block" => r.of \in Confirms /\ r.on = "decision"
  /\ r.on = "answer" => s = "done"

\* r is a hold of such an attempt.
IsHold(r, s, o) == IsRecord(r) /\ s \in {"waiting", "open"} /\ ~o.final

BypassInv ==
  /\ DequesOver(memory, Range(memory["denied"]), Range(memory["held"]))
  /\ \A r \in Range(memory["denied"]) : IsDenial(r, stage[r.of], outcome[r.of], due[r.of])
  /\ \A r \in Range(memory["held"]) : IsHold(r, stage[r.of], outcome[r.of])
  /\ due \in Times
  /\ stage \in [Attempts -> Stages]
  /\ outcome = [a \in Attempts |-> outcome[a]]
  /\ UnderWay

\* A memory all of whose records are good ones.
LEMMA MemoryAfter ==
  ASSUME NEW D, NEW H, DequesOver(memory', D, H),
         \A r \in D : IsDenial(r, stage'[r.of], outcome'[r.of], due'[r.of]),
         \A r \in H : IsHold(r, stage'[r.of], outcome'[r.of]),
         due' \in Times, stage' \in [Attempts -> Stages],
         outcome' = [a \in Attempts |-> outcome'[a]], UnderWay'
  PROVE  BypassInv'
<1>1. memory'["denied"] \in Seq(D) /\ memory'["held"] \in Seq(H)
  BY DEF DequesOver
<1>2. /\ memory'["denied"] \in Seq(Range(memory'["denied"]))
      /\ Range(memory'["denied"]) \subseteq D
  BY <1>1, OwnMembers
<1>3. /\ memory'["held"] \in Seq(Range(memory'["held"]))
      /\ Range(memory'["held"]) \subseteq H
  BY <1>1, OwnMembers
<1>4. DequesOver(memory', Range(memory'["denied"]), Range(memory'["held"]))
  BY <1>2, <1>3 DEF DequesOver
<1>5. /\ \A r \in Range(memory'["denied"]) :
           IsDenial(r, stage'[r.of], outcome'[r.of], due'[r.of])
      /\ \A r \in Range(memory'["held"]) : IsHold(r, stage'[r.of], outcome'[r.of])
  BY <1>2, <1>3
<1> QED  BY <1>4, <1>5 DEF BypassInv

\* A step takes the attempt a, which is under way, to the stage s with the outcome o.
Becomes(a, s, o) ==
  /\ stage[a] \in {"new", "recognising", "waiting"}
  /\ stage[a] = "waiting" => o.by \in {"policy", outcome[a].by}
  /\ s \in {"recognising", "waiting", "open", "done"}
  /\ s = "recognising" => o = Undecided
  /\ s = "waiting" => o.verdict = "defer" \/ a \in Confirms
  /\ stage' = [stage EXCEPT ![a] = s] /\ outcome' = [outcome EXCEPT ![a] = o]
  /\ due' \in Times /\ due'[a]["denied"] >= due[a]["denied"]
  /\ \A b \in Attempts \ {a} : due'[b] = due[b]

\* What the step adds to the denials D and to the holds H fits that.
Fits(a, s, o, D, H) ==
  /\ \A r \in D : \/ r \in Range(memory["denied"])
                  \/ r.of = a /\ IsDenial(r, s, o, due'[a])
  /\ \A r \in H : \/ r \in Range(memory["held"]) /\ r.of # a
                  \/ r.of = a /\ IsHold(r, s, o)

\* A step of one attempt.
LEMMA OneAttempt ==
  ASSUME BypassInv, NEW a \in Attempts, NEW s, NEW o, Becomes(a, s, o),
         NEW D, NEW H, DequesOver(memory', D, H), Fits(a, s, o, D, H)
  PROVE  BypassInv'
<1>1. /\ \A b \in Attempts \ {a} : stage'[b] = stage[b] /\ outcome'[b] = outcome[b]
      /\ stage'[a] = s /\ outcome'[a] = o
      /\ stage' \in [Attempts -> Stages]
      /\ outcome' = [b \in Attempts |-> outcome'[b]]
  BY DEF BypassInv, Stages, Becomes
<1>2. UnderWay'
  BY <1>1 DEF BypassInv, UnderWay, Becomes
<1>3. ASSUME NEW r \in D
      PROVE  IsDenial(r, stage'[r.of], outcome'[r.of], due'[r.of])
  <2>1. CASE r \in Range(memory["denied"])
    <3>1. IsDenial(r, stage[r.of], outcome[r.of], due[r.of]) /\ r.of \in Attempts
      BY <2>1 DEF BypassInv, IsDenial, IsRecord
    <3>2. CASE r.of # a
      <4>1. due'[r.of] = due[r.of]
        BY <3>1, <3>2 DEF Becomes
      <4> QED  BY <1>1, <3>1, <3>2, <4>1
    <3>3. CASE r.of = a
      <4>1. outcome[a].by = "policy" /\ r.on \in {"decision", "answer"}
        BY <3>1, <3>3 DEF IsDenial, IsRecord
      <4>2. stage[a] = "waiting"
        BY <4>1 DEF Becomes, BypassInv, UnderWay, Undecided
      <4>3. r.on = "decision"
        BY <3>1, <3>3, <4>1, <4>2 DEF IsDenial
      <4>4. a \in Confirms
        BY <3>1, <3>3, <4>2 DEF IsDenial, BypassInv, UnderWay
      <4>5. o.by = "policy"
        BY <4>1, <4>2 DEF Becomes
      <4>6. r.left <= due'[a]["denied"]
        <5>1. /\ r.left <= due[a]["denied"] /\ r.left \in Nat
              /\ due'[a]["denied"] >= due[a]["denied"]
          BY <3>1, <3>3 DEF IsDenial, IsRecord, Becomes
        <5>2. due[a]["denied"] \in Int /\ due'[a]["denied"] \in Int
          BY BypassAssumption DEF Becomes, BypassInv, Times, Kinds
        <5> QED  BY <5>1, <5>2
      <4>7. IsRecord(r)
        BY <3>1 DEF IsDenial
      <4> QED  BY <1>1, <3>3, <4>3, <4>4, <4>5, <4>6, <4>7 DEF IsDenial
    <3> QED  BY <3>2, <3>3
  <2> QED  BY <1>1, <2>1 DEF Fits
<1>4. ASSUME NEW r \in H
      PROVE  IsHold(r, stage'[r.of], outcome'[r.of])
  <2>1. CASE r \in Range(memory["held"]) /\ r.of # a
    <3>1. IsHold(r, stage[r.of], outcome[r.of]) /\ r.of \in Attempts
      BY <2>1 DEF BypassInv, IsHold, IsRecord
    <3> QED  BY <1>1, <2>1, <3>1
  <2> QED  BY <1>1, <2>1 DEF Fits
<1>5. due' \in Times
  BY DEF Becomes
<1> QED  BY <1>1, <1>2, <1>3, <1>4, <1>5, MemoryAfter

\* new is log after the decision d on a.
IsRenewed(new, log, a, d) ==
  new = Renewed(log, a, d, TRUE) \/ new = Renewed(log, a, d, FALSE)

\* When an attempt becomes due.
LEMMA RenewedIs ==
  ASSUME NEW log \in Times, NEW a \in Attempts, NEW d, NEW new,
         IsRenewed(new, log, a, d)
  PROVE  /\ new \in Times
         /\ \A b \in Attempts \ {a} : new[b] = log[b]
         /\ d.verdict = "block" /\ d.by # "guard" /\ Memorable(a)
              => new[a]["denied"] = TTL
         /\ new[a]["denied"] >= log[a]["denied"]
<1> DEFINE held == IF ~d.final /\ Memorable(a) THEN TTL ELSE log[a]["held"]
           prior == IF d.final /\ d.high /\ d.verdict # "allow" THEN TTL ELSE log[a]["prior"]
           denied == IF d.verdict = "block" /\ d.by # "guard" /\ Memorable(a)
                     THEN TTL ELSE log[a]["denied"]
           With(p) == [log EXCEPT ![a]["held"] = held, ![a]["prior"] = p,
                                  ![a]["denied"] = denied]
<1>1. /\ TTL \in Nat /\ "held" \in Kinds /\ "prior" \in Kinds /\ "denied" \in Kinds
      /\ log \in [Attempts -> [Kinds -> 0..TTL]] /\ log[a] \in [Kinds -> 0..TTL]
  BY BypassAssumption DEF Kinds, Times
<1>2. /\ held \in 0..TTL /\ prior \in 0..TTL /\ denied \in 0..TTL
      /\ log[a]["prior"] \in 0..TTL /\ denied >= log[a]["denied"]
  <2>1. /\ TTL \in 0..TTL
        /\ \A k \in Kinds : log[a][k] \in 0..TTL /\ log[a][k] >= log[a][k]
                           /\ TTL >= log[a][k]
    BY <1>1
  <2> QED  BY <1>1, <2>1
<1>3. \E p \in 0..TTL : new = With(p)
  <2>1. CASE new = Renewed(log, a, d, TRUE)
    <3>1. new = With(log[a]["prior"])
      BY <1>1, <2>1 DEF Renewed, Kinds
    <3> HIDE DEF With
    <3> QED  BY <1>2, <3>1
  <2>2. CASE new = Renewed(log, a, d, FALSE)
    <3>1. new = With(prior)
      BY <1>1, <2>2 DEF Renewed, Kinds
    <3> HIDE DEF With, prior
    <3> QED  BY <1>2, <3>1
  <2> QED  BY <2>1, <2>2 DEF IsRenewed
<1>4. d.verdict = "block" /\ d.by # "guard" /\ Memorable(a) => denied = TTL
  OBVIOUS
<1> HIDE DEF held, prior, denied
<1>5. PICK p \in 0..TTL : new = With(p)
  BY <1>3
<1> DEFINE row == [k \in Kinds |-> CASE k = "held" -> held [] k = "prior" -> p
                                    [] OTHER -> denied]
           next == [b \in Attempts |-> IF b = a THEN row ELSE log[b]]
<1>6. row \in [Kinds -> 0..TTL] /\ row["denied"] = denied
  BY <1>1, <1>2
<1>7. With(p) = next
  <2>1. [log[a] EXCEPT !["held"] = held, !["prior"] = p, !["denied"] = denied] = row
    BY <1>1 DEF Kinds
  <2> HIDE DEF row
  <2>2. With(p) = [log EXCEPT ![a] = [log[a] EXCEPT !["held"] = held, !["prior"] = p,
                                                    !["denied"] = denied]]
    BY <1>1
  <2> HIDE DEF With
  <2> QED  BY <1>1, <2>1, <2>2
<1> HIDE DEF row, With
<1>8. next \in Times /\ next[a] = row /\ \A b \in Attempts \ {a} : next[b] = log[b]
  BY <1>1, <1>6 DEF Times
<1> HIDE DEF next
<1>9. new = next
  BY <1>5, <1>7
<1> QED  BY <1>2, <1>4, <1>6, <1>8, <1>9

\* A decision is one of its four parts.
IsDecision(d) == d = Decision(d.verdict, d.final, d.by, d.high)

\* Closing it leaves all but its risk.
LEMMA ClosedIs ==
  ASSUME NEW d, IsDecision(d)
  PROVE  /\ Closed(d).verdict = d.verdict /\ Closed(d).by = d.by
         /\ Closed(d).final = d.final /\ (~d.final => ~Closed(d).final)
BY DEF IsDecision, Decision, Closed

\* Any decision of the flow: what is not final is a deferral.
IsProper(d) ==
  IsDecision(d) /\ (d.final \/ d.verdict = "defer") /\ d.by \in {"guard", "policy"}

\* A final decision, and a deferral, are such.
LEMMA Proper ==
  ASSUME NEW by \in {"guard", "policy"}, NEW h
  PROVE  /\ \A v : IsProper(Decision(v, TRUE, by, h))
         /\ IsProper(Decision("defer", FALSE, by, h))
BY DEF IsProper, IsDecision, Decision

\* The trajectory and the scope make such decisions of such.
LEMMA OverlaidAre ==
  ASSUME NEW d, IsProper(d)
  PROVE  /\ \A e \in Scoped(d) : IsProper(e)
         /\ \A a : \A e \in Overlaid(a, d) : IsProper(e)
<1>1. \A c : IsProper(c) => \A e \in Scoped(c) : IsProper(e)
  BY Proper DEF Scoped
<1>2. \A c : IsProper(c) => \A e \in Alerted(c) : IsProper(e)
  BY Proper DEF Alerted
<1>3. \A a : IsProper(Observed(a, d))
  BY Proper DEF Observed
<1> QED  BY <1>1, <1>2, <1>3 DEF Overlaid

\* So are the decisions that a match ends in.
LEMMA OutcomesAre ==
  ASSUME NEW a, NEW x, NEW d \in Outcomes(a, x)
  PROVE  IsProper(d)
<1>1. \A e \in Said(x) : IsProper(e)
  BY Proper DEF Said
<1>2. PICK e \in Said(x) : d \in Overlaid(a, e)
  BY DEF Outcomes
<1> QED  BY <1>1, <1>2, OverlaidAre

-----------------------------------------------------------------------------
(* Every step keeps it so. *)

\* What the decision d on a adds to the denials and to the holds.
LEMMA NewAre ==
  ASSUME NEW a \in Attempts, NEW d
  PROVE  /\ \A r \in NewDenials(a, d) :
              /\ IsRecord(r) /\ r.of = a /\ r.left = TTL /\ r.on = "decision"
              /\ Memorable(a) /\ d.verdict = "block" /\ d.by # "guard"
         /\ \A r \in NewHolds(a, d) : IsRecord(r) /\ r.of = a /\ ~d.final
         /\ \A r \in Pronounced(a, d, "answer") :
              /\ IsRecord(r) /\ r.of = a /\ r.left = TTL /\ r.on = "answer"
              /\ Memorable(a) /\ d.by # "guard"
BY MadeIs DEF NewDenials, NewHolds, Pronounced

\* A decision is recorded, and returned or waited for.
LEMMA KeepStep ==
  ASSUME BypassInv, NEW a \in Attempts, stage[a] \in {"new", "recognising"}, NEW m,
         DequesOver(m, Range(memory["denied"]), Range(memory["held"])),
         NEW d, IsProper(d), NEW s \in {"waiting", "open", "done"},
         s = "done" => d.final, s = "waiting" => d.verdict = "defer" \/ a \in Confirms,
         stage' = [stage EXCEPT ![a] = s],
         outcome' = [outcome EXCEPT ![a] = IF s = "waiting" THEN d ELSE Closed(d)],
         memory' = Recorded(m, a, d), due' = Renewed(due, a, d, FALSE)
  PROVE  BypassInv'
<1> DEFINE D == Range(memory["denied"])
           H == Range(memory["held"])
           log == Renewed(due, a, d, FALSE)
           recorded == Recorded(m, a, d)
           D1 == D \union NewDenials(a, d)
           H1 == H \union NewHolds(a, d)
           o == IF s = "waiting" THEN d ELSE Closed(d)
<1>1. due \in Times
  BY DEF BypassInv
<1>2. \A r \in H : r.of # a
  BY DEF BypassInv, IsHold
<1>3. DequesOver(recorded, D1, H1)
  BY RecordedOver
<1>4. /\ log \in Times /\ \A b \in Attempts \ {a} : log[b] = due[b]
      /\ d.verdict = "block" /\ d.by # "guard" /\ Memorable(a) => log[a]["denied"] = TTL
      /\ log[a]["denied"] >= due[a]["denied"]
  <2>1. IsRenewed(log, due, a, d)
    BY DEF IsRenewed
  <2> HIDE DEF log
  <2> QED  BY <1>1, <2>1, RenewedIs
<1>5. /\ IsDecision(d) /\ d.by \in {"guard", "policy"}
      /\ o.verdict = d.verdict /\ o.by = d.by /\ (~d.final => ~o.final)
  BY ClosedIs DEF IsProper
<1>6. stage' = [stage EXCEPT ![a] = s] /\ outcome' = [outcome EXCEPT ![a] = o]
  OBVIOUS
<1>7. /\ memory' = recorded /\ due' = log /\ s \in {"waiting", "open", "done"}
      /\ s = "done" => d.final
      /\ s = "waiting" => d.verdict = "defer" \/ a \in Confirms
  OBVIOUS
<1> HIDE DEF o, log, recorded
<1>8. \A r \in D1 : r \in D \/ (r.of = a /\ IsDenial(r, s, o, due'[a]))
  <2> SUFFICES ASSUME NEW r \in NewDenials(a, d)
               PROVE  r.of = a /\ IsDenial(r, s, o, due'[a])
    OBVIOUS
  <2>1. /\ IsRecord(r) /\ r.of = a /\ r.left = TTL /\ r.on = "decision"
        /\ Memorable(a) /\ d.verdict = "block" /\ d.by # "guard"
    BY NewAre
  <2>2. log[a]["denied"] = TTL /\ due' = log
    BY <1>4, <1>7, <2>1
  <2>3. due'[a]["denied"] = TTL
    BY ONLY <2>2
  <2>4. TTL <= TTL
    BY BypassAssumption
  <2>5. o.verdict = "block" /\ o.by = "policy"
    BY <1>5, <2>1
  <2> QED  BY <2>1, <2>3, <2>4, <2>5 DEF IsDenial
<1>9. \A r \in H1 : (r \in H /\ r.of # a) \/ (r.of = a /\ IsHold(r, s, o))
  <2> SUFFICES ASSUME NEW r \in NewHolds(a, d) PROVE r.of = a /\ IsHold(r, s, o)
    BY <1>2
  <2>1. IsRecord(r) /\ r.of = a /\ ~d.final
    BY NewAre
  <2> QED  BY <1>5, <1>7, <2>1 DEF IsHold
<1>10. DequesOver(memory', D1, H1)
  BY <1>3, <1>7
<1> HIDE DEF D1, H1
<1>11. Becomes(a, s, o)
  BY <1>4, <1>5, <1>6, <1>7 DEF Becomes
<1>12. Fits(a, s, o, D1, H1)
  BY <1>8, <1>9 DEF Fits
<1> QED  BY <1>10, <1>11, <1>12, OneAttempt

\* The decision d on a is recorded, and a goes to the stage s; or it is refused.
Kept(a, m, d, s) ==
  /\ stage' = [stage EXCEPT ![a] = s]
  /\ outcome' = [outcome EXCEPT ![a] = IF s = "waiting" THEN d ELSE Closed(d)]
  /\ memory' = Recorded(m, a, d) /\ due' = Renewed(due, a, d, FALSE)
Refused(a, m, d) ==
  LET denied == Decision("block", TRUE, "policy", d.high)
  IN  /\ stage' = [stage EXCEPT ![a] = "done"]
      /\ outcome' = [outcome EXCEPT ![a] = Closed(denied)]
      /\ memory' = Resolved(Recorded(m, a, d), a, denied)
      /\ due' = Renewed(Renewed(due, a, d, FALSE), a, denied, TRUE)

\* These are the ways to settle it.
LEMMA SettleIs ==
  ASSUME NEW a, NEW m, NEW d, NEW bridge, Settle(a, m, d, bridge)
  PROVE  \/ \E s \in {"waiting", "open", "done"} :
              /\ s = "done" => d.verdict # "defer"
              /\ s = "waiting" => d.verdict = "defer" \/ a \in Confirms
              /\ Kept(a, m, d, s)
         \/ (d.verdict = "defer" \/ a \in Confirms) /\ Refused(a, m, d)
<1> DEFINE asks == a \in Confirms \/ (d.verdict = "defer" /\ Bridge /\ bridge)
<1>1. \/ asks /\ Kept(a, m, d, "waiting")
      \/ asks /\ Refused(a, m, d)
      \/ d.verdict = "defer" /\ Kept(a, m, d, "open")
      \/ d.verdict # "defer" /\ Kept(a, m, d, "done")
  BY DEF Settle, Kept, Refused
<1>2. asks => d.verdict = "defer" \/ a \in Confirms
  OBVIOUS
<1> HIDE DEF asks
<1> QED  BY <1>1, <1>2

\* A decision is recorded and returned, waited for, or refused at once.
LEMMA SettleStep ==
  ASSUME BypassInv, NEW a \in Attempts, stage[a] \in {"new", "recognising"}, NEW m,
         DequesOver(m, Range(memory["denied"]), Range(memory["held"])),
         NEW d, IsProper(d), NEW bridge, Settle(a, m, d, bridge)
  PROVE  BypassInv'
<1>1. ASSUME NEW s \in {"waiting", "open", "done"}, s = "done" => d.verdict # "defer",
             s = "waiting" => d.verdict = "defer" \/ a \in Confirms, Kept(a, m, d, s)
      PROVE  BypassInv'
  <2>1. s = "done" => d.final
    BY <1>1 DEF IsProper
  <2>2. /\ stage' = [stage EXCEPT ![a] = s]
        /\ outcome' = [outcome EXCEPT ![a] = IF s = "waiting" THEN d ELSE Closed(d)]
        /\ memory' = Recorded(m, a, d) /\ due' = Renewed(due, a, d, FALSE)
    BY <1>1 DEF Kept
  <2> QED  BY <1>1, <2>1, <2>2, KeepStep
<1>2. ASSUME Refused(a, m, d)
      PROVE  BypassInv'
  <2> DEFINE D == Range(memory["denied"])
             H == Range(memory["held"])
             denied == Decision("block", TRUE, "policy", d.high)
             o == Closed(denied)
             log == Renewed(due, a, d, FALSE)
             recorded == Recorded(m, a, d)
             D1 == D \union NewDenials(a, d)
             H1 == H \union NewHolds(a, d)
             D2 == D1 \union Pronounced(a, denied, "answer")
             H2 == {r \in H1 : Event[r.of] # Event[a]}
  <2>1. due \in Times /\ \A r \in H : r.of # a
    BY DEF BypassInv, IsHold
  <2>2. DequesOver(recorded, D1, H1)
    BY RecordedOver
  <2>3. /\ log \in Times /\ \A b \in Attempts \ {a} : log[b] = due[b]
        /\ log[a]["denied"] >= due[a]["denied"]
    <3>1. IsRenewed(log, due, a, d)
      BY DEF IsRenewed
    <3> HIDE DEF log
    <3> QED  BY <2>1, <3>1, RenewedIs
  <2>4. /\ stage' = [stage EXCEPT ![a] = "done"]
        /\ outcome' = [outcome EXCEPT ![a] = o]
        /\ memory' = Resolved(recorded, a, denied)
        /\ due' = Renewed(log, a, denied, TRUE)
    BY <1>2 DEF Refused
  <2>5. /\ IsDecision(denied) /\ denied.verdict = "block" /\ denied.by = "policy"
    BY DEF IsDecision, Decision
  <2>6. o.verdict = "block" /\ o.by = "policy"
    BY <2>5, ClosedIs
  <2> HIDE DEF denied
  <2>7. DequesOver(memory', D2, H2)
    BY <2>2, <2>4, <2>5, ResolvedOver
  <2> HIDE DEF log
  <2>8. /\ due' \in Times /\ \A b \in Attempts \ {a} : due'[b] = log[b]
        /\ Memorable(a) => due'[a]["denied"] = TTL
        /\ due'[a]["denied"] >= log[a]["denied"]
    <3>1. IsRenewed(due', log, a, denied)
      BY <2>4 DEF IsRenewed
    <3>2. denied.verdict = "block" /\ denied.by # "guard"
      BY <2>5
    <3> QED  BY <2>3, <3>1, <3>2, RenewedIs
  <2>9. /\ \A b \in Attempts \ {a} : due'[b] = due[b]
        /\ due'[a]["denied"] >= due[a]["denied"]
    <3>1. /\ due[a]["denied"] \in Int /\ log[a]["denied"] \in Int
          /\ due'[a]["denied"] \in Int
      BY <2>1, <2>3, <2>8, BypassAssumption DEF Times, Kinds
    <3> QED  BY <2>3, <2>8, <3>1
  <2>10. \A r \in D2 : r \in D \/ (r.of = a /\ IsDenial(r, "done", o, due'[a]))
    <3> SUFFICES ASSUME NEW r \in NewDenials(a, d) \union Pronounced(a, denied, "answer")
                 PROVE  r.of = a /\ IsDenial(r, "done", o, due'[a])
      OBVIOUS
    <3>1. IsRecord(r) /\ r.of = a /\ r.left = TTL /\ Memorable(a)
      BY NewAre
    <3>2. due'[a]["denied"] = TTL /\ TTL <= TTL
      BY <2>8, <3>1, BypassAssumption
    <3> QED  BY <2>6, <3>1, <3>2 DEF IsDenial
  <2>11. \A r \in H2 : r \in H /\ r.of # a
    BY <2>1, NewAre
  <2> HIDE DEF o, D2, H2
  <2>12. Becomes(a, "done", o)
    BY <2>4, <2>8, <2>9 DEF Becomes
  <2>13. Fits(a, "done", o, D2, H2)
    BY <2>10, <2>11 DEF Fits
  <2> QED  BY <2>7, <2>12, <2>13, OneAttempt
<1> QED  BY <1>1, <1>2, SettleIs

\* A decision that is reached on a match.
LEMMA DecideStep ==
  ASSUME BypassInv, NEW a \in Attempts, stage[a] \in {"new", "recognising"}, NEW m,
         DequesOver(m, Range(memory["denied"]), Range(memory["held"])), NEW x,
         Decide(a, m, x)
  PROVE  BypassInv'
<1>1. PICK d \in Outcomes(a, x) : Settle(a, m, d, TRUE)
  BY DEF Decide
<1>2. IsProper(d)
  BY OutcomesAre
<1> QED  BY <1>1, <1>2, SettleStep

\* The deques as they are.
LEMMA AsTheyAre ==
  ASSUME BypassInv
  PROVE  /\ DequesOver(memory, Range(memory["denied"]), Range(memory["held"]))
         /\ DequesOver(Evicted(memory), Range(memory["denied"]), Range(memory["held"]))
<1>1. DequesOver(memory, Range(memory["denied"]), Range(memory["held"]))
  BY DEF BypassInv
<1> QED  BY <1>1, EvictedOver

\* What stays as it is gets no less.
LEMMA NoLess ==
  ASSUME BypassInv, NEW a \in Attempts
  PROVE  due[a]["denied"] >= due[a]["denied"]
<1>1. due[a]["denied"] \in 0..TTL /\ TTL \in Nat
  BY BypassAssumption DEF BypassInv, Times, Kinds
<1> QED  BY <1>1

\* A request arrives.
LEMMA ArriveStep ==
  ASSUME BypassInv, NEW a \in Attempts, Arrive(a)
  PROVE  BypassInv'
<1> DEFINE m == Evicted(memory)
           x == Matched(a, m)
           D == Range(memory["denied"])
           H == Range(memory["held"])
<1>1. DequesOver(m, D, H)
  BY AsTheyAre
<1>2. stage[a] = "new"
  BY DEF Arrive
<1>3. CASE Decide(a, m, x)
  <2> HIDE DEF m, x
  <2> QED  BY <1>1, <1>2, <1>3, DecideStep
<1>4. CASE /\ stage' = [stage EXCEPT ![a] = "recognising"]
           /\ memory' = m /\ UNCHANGED <<outcome, due>>
  <2>1. outcome[a] = Undecided
    BY <1>2 DEF BypassInv, UnderWay
  <2>2. outcome' = [outcome EXCEPT ![a] = Undecided]
    BY <1>4, <2>1 DEF BypassInv
  <2>3. /\ due' \in Times /\ \A b \in Attempts \ {a} : due'[b] = due[b]
        /\ due'[a]["denied"] >= due[a]["denied"]
    BY <1>4, NoLess DEF BypassInv
  <2>4. Becomes(a, "recognising", Undecided)
    BY <1>2, <1>4, <2>2, <2>3 DEF Becomes
  <2>5. \A r \in H : r.of # a
    BY <1>2 DEF BypassInv, IsHold
  <2>6. Fits(a, "recognising", Undecided, D, H)
    BY <2>5 DEF Fits
  <2>7. DequesOver(memory', D, H)
    BY <1>1, <1>4
  <2> QED  BY <2>4, <2>6, <2>7, OneAttempt
<1> QED  BY <1>3, <1>4 DEF Arrive

\* The recogniser has answered, or the session's state has.
LEMMA AnsweredStep ==
  ASSUME BypassInv, NEW a \in Attempts, Recognised(a) \/ Enforce(a)
  PROVE  BypassInv'
<1>1. CASE Recognised(a)
  <2>1. PICK x : Decide(a, memory, x)
    BY <1>1 DEF Recognised
  <2>2. stage[a] = "recognising"
    BY <1>1 DEF Recognised
  <2> QED  BY <2>1, <2>2, AsTheyAre, DecideStep
<1>2. CASE Enforce(a)
  <2>1. stage[a] = "new"
    BY <1>2 DEF Enforce
  <2>2. CASE Decide(a, memory, Unasked)
    BY <2>1, <2>2, AsTheyAre, DecideStep
  <2>3. ASSUME NEW d \in Overlaid(a, Decision("block", TRUE, "policy", TRUE)),
               Settle(a, memory, d, TRUE)
        PROVE  BypassInv'
    <3>1. IsProper(d)
      BY Proper, OverlaidAre
    <3> QED  BY <2>1, <2>3, <3>1, AsTheyAre, SettleStep
  <2>4. ASSUME NEW v \in {"block", "defer"},
               NEW d \in Scoped(Observed(a, Decision(v, TRUE, "policy", TRUE))),
               Settle(a, memory, d, FALSE)
        PROVE  BypassInv'
    <3>1. IsProper(Observed(a, Decision(v, TRUE, "policy", TRUE)))
      BY Proper DEF Observed
    <3>2. IsProper(d)
      BY <3>1, OverlaidAre
    <3> QED  BY <2>1, <2>4, <3>2, AsTheyAre, SettleStep
  <2> QED  BY <1>2, <2>2, <2>3, <2>4 DEF Enforce
<1> QED  BY <1>1, <1>2

\* An operator answers, or the time to answer is over.
LEMMA ResolveStep ==
  ASSUME BypassInv, NEW a \in Attempts, Resolve(a)
  PROVE  BypassInv'
<1>1. PICK v \in {"allow", "block"} :
        LET d == Decision(v, TRUE, "policy", outcome[a].high)
        IN  /\ outcome' = [outcome EXCEPT ![a] = Closed(d)]
            /\ memory' = Resolved(memory, a, d)
            /\ due' = Renewed(due, a, d, TRUE)
  BY DEF Resolve
<1> DEFINE d == Decision(v, TRUE, "policy", outcome[a].high)
           o == Closed(d)
           D == Range(memory["denied"])
           H == Range(memory["held"])
           D1 == D \union (IF d.verdict = "block" THEN Pronounced(a, d, "answer") ELSE {})
           H1 == {r \in H : Event[r.of] # Event[a]}
<1>2. IsDecision(d) /\ d.by = "policy" /\ d.final
  BY DEF IsDecision, Decision
<1>3. o.verdict = d.verdict /\ o.by = "policy"
  BY <1>2, ClosedIs
<1>4. /\ stage[a] = "waiting" /\ stage' = [stage EXCEPT ![a] = "done"]
      /\ outcome' = [outcome EXCEPT ![a] = o]
      /\ memory' = Resolved(memory, a, d)
      /\ due' = Renewed(due, a, d, TRUE)
  BY <1>1 DEF Resolve
<1> HIDE DEF d, o
<1>5. due \in Times
  BY DEF BypassInv
<1>6. /\ due' \in Times /\ \A b \in Attempts \ {a} : due'[b] = due[b]
      /\ d.verdict = "block" /\ d.by # "guard" /\ Memorable(a)
           => due'[a]["denied"] = TTL
      /\ due'[a]["denied"] >= due[a]["denied"]
  <2>1. IsRenewed(due', due, a, d)
    BY <1>4 DEF IsRenewed
  <2> QED  BY <1>5, <2>1, RenewedIs
<1>7. Becomes(a, "done", o)
  BY <1>3, <1>4, <1>6 DEF Becomes
<1>8. \A r \in H1 : r \in H /\ r.of # a
  OBVIOUS
<1>9. \A r \in D1 : r \in D \/ (r.of = a /\ IsDenial(r, "done", o, due'[a]))
  <2> SUFFICES ASSUME d.verdict = "block", NEW r \in Pronounced(a, d, "answer")
               PROVE  r.of = a /\ IsDenial(r, "done", o, due'[a])
    OBVIOUS
  <2>1. IsRecord(r) /\ r.of = a /\ r.left = TTL /\ Memorable(a) /\ d.by # "guard"
    BY NewAre
  <2>2. due'[a]["denied"] = TTL /\ TTL <= TTL
    BY <1>6, <2>1, BypassAssumption
  <2> QED  BY <1>3, <2>1, <2>2 DEF IsDenial
<1>10. DequesOver(memory', D1, H1)
  BY <1>4, AsTheyAre, ResolvedOver
<1> HIDE DEF D1, H1
<1>11. Fits(a, "done", o, D1, H1)
  BY <1>8, <1>9 DEF Fits
<1> QED  BY <1>7, <1>10, <1>11, OneAttempt

\* The client goes away.
LEMMA AbandonStep ==
  ASSUME BypassInv, NEW a \in Attempts, Abandon(a)
  PROVE  BypassInv'
<1> DEFINE D == Range(memory["denied"])
           H == Range(memory["held"])
           s == IF stage[a] = "waiting" THEN "open" ELSE "done"
           o == Closed(outcome[a])
<1>1. /\ stage[a] \in {"recognising", "waiting"} /\ UNCHANGED <<memory, due>>
      /\ stage' = [stage EXCEPT ![a] = s] /\ outcome' = [outcome EXCEPT ![a] = o]
  BY DEF Abandon, BypassInv
<1>2. o.by = outcome[a].by /\ (~outcome[a].final => ~o.final)
  BY DEF Closed
<1>3. s \in {"open", "done"} /\ (stage[a] = "waiting" => s = "open")
  OBVIOUS
<1> HIDE DEF s, o
<1>4. /\ due' \in Times /\ \A b \in Attempts \ {a} : due'[b] = due[b]
      /\ due'[a]["denied"] >= due[a]["denied"]
  BY <1>1, NoLess DEF BypassInv
<1>5. Becomes(a, s, o)
  BY <1>1, <1>2, <1>3, <1>4 DEF Becomes
<1>6. \A r \in H : r.of # a \/ (r.of = a /\ IsHold(r, s, o))
  <2> SUFFICES ASSUME NEW r \in H, r.of = a PROVE IsHold(r, s, o)
    OBVIOUS
  <2>1. IsRecord(r) /\ stage[a] \in {"waiting", "open"} /\ ~outcome[a].final
    BY DEF BypassInv, IsHold
  <2> QED  BY <1>1, <1>2, <1>3, <2>1 DEF IsHold
<1>7. Fits(a, s, o, D, H)
  BY <1>6 DEF Fits
<1>8. DequesOver(memory', D, H)
  BY <1>1, AsTheyAre
<1> QED  BY <1>5, <1>7, <1>8, OneAttempt

\* Time passes for the records and for what is due alike.
LEMMA TickStep ==
  ASSUME BypassInv, Tick
  PROVE  BypassInv'
<1> DEFINE older(r) == [r EXCEPT !.left = Max({@ - 1, 0})]
<1>1. ASSUME NEW k \in {"denied", "held"}
      PROVE  /\ memory'[k] \in Seq(Range(memory'[k]))
             /\ \A q \in Range(memory'[k]) : \E r \in Range(memory[k]) : q = older(r)
  <2> DEFINE s == memory[k]
             t == memory'[k]
             n == Len(s)
  <2>1. k \in Kinds
    BY DEF Kinds
  <2>2. t = [i \in DOMAIN s |-> older(s[i])]
    BY <2>1 DEF Tick
  <2>3. s \in Seq(Range(s))
    BY AsTheyAre DEF DequesOver
  <2>4. DOMAIN s = 1..n /\ n \in Nat
    BY <2>3
  <2> HIDE DEF s, t, n, older
  <2>5. t = [i \in 1..n |-> t[i]] /\ DOMAIN t = 1..n
    BY <2>2, <2>4
  <2>6. \A i \in 1..n : t[i] \in Range(t)
    BY <2>5 DEF Range
  <2>7. t \in Seq(Range(t))
    <3> DEFINE S == Range(t)
    <3> HIDE DEF S
    <3>1. t \in [1..n -> S]
      BY <2>5, <2>6 DEF S
    <3>2. t \in Seq(S)
      BY <2>4, <3>1
    <3> QED  BY <3>2 DEF S
  <2>8. \A q \in Range(t) : \E r \in Range(s) : q = older(r)
    <3> SUFFICES ASSUME NEW q \in Range(t) PROVE \E r \in Range(s) : q = older(r)
      OBVIOUS
    <3>1. PICK i \in DOMAIN t : q = t[i]
      BY DEF Range
    <3>2. i \in DOMAIN s /\ q = older(s[i])
      BY <2>2, <2>4, <2>5, <3>1
    <3>3. s[i] \in Range(s)
      BY <3>2 DEF Range
    <3> QED  BY <3>2, <3>3
  <2> QED  BY <2>7, <2>8 DEF s, t
<1> DEFINE D == Range(memory'["denied"])
           H == Range(memory'["held"])
<1>2. DequesOver(memory', D, H)
  <2>1. memory' = [k \in Kinds |-> memory'[k]]
    BY DEF Tick
  <2> QED  BY <1>1, <2>1 DEF DequesOver
<1>3. ASSUME NEW r, IsRecord(r)
      PROVE  /\ IsRecord(older(r)) /\ older(r).of = r.of /\ older(r).on = r.on
             /\ older(r).left = Max({r.left - 1, 0})
  <2>1. r.left \in Nat /\ Max({r.left - 1, 0}) \in Nat
    <3>1. r.left \in Nat /\ r.left - 1 \in Int /\ 0 \in Int
      BY <1>3 DEF IsRecord
    <3>2. Max({r.left - 1, 0}) \in {r.left - 1, 0} /\ Max({r.left - 1, 0}) >= 0
      BY <3>1, MaxOfTwo
    <3> QED  BY <3>1, <3>2
  <2> QED  BY <1>3, <2>1 DEF IsRecord
<1> HIDE DEF older
<1>4. due' \in Times /\ \A b \in Attempts : due'[b]["denied"] = Max({due[b]["denied"] - 1, 0})
  <2>1. due' = [a \in Attempts |-> [k \in Kinds |-> Max({due[a][k] - 1, 0})]]
    BY DEF Tick
  <2>2. \A a \in Attempts, k \in Kinds : Max({due[a][k] - 1, 0}) \in 0..TTL
    <3> SUFFICES ASSUME NEW a \in Attempts, NEW k \in Kinds
                 PROVE  Max({due[a][k] - 1, 0}) \in 0..TTL
      OBVIOUS
    <3>1. due[a][k] - 1 \in Int /\ 0 \in Int /\ due[a][k] \in 0..TTL /\ TTL \in Nat
      BY BypassAssumption DEF BypassInv, Times
    <3>2. /\ Max({due[a][k] - 1, 0}) \in {due[a][k] - 1, 0}
          /\ Max({due[a][k] - 1, 0}) >= 0
      BY <3>1, MaxOfTwo
    <3> QED  BY <3>1, <3>2
  <2>3. "denied" \in Kinds
    BY DEF Kinds
  <2> QED  BY <2>1, <2>2, <2>3 DEF Times
<1>5. UNCHANGED <<stage, outcome>>
  BY DEF Tick
<1>6. ASSUME NEW q \in D
      PROVE  IsDenial(q, stage'[q.of], outcome'[q.of], due'[q.of])
  <2>1. PICK r \in Range(memory["denied"]) : q = older(r)
    BY <1>1
  <2>2. /\ IsDenial(r, stage[r.of], outcome[r.of], due[r.of])
        /\ IsRecord(r) /\ r.of \in Attempts /\ r.left \in Nat
    BY DEF BypassInv, IsDenial, IsRecord
  <2>3. IsRecord(q) /\ q.of = r.of /\ q.on = r.on /\ q.left = Max({r.left - 1, 0})
    BY <1>3, <2>1, <2>2
  <2>4. due'[r.of]["denied"] = Max({due[r.of]["denied"] - 1, 0})
    BY <1>4, <2>2
  <2>5. q.left <= due'[r.of]["denied"]
    <3> DEFINE i == r.left
               j == due[r.of]["denied"]
    <3>1. i \in Nat /\ j \in Nat /\ i <= j
      BY <2>2, BypassAssumption DEF IsDenial, BypassInv, Times, Kinds
    <3> HIDE DEF i, j
    <3>2. i - 1 \in Int /\ j - 1 \in Int /\ 0 \in Int
      BY <3>1
    <3>3. /\ Max({i - 1, 0}) \in {i - 1, 0}
          /\ Max({j - 1, 0}) >= j - 1 /\ Max({j - 1, 0}) >= 0
      BY <3>2, MaxOfTwo
    <3>4. Max({j - 1, 0}) \in Int
      BY <3>2, MaxOfTwo
    <3>5. Max({i - 1, 0}) <= Max({j - 1, 0})
      BY <3>1, <3>3, <3>4
    <3> QED  BY <2>3, <2>4, <3>5 DEF i, j
  <2> QED  BY <1>5, <2>2, <2>3, <2>5 DEF IsDenial
<1>7. ASSUME NEW q \in H
      PROVE  IsHold(q, stage'[q.of], outcome'[q.of])
  <2>1. PICK r \in Range(memory["held"]) : q = older(r)
    BY <1>1
  <2>2. IsHold(r, stage[r.of], outcome[r.of]) /\ IsRecord(r)
    BY DEF BypassInv, IsHold
  <2>3. IsRecord(q) /\ q.of = r.of
    BY <1>3, <2>1, <2>2
  <2> QED  BY <1>5, <2>2, <2>3 DEF IsHold
<1>8. /\ stage' \in [Attempts -> Stages] /\ UnderWay'
      /\ outcome' = [a \in Attempts |-> outcome'[a]]
  BY <1>5 DEF BypassInv, UnderWay
<1> QED  BY <1>2, <1>4, <1>6, <1>7, <1>8, MemoryAfter

\* The invariant holds throughout.
THEOREM BypassInductive == Spec => []BypassInv
<1>1. Init => BypassInv
  <2> SUFFICES ASSUME Init PROVE BypassInv
    OBVIOUS
  <2>1. memory = [k \in Kinds |-> <<>>]
    BY DEF Init
  <2>2. memory["denied"] = <<>> /\ memory["held"] = <<>>
    BY <2>1 DEF Kinds
  <2>3. Range(memory["denied"]) = {} /\ Range(memory["held"]) = {}
    <3>1. Range(<<>>) = {}
      BY DEF Range
    <3> QED  BY <2>2, <3>1
  <2>4. DequesOver(memory, Range(memory["denied"]), Range(memory["held"]))
    <3>1. memory = [k \in Kinds |-> memory[k]]
      BY <2>1
    <3>2. <<>> \in Seq(Range(memory["denied"])) /\ <<>> \in Seq(Range(memory["held"]))
      OBVIOUS
    <3> QED  BY <2>2, <3>1, <3>2 DEF DequesOver
  <2>5. due \in Times /\ stage \in [Attempts -> Stages]
    BY BypassAssumption DEF Init, Times, Stages
  <2>6. outcome = [a \in Attempts |-> outcome[a]] /\ UnderWay
    BY DEF Init, UnderWay
  <2> QED  BY <2>3, <2>4, <2>5, <2>6 DEF BypassInv
<1>2. BypassInv /\ [Next]_vars => BypassInv'
  <2> SUFFICES ASSUME BypassInv, [Next]_vars PROVE BypassInv'
    OBVIOUS
  <2>1. CASE Next
    BY <2>1, ArriveStep, AnsweredStep, ResolveStep, AbandonStep, TickStep DEF Next
  <2>2. CASE UNCHANGED vars
    BY <2>2 DEF vars, BypassInv, DequesOver, UnderWay, IsDenial, IsHold
  <2> QED  BY <2>1, <2>2
<1> QED  BY <1>1, <1>2, PTL DEF Spec

\* MemoryGrounded: what the guard holds against an attempt as denied is a block that
\* policy or an operator has pronounced, for no longer than it has become due, and
\* the answer to the attempt unless that is a confirmation which was asked about
\* afterwards; and what it holds as pending is a deferral still to be resolved.
THEOREM MemoryIsGrounded == Spec => []MemoryGrounded
<1>1. BypassInv => MemoryGrounded
  BY DEF BypassInv, MemoryGrounded, IsDenial, IsHold
<1> QED  BY <1>1, BypassInductive, PTL

-----------------------------------------------------------------------------
(* Deques whose records stand in the order in which they became due. *)

\* What a record is of, and what an attempt may have records of.
Sort(k, r) == IF k = "prior" THEN k ELSE r.capability
Sorts(k, b) == IF k = "prior" THEN {k} ELSE Capabilities(b)

\* A confirmation may be denied twice, by a decision and by the answer to it.
Twice(k, b) == k = "denied" /\ b \in Confirms

\* What tells the records of a deque apart.
Mark(k, r) == <<r.of, Sort(k, r), IF Twice(k, r.of) THEN r.on ELSE "decision">>

Shaped(k, r) ==
  r = IF k = "prior" THEN [of |-> r.of, left |-> r.left]
      ELSE [of |-> r.of, capability |-> r.capability, high |-> r.high, left |-> r.left,
            on |-> r.on]

\* A record of an attempt that is due for as long as the record lives, or longer.
Logged(k, L, r) ==
  /\ Shaped(k, r) /\ r.of \in Attempts /\ Mark(k, r) \in Marks(k, r.of)
  /\ r.left \in Nat /\ L[r.of] \in Nat /\ r.left <= L[r.of]

Before(k, q, r) == q.left <= r.left /\ Mark(k, q) # Mark(k, r)

\* s is a deque of kind k that is in line with the times L.
InLine(k, s, L) ==
  /\ s \in Seq(Range(s))
  /\ \A r \in Range(s) : Logged(k, L, r)
  /\ \A i, j \in 1..Len(s) : i < j => Before(k, s[i], s[j])

\* The positions of a sequence.
LEMMA Positions ==
  ASSUME NEW s, s \in Seq(Range(s))
  PROVE  /\ Len(s) \in Nat /\ DOMAIN s = 1..Len(s)
         /\ \A i \in 1..Len(s) : s[i] \in Range(s)
         /\ \A r \in Range(s) : \E i \in 1..Len(s) : r = s[i]
<1>1. Len(s) \in Nat /\ DOMAIN s = 1..Len(s)
  OBVIOUS
<1> QED  BY <1>1 DEF Range

\* One deque behind another.
LEMMA JoinInLine ==
  ASSUME NEW k, NEW L, NEW s, NEW t, InLine(k, s, L), InLine(k, t, L),
         \A q \in Range(s), r \in Range(t) : Before(k, q, r)
  PROVE  InLine(k, s \o t, L) /\ Range(s \o t) = Range(s) \union Range(t)
<1> DEFINE u == s \o t
           m == Len(s)
           n == Len(t)
           S == Range(s)
           T == Range(t)
           U == S \union T
<1>1. /\ s \in Seq(S) /\ t \in Seq(T)
      /\ \A i, j \in 1..m : i < j => Before(k, s[i], s[j])
      /\ \A i, j \in 1..n : i < j => Before(k, t[i], t[j])
  BY DEF InLine
<1>2. /\ m \in Nat /\ n \in Nat
      /\ \A i \in 1..m : s[i] \in S
      /\ \A i \in 1..n : t[i] \in T
      /\ \A r \in S : \E i \in 1..m : r = s[i]
      /\ \A r \in T : \E i \in 1..n : r = t[i]
  BY <1>1, Positions
<1>3. s \in Seq(U) /\ t \in Seq(U)
  <2> HIDE DEF S, T
  <2> QED  BY <1>1, SeqOver
<1>4. /\ u \in Seq(U) /\ Len(u) = m + n /\ DOMAIN u = 1..(m + n)
      /\ \A i \in 1..m : u[i] = s[i]
      /\ \A i \in (m + 1)..(m + n) : u[i] = t[i - m]
  <2> HIDE DEF U
  <2> QED  BY <1>3
<1> HIDE DEF u, S, T
<1>5. Range(u) = U
  <2>1. ASSUME NEW r \in Range(u) PROVE r \in U
    <3>1. PICK i \in 1..(m + n) : r = u[i]
      BY <1>4 DEF Range
    <3>2. CASE i \in 1..m
      BY <1>2, <1>4, <3>1, <3>2
    <3>3. CASE i \in (m + 1)..(m + n)
      <4>1. i - m \in 1..n /\ r = t[i - m]
        BY <1>2, <1>4, <3>1, <3>3
      <4> QED  BY <1>2, <4>1
    <3> QED  BY <1>2, <3>1, <3>2, <3>3
  <2>2. ASSUME NEW r \in S PROVE r \in Range(u)
    <3>1. PICK i \in 1..m : r = s[i]
      BY <1>2
    <3>2. i \in 1..(m + n) /\ r = u[i]
      BY <1>2, <1>4, <3>1
    <3> QED  BY <1>4, <3>2 DEF Range
  <2>3. ASSUME NEW r \in T PROVE r \in Range(u)
    <3>1. PICK i \in 1..n : r = t[i]
      BY <1>2
    <3>2. m + i \in (m + 1)..(m + n) /\ (m + i) - m = i /\ m + i \in 1..(m + n)
      BY <1>2
    <3>3. r = u[m + i]
      BY <1>4, <3>1, <3>2
    <3> QED  BY <1>4, <3>2, <3>3 DEF Range
  <2> QED  BY <2>1, <2>2, <2>3
<1>6. \A r \in Range(u) : Logged(k, L, r)
  BY <1>5 DEF InLine, S, T
<1>7. ASSUME NEW i \in 1..(m + n), NEW j \in 1..(m + n), i < j
      PROVE  Before(k, u[i], u[j])
  <2>1. CASE j \in 1..m
    <3>1. i \in 1..m
      BY <1>2, <1>7, <2>1
    <3> QED  BY <1>1, <1>4, <1>7, <2>1, <3>1
  <2>2. CASE i \in 1..m /\ j \in (m + 1)..(m + n)
    <3>1. j - m \in 1..n /\ u[j] = t[j - m] /\ u[i] = s[i]
      BY <1>2, <1>4, <2>2
    <3>2. u[i] \in S /\ u[j] \in T
      BY <1>2, <2>2, <3>1
    <3> QED  BY <3>2 DEF S, T
  <2>3. CASE i \in (m + 1)..(m + n)
    <3>1. /\ j \in (m + 1)..(m + n) /\ i - m \in 1..n /\ j - m \in 1..n /\ i - m < j - m
      BY <1>2, <1>7, <2>3
    <3>2. u[i] = t[i - m] /\ u[j] = t[j - m]
      BY <1>4, <2>3, <3>1
    <3> QED  BY <1>1, <3>1, <3>2
  <2>4. i \in 1..m \/ i \in (m + 1)..(m + n)
    BY <1>2
  <2>5. j \in 1..m \/ j \in (m + 1)..(m + n)
    BY <1>2
  <2> QED  BY <2>1, <2>2, <2>3, <2>4, <2>5
<1>8. u \in Seq(Range(u))
  BY <1>4, <1>5
<1>9. InLine(k, u, L)
  BY <1>4, <1>6, <1>7, <1>8 DEF InLine
<1> QED  BY <1>5, <1>9 DEF u, S, T

\* The end of a deque.
LEMMA EndInLine ==
  ASSUME NEW k, NEW L, NEW s, InLine(k, s, L), NEW i \in 1..(Len(s) + 1)
  PROVE  /\ InLine(k, SubSeq(s, i, Len(s)), L)
         /\ Range(SubSeq(s, i, Len(s))) = {s[j] : j \in i..Len(s)}
<1> DEFINE S == Range(s)
           n == Len(s)
           t == SubSeq(s, i, n)
           m == n - i + 1
<1>1. /\ s \in Seq(S) /\ \A h, j \in 1..n : h < j => Before(k, s[h], s[j])
      /\ \A r \in S : Logged(k, L, r)
  BY DEF InLine
<1>2. n \in Nat /\ \A j \in 1..n : s[j] \in S
  BY <1>1, Positions
<1>3. m \in Nat /\ i \in Nat
  BY <1>2
<1>4. /\ t \in Seq(S) /\ Len(t) = m /\ DOMAIN t = 1..m
      /\ \A j \in 1..m : t[j] = s[i + j - 1]
  <2> HIDE DEF S
  <2> QED  BY <1>1, <1>2, <1>3
<1> HIDE DEF t, m, S
<1>5. Range(t) = {s[j] : j \in i..n}
  <2>1. ASSUME NEW r \in Range(t) PROVE r \in {s[j] : j \in i..n}
    <3>1. PICK j \in 1..m : r = t[j]
      BY <1>4 DEF Range
    <3>2. i + j - 1 \in i..n
      BY <1>2, <1>3 DEF m
    <3> QED  BY <1>4, <3>1, <3>2
  <2>2. ASSUME NEW j \in i..n PROVE s[j] \in Range(t)
    <3>1. j - i + 1 \in 1..m /\ i + (j - i + 1) - 1 = j
      BY <1>2, <1>3 DEF m
    <3>2. t[j - i + 1] = s[j]
      BY <1>4, <3>1
    <3> QED  BY <1>4, <3>1, <3>2 DEF Range
  <2> QED  BY <2>1, <2>2
<1>6. Range(t) \subseteq S
  BY <1>2, <1>3, <1>5
<1>7. t \in Seq(Range(t))
  BY <1>4, OwnMembers
<1>8. ASSUME NEW h \in 1..m, NEW j \in 1..m, h < j PROVE Before(k, t[h], t[j])
  <2>1. /\ i + h - 1 \in 1..n /\ i + j - 1 \in 1..n /\ i + h - 1 < i + j - 1
    BY <1>2, <1>3, <1>8 DEF m
  <2> QED  BY <1>1, <1>4, <2>1
<1>9. InLine(k, t, L)
  BY <1>1, <1>4, <1>6, <1>7, <1>8 DEF InLine
<1> QED  BY <1>5, <1>9 DEF t

\* The deque has room for what has become due last.
Room(k, L, n) == UNION {Marks(k, c) : c \in {b \in Attempts : L[b] >= n}}

\* What is remembered of any attempts is finite.
LEMMA RoomIsFinite ==
  ASSUME NEW k, NEW L, NEW n
  PROVE  IsFiniteSet(Room(k, L, n))
<1> DEFINE A == {b \in Attempts : L[b] >= n}
           T == {Marks(k, c) : c \in A}
<1>1. IsFiniteSet(A)
  BY BypassAssumption, FS_Subset
<1>2. ASSUME NEW c \in A PROVE IsFiniteSet(Marks(k, c))
  <2> DEFINE caps == Effect[c].capabilities
             C == IF k = "prior" THEN {k} ELSE Capabilities(c)
  <2>1. DOMAIN caps = 1..Len(caps) /\ Len(caps) \in Nat
    <3>1. caps \in Seq(STRING)
      BY BypassAssumption
    <3> QED  BY <3>1
  <2>2. IsFiniteSet(1..Len(caps))
    <3> HIDE DEF caps, C
    <3>1. 1 \in Int /\ Len(caps) \in Int
      BY <2>1
    <3> QED  BY ONLY <3>1, FS_Interval
  <2>3. caps \in Surjection(1..Len(caps), Capabilities(c))
    <3>1. caps = [i \in 1..Len(caps) |-> caps[i]]
      <4>1. caps \in Seq(STRING)
        BY BypassAssumption
      <4> QED  BY <2>1, <4>1
    <3> HIDE DEF caps
    <3>2. Capabilities(c) = {caps[i] : i \in 1..Len(caps)}
      BY <2>1 DEF Capabilities, Range, caps
    <3> QED  BY <3>1, <3>2 DEF Surjection
  <2>4. IsFiniteSet(Capabilities(c))
    BY <2>2, <2>3, FS_Surjection
  <2>5. IsFiniteSet({k}) /\ IsFiniteSet({c})
    BY FS_Singleton
  <2>6. IsFiniteSet(C)
    BY <2>4, <2>5
  <2> HIDE DEF C
  <2>7. IsFiniteSet({"decision", "answer"}) /\ IsFiniteSet({"decision"})
    <3>1. IsFiniteSet({"decision"}) /\ IsFiniteSet({"answer"})
      BY ONLY FS_Singleton
    <3>2. IsFiniteSet({"decision"} \union {"answer"})
      BY ONLY <3>1, FS_Union
    <3>3. {"decision"} \union {"answer"} = {"decision", "answer"}
      OBVIOUS
    <3> QED  BY <3>1, <3>2, <3>3
  <2> DEFINE Y == IF k = "denied" /\ c \in Confirms THEN {"decision", "answer"}
                  ELSE {"decision"}
             g == [p \in C \X Y |-> <<c, p[1], p[2]>>]
  <2>8. IsFiniteSet(Y)
    BY <2>7
  <2>9. Marks(k, c) = {c} \X C \X Y
    BY DEF Marks, C
  <2> HIDE DEF Y
  <2>10. IsFiniteSet(C \X Y)
    BY <2>6, <2>8, FS_Product
  <2>11. g \in Surjection(C \X Y, {c} \X C \X Y)
    <3>1. g \in [C \X Y -> {c} \X C \X Y]
      OBVIOUS
    <3>2. ASSUME NEW z \in {c} \X C \X Y
          PROVE  \E p \in C \X Y : g[p] = z
      <4>1. PICK x \in C, y \in Y : z = <<c, x, y>>
        OBVIOUS
      <4>2. <<x, y>> \in C \X Y /\ g[<<x, y>>] = z
        BY <4>1
      <4> QED  BY <4>2
    <3> QED  BY <3>1, <3>2 DEF Surjection
  <2> HIDE DEF g
  <2>12. IsFiniteSet({c} \X C \X Y)
    BY <2>10, <2>11, FS_Surjection
  <2> QED  BY <2>9, <2>12
<1>3. IsFiniteSet(T)
  <2> DEFINE f == [c \in A |-> Marks(k, c)]
  <2> HIDE DEF A
  <2>1. f \in Surjection(A, T)
    BY DEF Surjection
  <2> HIDE DEF f, T
  <2> QED  BY <1>1, <2>1, FS_Surjection
<1>4. \A S \in T : IsFiniteSet(S)
  BY <1>2
<1> HIDE DEF T
<1>5. IsFiniteSet(UNION T)
  BY <1>3, <1>4, FS_UNION
<1> QED  BY <1>5 DEF T, Room

\* Not more records stand behind one than have become due since.
LEMMA FewBehind ==
  ASSUME NEW k, NEW L, NEW s, InLine(k, s, L), NEW p \in 1..Len(s)
  PROVE  Len(s) - p + 1 <= Cardinality(Room(k, L, s[p].left))
<1> DEFINE n == Len(s)
           R == Room(k, L, s[p].left)
           f == [j \in p..n |-> Mark(k, s[j])]
<1>1. n \in Nat /\ \A j \in 1..n : s[j] \in Range(s)
  BY Positions DEF InLine
<1>2. \A j \in 1..n : Logged(k, L, s[j])
  BY <1>1 DEF InLine
<1>3. ASSUME NEW j \in p..n PROVE f[j] \in R
  <2>1. j \in 1..n /\ (j = p \/ p < j)
    BY <1>1
  <2>2. s[p].left <= s[j].left
    <3>1. CASE j = p
      BY <1>2, <3>1 DEF Logged
    <3>2. CASE p < j
      BY <2>1, <3>2 DEF InLine, Before
    <3> QED  BY <2>1, <3>1, <3>2
  <2>3. /\ s[j].of \in Attempts /\ L[s[j].of] >= s[p].left
        /\ Mark(k, s[j]) \in Marks(k, s[j].of)
    <3>1. /\ Logged(k, L, s[j]) /\ s[p].left \in Nat
      BY <1>2, <2>1 DEF Logged
    <3> QED  BY <2>2, <3>1 DEF Logged
  <2> QED  BY <2>3 DEF Room
<1>4. ASSUME NEW i \in p..n, NEW j \in p..n, f[i] = f[j] PROVE i = j
  <2>1. i \in 1..n /\ j \in 1..n
    BY <1>1
  <2>2. ~(i < j) /\ ~(j < i)
    BY <1>4, <2>1 DEF InLine, Before
  <2> QED  BY <1>1, <2>2
<1>5. f \in Injection(p..n, R)
  <2> HIDE DEF R
  <2>1. f \in [p..n -> R]
    BY <1>3
  <2> HIDE DEF f
  <2> QED  BY <1>4, <2>1 DEF Injection, IsInjective
<1>6. IsFiniteSet(R)
  BY RoomIsFinite
<1> HIDE DEF f, R
<1>7. Cardinality(p..n) <= Cardinality(R)
  BY <1>5, <1>6, FS_Injection
<1>8. Cardinality(p..n) = n - p + 1
  BY <1>1, FS_Interval
<1> QED  BY <1>7, <1>8 DEF R

\* A deque that is kept within its size keeps what there is room for.
LEMMA CappedInLine ==
  ASSUME NEW k, NEW L, NEW s, InLine(k, s, L)
  PROVE  /\ InLine(k, Capped(s), L) /\ Range(Capped(s)) \subseteq Range(s)
         /\ \A r \in Range(s) :
              Cardinality(Room(k, L, r.left)) <= MaxRecords => r \in Range(Capped(s))
<1> DEFINE n == Len(s)
           low == Max({0, n - MaxRecords})
           t == SubSeq(s, low + 1, n)
<1>1. n \in Nat /\ MaxRecords \in Nat /\ 0 \in Int /\ n - MaxRecords \in Int
  BY BypassAssumption, Positions DEF InLine
<1>2. low \in {0, n - MaxRecords} /\ low >= 0
  BY <1>1, MaxOfTwo
<1>3. low + 1 \in 1..(n + 1) /\ low \in Nat
  BY <1>1, <1>2
<1> HIDE DEF low
<1>4. InLine(k, t, L) /\ Range(t) = {s[j] : j \in (low + 1)..n}
  BY <1>3, EndInLine
<1>5. /\ \A j \in 1..n : s[j] \in Range(s)
      /\ \A r \in Range(s) : \E j \in 1..n : r = s[j]
  BY Positions DEF InLine
<1>6. Range(t) \subseteq Range(s)
  BY <1>1, <1>3, <1>4, <1>5
<1>7. ASSUME NEW r \in Range(s), Cardinality(Room(k, L, r.left)) <= MaxRecords
      PROVE  r \in Range(t)
  <2>1. PICK p \in 1..n : r = s[p]
    BY <1>5
  <2>2. n - p + 1 <= Cardinality(Room(k, L, r.left))
    BY <2>1, FewBehind
  <2>3. Cardinality(Room(k, L, r.left)) \in Nat
    BY RoomIsFinite, FS_CardinalityType
  <2>4. n - p + 1 <= MaxRecords
    BY <1>1, <1>7, <2>2, <2>3
  <2>5. p \in (low + 1)..n
    BY <1>1, <1>2, <2>4
  <2> QED  BY <1>4, <2>1, <2>5
<1> HIDE DEF t, n
<1>8. Capped(s) = t
  BY DEF Capped, t, n, low
<1> QED  BY <1>4, <1>6, <1>7, <1>8

\* A deque from which the expired records go keeps what is alive.
LEMMA EvictedInLine ==
  ASSUME NEW k \in Kinds, NEW L, NEW m, InLine(k, m[k], L)
  PROVE  /\ InLine(k, Evicted(m)[k], L) /\ Range(Evicted(m)[k]) \subseteq Range(m[k])
         /\ \A r \in Range(m[k]) : r.left > 0 => r \in Range(Evicted(m)[k])
<1> DEFINE s == m[k]
           n == Len(s)
           live == {i \in DOMAIN s : s[i].left > 0}
<1>1. Evicted(m)[k] = IF live = {} THEN <<>> ELSE SubSeq(s, Min(live), n)
  BY DEF Evicted
<1>2. /\ n \in Nat /\ DOMAIN s = 1..n
      /\ \A j \in 1..n : s[j] \in Range(s)
      /\ \A r \in Range(s) : \E j \in 1..n : r = s[j]
  BY Positions DEF InLine
<1>3. live \in SUBSET Nat /\ live \subseteq 1..n
  BY <1>2
<1>0. \A j \in 1..n : s[j].left > 0 => j \in live
  BY <1>2
<1>4. CASE live = {}
  <2>1. Evicted(m)[k] = <<>>
    BY <1>1, <1>4
  <2>2. Range(<<>>) = {} /\ <<>> \in Seq(Range(<<>>)) /\ Len(<<>>) = 0
    BY DEF Range
  <2>3. InLine(k, <<>>, L)
    BY <2>2 DEF InLine
  <2>4. \A r \in Range(s) : ~(r.left > 0)
    BY <1>0, <1>2, <1>4
  <2> QED  BY <2>1, <2>2, <2>3, <2>4
<1>5. CASE live # {}
  <2> DEFINE low == Min(live)
             t == SubSeq(s, low, n)
  <2>1. low \in live /\ \A i \in live : low <= i
    BY <1>3, <1>5, LeastBelow
  <2>2. low \in 1..(n + 1) /\ low \in Nat
    BY <1>2, <1>3, <2>1
  <2>3. InLine(k, s, L)
    OBVIOUS
  <2> HIDE DEF low, live, s
  <2>4. InLine(k, t, L) /\ Range(t) = {s[j] : j \in low..n}
    BY <2>2, <2>3, EndInLine DEF n
  <2>5. Range(t) \subseteq Range(s)
    BY <1>2, <2>2, <2>4
  <2>6. ASSUME NEW r \in Range(s), r.left > 0 PROVE r \in Range(t)
    <3>1. PICK j \in 1..n : r = s[j]
      BY <1>2
    <3>2. j \in live
      BY <1>0, <2>6, <3>1
    <3>3. j \in low..n
      BY <1>2, <2>1, <2>2, <3>2
    <3> QED  BY <2>4, <3>1, <3>3
  <2>7. Evicted(m)[k] = t
    BY <1>1, <1>5 DEF low
  <2> HIDE DEF t
  <2> QED  BY <2>4, <2>5, <2>6, <2>7 DEF s
<1> QED  BY <1>4, <1>5

-----------------------------------------------------------------------------
(* Deques that miss nothing there is room for. *)

Has(k, S, b, x, n) == \E r \in S : r.of = b /\ Sort(k, r) = x /\ r.left = n

Complete(k, s, L, B) ==
  \A b \in B : L[b] > 0 /\ Cardinality(Room(k, L, L[b])) <= MaxRecords =>
    \A x \in Sorts(k, b) : Has(k, Range(s), b, x, L[b])

\* s is in line and has all that the attempts in B are due to be remembered by.
Sound(k, s, L, B) == InLine(k, s, L) /\ Complete(k, s, L, B)

\* What is due to fewer attempts.
LEMMA PartSound ==
  ASSUME NEW k, NEW s, NEW L, NEW B, Sound(k, s, L, B), NEW C, C \subseteq B
  PROVE  Sound(k, s, L, C)
BY DEF Sound, Complete

\* A deque that is kept within its size.
LEMMA CappedSound ==
  ASSUME NEW k, NEW s, NEW L, NEW B, Sound(k, s, L, B)
  PROVE  Sound(k, Capped(s), L, B)
<1>1. InLine(k, s, L) /\ Complete(k, s, L, B)
  BY DEF Sound
<1>2. /\ InLine(k, Capped(s), L)
      /\ \A r \in Range(s) :
           Cardinality(Room(k, L, r.left)) <= MaxRecords => r \in Range(Capped(s))
  BY <1>1, CappedInLine
<1>3. Complete(k, Capped(s), L, B)
  <2> SUFFICES ASSUME NEW b \in B, L[b] > 0,
                      Cardinality(Room(k, L, L[b])) <= MaxRecords,
                      NEW x \in Sorts(k, b)
               PROVE  Has(k, Range(Capped(s)), b, x, L[b])
    BY DEF Complete
  <2>1. PICK r \in Range(s) : r.of = b /\ Sort(k, r) = x /\ r.left = L[b]
    BY <1>1 DEF Complete, Has
  <2> QED  BY <1>2, <2>1 DEF Has
<1> QED  BY <1>2, <1>3 DEF Sound

\* A deque from which the expired records go.
LEMMA EvictedSound ==
  ASSUME NEW k \in Kinds, NEW m, NEW L, NEW B, Sound(k, m[k], L, B)
  PROVE  /\ Sound(k, Evicted(m)[k], L, B)
         /\ Range(Evicted(m)[k]) \subseteq Range(m[k])
<1>1. InLine(k, m[k], L) /\ Complete(k, m[k], L, B)
  BY DEF Sound
<1>2. /\ InLine(k, Evicted(m)[k], L) /\ Range(Evicted(m)[k]) \subseteq Range(m[k])
      /\ \A r \in Range(m[k]) : r.left > 0 => r \in Range(Evicted(m)[k])
  BY <1>1, EvictedInLine
<1>3. Complete(k, Evicted(m)[k], L, B)
  <2> SUFFICES ASSUME NEW b \in B, L[b] > 0,
                      Cardinality(Room(k, L, L[b])) <= MaxRecords,
                      NEW x \in Sorts(k, b)
               PROVE  Has(k, Range(Evicted(m)[k]), b, x, L[b])
    BY DEF Complete
  <2>1. PICK r \in Range(m[k]) : r.of = b /\ Sort(k, r) = x /\ r.left = L[b]
    BY <1>1 DEF Complete, Has
  <2> QED  BY <1>2, <2>1 DEF Has
<1> QED  BY <1>2, <1>3 DEF Sound

\* A deque to which records of a are added, which have marks that none of it has.
LEMMA AddedSound ==
  ASSUME NEW k, NEW s, NEW L \in [Attempts -> Nat], NEW B \in SUBSET Attempts,
         Sound(k, s, L, B), NEW a \in Attempts, NEW n \in Nat,
         \A c \in Attempts : L[c] <= n,
         NEW t, InLine(k, t, [L EXCEPT ![a] = n]),
         \A r \in Range(t) : r.left = n,
         \A x \in Sorts(k, a) : Has(k, Range(t), a, x, n),
         \A q \in Range(s), r \in Range(t) : Mark(k, q) # Mark(k, r)
  PROVE  Sound(k, Capped(s \o t), [L EXCEPT ![a] = n], B \union {a})
<1> DEFINE M == [L EXCEPT ![a] = n]
<1>1. /\ M[a] = n /\ M \in [Attempts -> Nat]
      /\ \A c \in Attempts \ {a} : M[c] = L[c]
      /\ \A c \in Attempts : L[c] <= M[c]
  OBVIOUS
<1>2. InLine(k, t, M)
  OBVIOUS
<1>0. \A r \in Range(t) : r.left = n
  OBVIOUS
<1> HIDE DEF M
<1>3. InLine(k, s, L) /\ Complete(k, s, L, B)
  BY DEF Sound
<1>4. ASSUME NEW r \in Range(s)
      PROVE  Logged(k, M, r) /\ r.left <= n
  <2>1. /\ Logged(k, L, r) /\ r.of \in Attempts /\ r.left \in Nat
        /\ L[r.of] \in Nat /\ r.left <= L[r.of]
    BY <1>3 DEF InLine, Logged
  <2>2. M[r.of] \in Nat /\ r.left <= M[r.of] /\ r.left <= n
    BY <1>1, <2>1
  <2> QED  BY <2>1, <2>2 DEF Logged
<1>5. InLine(k, s, M)
  BY <1>3, <1>4 DEF InLine
<1>6. \A q \in Range(s), r \in Range(t) : Before(k, q, r)
  <2> SUFFICES ASSUME NEW q \in Range(s), NEW r \in Range(t) PROVE Before(k, q, r)
    OBVIOUS
  <2>1. r.left = n /\ q.left <= n
    BY <1>0, <1>4
  <2> QED  BY <2>1 DEF Before
<1>7. InLine(k, s \o t, M) /\ Range(s \o t) = Range(s) \union Range(t)
  <2> HIDE DEF M
  <2> QED  BY ONLY <1>2, <1>5, <1>6, JoinInLine
<1>8. Complete(k, s \o t, M, B \union {a})
  <2> SUFFICES ASSUME NEW b \in B \union {a}, M[b] > 0,
                      Cardinality(Room(k, M, M[b])) <= MaxRecords,
                      NEW x \in Sorts(k, b)
               PROVE  Has(k, Range(s) \union Range(t), b, x, M[b])
    BY <1>7 DEF Complete
  <2>1. CASE b = a
    <3>1. Has(k, Range(t), a, x, n)
      BY <2>1
    <3> QED  BY <1>1, <2>1, <3>1 DEF Has
  <2>2. CASE b # a
    <3>1. b \in B /\ b \in Attempts /\ M[b] = L[b]
      BY <1>1, <2>2
    <3>2. Room(k, L, L[b]) \subseteq Room(k, M, M[b])
      <4>1. \A c \in Attempts : L[c] >= L[b] => M[c] >= M[b]
        BY <1>1, <3>1
      <4> QED  BY <4>1 DEF Room
    <3>3. /\ Cardinality(Room(k, L, L[b])) <= Cardinality(Room(k, M, M[b]))
          /\ Cardinality(Room(k, L, L[b])) \in Nat
          /\ Cardinality(Room(k, M, M[b])) \in Nat
      BY <3>2, RoomIsFinite, FS_Subset, FS_CardinalityType
    <3>4. Cardinality(Room(k, L, L[b])) <= MaxRecords
      BY <3>3, BypassAssumption
    <3>5. Has(k, Range(s), b, x, L[b])
      BY <1>3, <3>1, <3>4 DEF Complete
    <3> QED  BY <3>1, <3>5 DEF Has
  <2> QED  BY <2>1, <2>2
<1>9. Sound(k, s \o t, M, B \union {a})
  BY <1>7, <1>8 DEF Sound
<1> QED  BY <1>9, CappedSound DEF M

\* What a record is one tick later, and when it is due.
Older(r) == [r EXCEPT !.left = Max({@ - 1, 0})]
Later(L) == [c \in Attempts |-> Max({L[c] - 1, 0})]

\* One less, but not less than nothing.
LEMMA OneLess ==
  ASSUME NEW n \in Nat
  PROVE  /\ Max({n - 1, 0}) \in Nat /\ (n > 0 => Max({n - 1, 0}) = n - 1)
         /\ (n = 0 => Max({n - 1, 0}) = 0)
<1>1. /\ Max({n - 1, 0}) \in {n - 1, 0} /\ Max({n - 1, 0}) >= n - 1
      /\ Max({n - 1, 0}) >= 0
  BY MaxOfTwo
<1> QED  BY <1>1

\* What is not more is not more later.
LEMMA StillLess ==
  ASSUME NEW m \in Nat, NEW n \in Nat, m <= n
  PROVE  /\ Max({m - 1, 0}) \in Nat /\ Max({n - 1, 0}) \in Nat
         /\ Max({m - 1, 0}) <= Max({n - 1, 0})
<1>1. /\ Max({m - 1, 0}) \in Nat /\ (m > 0 => Max({m - 1, 0}) = m - 1)
      /\ (m = 0 => Max({m - 1, 0}) = 0)
  BY OneLess
<1>2. /\ Max({n - 1, 0}) \in Nat /\ (n > 0 => Max({n - 1, 0}) = n - 1)
      /\ (n = 0 => Max({n - 1, 0}) = 0)
  BY OneLess
<1> QED  BY <1>1, <1>2

\* It is of the same attempt.
LEMMA OlderIs ==
  ASSUME NEW k, NEW L \in [Attempts -> Nat], NEW r, Logged(k, L, r)
  PROVE  /\ Logged(k, Later(L), Older(r)) /\ Mark(k, Older(r)) = Mark(k, r)
         /\ Older(r).of = r.of /\ Sort(k, Older(r)) = Sort(k, r)
         /\ Older(r).left = Max({r.left - 1, 0})
<1> DEFINE n == Max({r.left - 1, 0})
<1>1. Shaped(k, r) /\ r.of \in Attempts /\ r.left <= L[r.of] /\ r.left \in Nat
      /\ L[r.of] \in Nat /\ Mark(k, r) \in Marks(k, r.of)
  BY DEF Logged
<1>2. n \in Nat
  BY <1>1, OneLess
<1> HIDE DEF n
<1>3. Older(r) = [r EXCEPT !.left = n]
  BY DEF Older, n
<1>4. /\ Shaped(k, Older(r)) /\ Older(r).of = r.of /\ Older(r).left = n
      /\ (k # "prior" => Older(r).capability = r.capability /\ Older(r).on = r.on)
  <2>1. CASE k = "prior"
    BY <1>1, <1>3, <2>1 DEF Shaped
  <2>2. CASE k # "prior"
    BY <1>1, <1>3, <2>2 DEF Shaped
  <2> QED  BY <2>1, <2>2
<1>5. Mark(k, Older(r)) = Mark(k, r) /\ Sort(k, Older(r)) = Sort(k, r)
  <2>1. Sort(k, Older(r)) = Sort(k, r)
    BY <1>4 DEF Sort
  <2> QED  BY <1>4, <2>1 DEF Mark, Twice
<1>6. Later(L)[r.of] \in Nat /\ n <= Later(L)[r.of]
  <2>1. Later(L)[r.of] = Max({L[r.of] - 1, 0})
    BY <1>1 DEF Later
  <2> QED  BY <1>1, <2>1, StillLess DEF n
<1>7. Older(r).left = Max({r.left - 1, 0})
  BY <1>4 DEF n
<1> QED  BY <1>1, <1>2, <1>4, <1>5, <1>6, <1>7 DEF Logged

\* A deque one tick later.
LEMMA OlderSound ==
  ASSUME NEW k, NEW s, NEW L \in [Attempts -> Nat], NEW B \in SUBSET Attempts,
         Sound(k, s, L, B)
  PROVE  Sound(k, [i \in DOMAIN s |-> Older(s[i])], Later(L), B)
<1> DEFINE t == [i \in DOMAIN s |-> Older(s[i])]
           M == Later(L)
           n == Len(s)
<1>1. InLine(k, s, L) /\ Complete(k, s, L, B)
  BY DEF Sound
<1>2. /\ n \in Nat /\ DOMAIN s = 1..n
      /\ \A i \in 1..n : s[i] \in Range(s)
      /\ \A r \in Range(s) : \E i \in 1..n : r = s[i]
  BY <1>1, Positions DEF InLine
<1>3. t = [i \in 1..n |-> Older(s[i])]
  BY <1>2
<1>4. \A i \in 1..n : t[i] = Older(s[i])
  BY <1>3
<1>5. t = [i \in 1..n |-> t[i]] /\ DOMAIN t = 1..n
  BY <1>3
<1> HIDE DEF t, n
<1>6. \A i \in 1..n : t[i] \in Range(t)
  BY <1>5 DEF Range
<1>7. t \in Seq(Range(t)) /\ Len(t) = n
  <2> DEFINE S == Range(t)
  <2> HIDE DEF S
  <2>1. t \in [1..n -> S]
    BY <1>5, <1>6 DEF S
  <2>2. t \in Seq(S) /\ Len(t) = n
    BY <1>2, <2>1
  <2> QED  BY <2>2 DEF S
<1>8. \A r \in Range(t) : \E i \in 1..n : r = t[i]
  BY <1>5 DEF Range
<1>9. ASSUME NEW i \in 1..n
      PROVE  /\ Logged(k, M, t[i]) /\ Mark(k, t[i]) = Mark(k, s[i])
             /\ t[i].of = s[i].of /\ Sort(k, t[i]) = Sort(k, s[i])
             /\ t[i].left = Max({s[i].left - 1, 0}) /\ s[i].left \in Nat
  <2>1. Logged(k, L, s[i])
    BY <1>1, <1>2 DEF InLine
  <2>2. s[i].left \in Nat
    BY <2>1 DEF Logged
  <2>3. /\ Logged(k, Later(L), Older(s[i])) /\ Mark(k, Older(s[i])) = Mark(k, s[i])
        /\ Older(s[i]).of = s[i].of /\ Sort(k, Older(s[i])) = Sort(k, s[i])
        /\ Older(s[i]).left = Max({s[i].left - 1, 0})
    <3> DEFINE r == s[i]
    <3> HIDE DEF r
    <3>1. Logged(k, L, r)
      BY <2>1 DEF r
    <3>2. /\ Logged(k, Later(L), Older(r)) /\ Mark(k, Older(r)) = Mark(k, r)
          /\ Older(r).of = r.of /\ Sort(k, Older(r)) = Sort(k, r)
          /\ Older(r).left = Max({r.left - 1, 0})
      BY <3>1, OlderIs
    <3> QED  BY <3>2 DEF r
  <2>4. t[i] = Older(s[i])
    BY <1>4
  <2> QED  BY <2>2, <2>3, <2>4
<1>10. ASSUME NEW i \in 1..n, NEW j \in 1..n, i < j PROVE Before(k, t[i], t[j])
  <2>1. Before(k, s[i], s[j]) /\ Logged(k, L, s[i]) /\ Logged(k, L, s[j])
    BY <1>1, <1>2, <1>10 DEF InLine, n
  <2>2. s[i].left \in Nat /\ s[j].left \in Nat /\ s[i].left <= s[j].left
    BY <2>1 DEF Before, Logged
  <2>3. t[i].left <= t[j].left
    BY <1>9, <2>2, StillLess
  <2>4. Mark(k, t[i]) # Mark(k, t[j])
    BY <1>9, <2>1 DEF Before
  <2> QED  BY <2>3, <2>4 DEF Before
<1>11. InLine(k, t, M)
  <2>1. \A r \in Range(t) : Logged(k, M, r)
    BY <1>8, <1>9
  <2> QED  BY <1>7, <1>10, <2>1 DEF InLine
<1>12. Complete(k, t, M, B)
  <2> SUFFICES ASSUME NEW b \in B, M[b] > 0,
                      Cardinality(Room(k, M, M[b])) <= MaxRecords,
                      NEW x \in Sorts(k, b)
               PROVE  Has(k, Range(t), b, x, M[b])
    BY DEF Complete
  <2>1. b \in Attempts /\ L[b] \in Nat /\ M[b] = L[b] - 1 /\ L[b] > 0
    BY OneLess DEF Later
  <2>2. \A c \in Attempts : M[c] >= M[b] <=> L[c] >= L[b]
    <3> SUFFICES ASSUME NEW c \in Attempts PROVE M[c] >= M[b] <=> L[c] >= L[b]
      OBVIOUS
    <3>1. L[c] \in Nat /\ M[c] = Max({L[c] - 1, 0})
      BY DEF Later
    <3>2. (L[c] > 0 => M[c] = L[c] - 1) /\ (L[c] = 0 => M[c] = 0)
      BY <3>1, OneLess
    <3>3. M[b] > 0
      OBVIOUS
    <3> HIDE DEF M
    <3> QED  BY <2>1, <3>1, <3>2, <3>3
  <2>3. Room(k, M, M[b]) = Room(k, L, L[b])
    <3> HIDE DEF M
    <3>1. {c \in Attempts : M[c] >= M[b]} = {c \in Attempts : L[c] >= L[b]}
      BY <2>2
    <3> QED  BY <3>1 DEF Room
  <2>4. PICK r \in Range(s) : r.of = b /\ Sort(k, r) = x /\ r.left = L[b]
    <3>1. Has(k, Range(s), b, x, L[b])
      BY <1>1, <2>1, <2>3 DEF Complete
    <3> QED  BY <3>1 DEF Has
  <2>5. PICK i \in 1..n : r = s[i]
    BY <1>2, <2>4
  <2>6. /\ t[i] \in Range(t) /\ t[i].of = b /\ Sort(k, t[i]) = x
        /\ t[i].left = Max({L[b] - 1, 0})
    BY <1>6, <1>9, <2>4, <2>5
  <2>7. t[i].left = M[b]
    BY <2>1, <2>6, OneLess
  <2> HIDE DEF M
  <2> QED  BY <2>6, <2>7 DEF Has
<1> QED  BY <1>11, <1>12 DEF Sound, t

-----------------------------------------------------------------------------
(* What the loop over the held records leaves. *)

\* The records among the first n of s that are of other events than that of a.
Others(s, a, n) == {s[i] : i \in {j \in 1..n : Event[s[j].of] # Event[a]}}

\* A sequence of one.
LEMMA OneInLine ==
  ASSUME NEW k, NEW L, NEW r, Logged(k, L, r)
  PROVE  InLine(k, <<r>>, L) /\ Range(<<r>>) = {r}
<1>1. Range(<<r>>) = {r}
  BY DEF Range
<1>2. <<r>> \in Seq({r}) /\ Len(<<r>>) = 1
  OBVIOUS
<1> QED  BY <1>1, <1>2 DEF InLine

\* A sequence with one more element.
LEMMA AppendIs ==
  ASSUME NEW S, NEW s \in Seq(S), NEW r
  PROVE  Append(s, r) = s \o <<r>>
<1> DEFINE T == S \union {r}
<1>1. s \in Seq(T) /\ r \in T /\ <<r>> \in Seq(T)
  BY SeqOver
<1> HIDE DEF T
<1>2. Append(s, r) \in Seq(T) /\ s \o <<r>> \in Seq(T)
  BY <1>1
<1>3. Len(Append(s, r)) = Len(s) + 1 /\ Len(s \o <<r>>) = Len(s) + 1
  BY <1>1
<1>4. \A i \in 1..(Len(s) + 1) : Append(s, r)[i] = (s \o <<r>>)[i]
  BY <1>1
<1> QED  BY <1>2, <1>3, <1>4

\* What the loop has kept after each of its rounds is in line.
LEMMA KeptInLine ==
  ASSUME NEW k, NEW L, NEW s, InLine(k, s, L), NEW a, NEW f, Keeps(f, s, a, Len(s))
  PROVE  /\ InLine(k, f[Len(s)], L)
         /\ Range(f[Len(s)]) = Others(s, a, Len(s))
<1> DEFINE N == Len(s)
           Good(n) == InLine(k, f[n], L) /\ Range(f[n]) = Others(s, a, n)
           Bad == {n \in 0..N : ~Good(n)}
<1>1. N \in Nat /\ \A i \in 1..N : s[i] \in Range(s)
  BY Positions DEF InLine
<1>2. \A n \in 0..N : f[n] = IF n = 0 THEN <<>>
           ELSE IF Event[s[n].of] # Event[a] THEN Append(f[n - 1], s[n])
           ELSE f[n - 1]
  BY DEF Keeps
<1>3. \A i \in 1..N : Logged(k, L, s[i])
  BY <1>1 DEF InLine
<1>0. \A i, j \in 1..N : i < j => Before(k, s[i], s[j])
  BY DEF InLine
<1> HIDE DEF N
<1>4. Good(0)
  <2>1. f[0] = <<>>
    BY <1>1, <1>2
  <2>2. Range(<<>>) = {} /\ <<>> \in Seq(Range(<<>>)) /\ Len(<<>>) = 0
    BY DEF Range
  <2>3. InLine(k, <<>>, L)
    BY <2>2 DEF InLine
  <2>4. Others(s, a, 0) = {}
    BY DEF Others
  <2> QED  BY <2>1, <2>2, <2>3, <2>4
<1>5. ASSUME NEW n \in 1..N, Good(n - 1) PROVE Good(n)
  <2>1. f[n] = IF Event[s[n].of] # Event[a] THEN Append(f[n - 1], s[n]) ELSE f[n - 1]
    BY <1>1, <1>2
  <2>2. 1..n = 1..(n - 1) \union {n} /\ n \in Nat
    BY <1>1
  <2>3. CASE Event[s[n].of] # Event[a]
    <3> DEFINE t == f[n - 1]
               r == s[n]
    <3>1. Others(s, a, n) = Others(s, a, n - 1) \union {r}
      BY <2>2, <2>3 DEF Others
    <3>2. InLine(k, t, L) /\ Range(t) = Others(s, a, n - 1)
      BY <1>5
    <3>3. InLine(k, <<r>>, L) /\ Range(<<r>>) = {r}
      BY <1>3, OneInLine
    <3>4. \A q \in Range(t) : Before(k, q, r)
      <4> SUFFICES ASSUME NEW q \in Others(s, a, n - 1) PROVE Before(k, q, r)
        BY <3>2
      <4>1. PICK i \in 1..(n - 1) : q = s[i]
        BY DEF Others
      <4>2. i \in 1..N /\ n \in 1..N /\ i < n
        BY <1>1, <4>1
      <4> QED  BY <1>0, <4>1, <4>2
    <3>5. f[n] = t \o <<r>>
      <4>1. t \in Seq(Range(t))
        BY <3>2 DEF InLine
      <4>2. f[n] = Append(t, r)
        BY <2>1, <2>3
      <4> HIDE DEF t, r
      <4> QED  BY <4>1, <4>2, AppendIs
    <3> HIDE DEF t, r
    <3>6. \A q \in Range(t), p \in Range(<<r>>) : Before(k, q, p)
      BY <3>3, <3>4
    <3>7. InLine(k, t \o <<r>>, L) /\ Range(t \o <<r>>) = Range(t) \union {r}
      BY ONLY <3>2, <3>3, <3>6, JoinInLine
    <3> QED  BY <3>1, <3>2, <3>5, <3>7
  <2>4. CASE Event[s[n].of] = Event[a]
    <3>1. Others(s, a, n) = Others(s, a, n - 1)
      BY <2>2, <2>4 DEF Others
    <3>2. f[n] = f[n - 1]
      BY <2>1, <2>4
    <3> QED  BY <1>5, <3>1, <3>2
  <2> QED  BY <2>3, <2>4
<1> HIDE DEF Good
<1>6. Bad = {}
  <2> SUFFICES ASSUME Bad # {} PROVE FALSE
    OBVIOUS
  <2>1. Bad \subseteq Nat
    BY <1>1
  <2>2. PICK n \in Bad : \A m \in Bad : n <= m
    <3>1. Min(Bad) \in Bad /\ \A m \in Bad : Min(Bad) <= m
      BY <2>1, LeastBelow
    <3> QED  BY <3>1
  <2>3. n # 0 /\ n \in 0..N
    BY <1>4
  <2>4. n - 1 \in 0..N /\ ~(n <= n - 1) /\ n \in 1..N
    BY <1>1, <2>3
  <2>5. Good(n - 1)
    BY <2>2, <2>4
  <2> QED  BY <1>5, <2>4, <2>5
<1>7. Good(N)
  BY <1>1, <1>6
<1> QED  BY <1>7 DEF Good, N

\* The deque without the records of the event of a.
LEMMA FreedSound ==
  ASSUME NEW k, NEW s, NEW L, NEW B \in SUBSET Attempts, Sound(k, s, L, B), NEW a
  PROVE  /\ Sound(k, Freed(s, a), L, {b \in B : Event[b] # Event[a]})
         /\ Range(Freed(s, a)) \subseteq Range(s)
<1> DEFINE IsKept(f) ==
      f = [n \in 0..Len(s) |->
             IF n = 0 THEN <<>>
             ELSE IF Event[s[n].of] # Event[a] THEN Append(f[n - 1], s[n])
             ELSE f[n - 1]]
           loop == CHOOSE f : IsKept(f)
<1>0. InLine(k, s, L) /\ Complete(k, s, L, B)
  BY DEF Sound
<1>9. /\ Len(s) \in Nat /\ \A i \in 1..Len(s) : s[i] \in Range(s)
      /\ \A r \in Range(s) : \E i \in 1..Len(s) : r = s[i]
  BY <1>0, Positions DEF InLine
<1>1. \E f : IsKept(f)
  <2>1. PICK f : Keeps(f, s, a, Len(s))
    BY <1>9, KeepsAlways
  <2>2. IsKept(f)
    BY <2>1 DEF Keeps
  <2> QED  BY <2>2
<1>2. Freed(s, a) = loop[Len(s)]
  BY DEF Freed
<1> HIDE DEF IsKept
<1>3. IsKept(loop)
  BY <1>1
<1> HIDE DEF loop
<1>4. Keeps(loop, s, a, Len(s))
  BY <1>3 DEF IsKept, Keeps
<1>5. InLine(k, Freed(s, a), L) /\ Range(Freed(s, a)) = Others(s, a, Len(s))
  BY <1>0, <1>2, <1>4, KeptInLine
<1>6. Range(Freed(s, a)) \subseteq Range(s)
  BY <1>5, <1>9 DEF Others
<1>7. Complete(k, Freed(s, a), L, {b \in B : Event[b] # Event[a]})
  <2> SUFFICES ASSUME NEW b \in B, Event[b] # Event[a], L[b] > 0,
                      Cardinality(Room(k, L, L[b])) <= MaxRecords,
                      NEW x \in Sorts(k, b)
               PROVE  Has(k, Range(Freed(s, a)), b, x, L[b])
    BY DEF Complete
  <2>1. PICK r \in Range(s) : r.of = b /\ Sort(k, r) = x /\ r.left = L[b]
    BY <1>0 DEF Complete, Has
  <2>2. PICK i \in 1..Len(s) : r = s[i]
    BY <1>9, <2>1
  <2>3. r \in Others(s, a, Len(s))
    BY <2>1, <2>2 DEF Others
  <2> QED  BY <1>5, <2>1, <2>3 DEF Has
<1> QED  BY <1>5, <1>6, <1>7 DEF Sound

-----------------------------------------------------------------------------
(* When attempts become due, by kind. *)

Column(log, k) == [c \in Attempts |-> log[c][k]]

\* L, but n at a.
At(L, a, n) == [L EXCEPT ![a] = n]

\* a is due so and so from now on.
Dated(log, a, h, p, x) ==
  [log EXCEPT ![a]["held"] = h, ![a]["prior"] = p, ![a]["denied"] = x]

\* One attempt is due anew.
LEMMA ColumnsOf ==
  ASSUME NEW log \in Times, NEW a \in Attempts,
         NEW h \in 0..TTL, NEW p \in 0..TTL, NEW x \in 0..TTL
  PROVE  /\ Dated(log, a, h, p, x) \in Times
         /\ Column(Dated(log, a, h, p, x), "held") = At(Column(log, "held"), a, h)
         /\ Column(Dated(log, a, h, p, x), "prior") = At(Column(log, "prior"), a, p)
         /\ Column(Dated(log, a, h, p, x), "denied") = At(Column(log, "denied"), a, x)
<1> DEFINE new == Dated(log, a, h, p, x)
<1>1. /\ "held" \in Kinds /\ "prior" \in Kinds /\ "denied" \in Kinds
      /\ log \in [Attempts -> [Kinds -> 0..TTL]] /\ log[a] \in [Kinds -> 0..TTL]
  BY DEF Kinds, Times
<1> DEFINE row == [k \in Kinds |-> CASE k = "held" -> h [] k = "prior" -> p [] OTHER -> x]
           next == [b \in Attempts |-> IF b = a THEN row ELSE log[b]]
<1>2. /\ row \in [Kinds -> 0..TTL]
      /\ row["held"] = h /\ row["prior"] = p /\ row["denied"] = x
  BY <1>1
<1>3. new = next
  <2>1. [log[a] EXCEPT !["held"] = h, !["prior"] = p, !["denied"] = x] = row
    BY <1>1 DEF Kinds
  <2> HIDE DEF row
  <2>2. new = [log EXCEPT ![a] = [log[a] EXCEPT !["held"] = h, !["prior"] = p,
                                                !["denied"] = x]]
    BY <1>1 DEF Dated
  <2> HIDE DEF new
  <2> QED  BY <1>1, <2>1, <2>2
<1> HIDE DEF row, new
<1>4. new \in Times /\ new[a] = row /\ \A b \in Attempts \ {a} : new[b] = log[b]
  BY <1>1, <1>2, <1>3 DEF Times
<1> HIDE DEF next
<1>5. ASSUME NEW kind
      PROVE  Column(new, kind) = At(Column(log, kind), a, row[kind])
  <2>1. \A c \in Attempts : new[c][kind] = IF c = a THEN row[kind] ELSE log[c][kind]
    BY <1>4
  <2>2. Column(new, kind) = [c \in Attempts |-> IF c = a THEN row[kind] ELSE log[c][kind]]
    BY <2>1 DEF Column
  <2> QED  BY <2>2 DEF Column, At
<1>6. Column(new, "held") = At(Column(log, "held"), a, h)
  BY <1>2, <1>5
<1>7. Column(new, "prior") = At(Column(log, "prior"), a, p)
  BY <1>2, <1>5
<1>8. Column(new, "denied") = At(Column(log, "denied"), a, x)
  BY <1>2, <1>5
<1> QED  BY <1>4, <1>6, <1>7, <1>8 DEF new

\* Nothing changes where an attempt is due as before.
LEMMA DueAsBefore ==
  ASSUME NEW log \in Times, NEW a \in Attempts, NEW k
  PROVE  At(Column(log, k), a, log[a][k]) = Column(log, k)
BY DEF At, Column

\* No time is longer than that of a record.
Short(L) == L \in [Attempts -> Nat] /\ \A c \in Attempts : L[c] <= TTL

\* The parts of a log.
LEMMA ColumnIs ==
  ASSUME NEW log \in Times, NEW k \in Kinds
  PROVE  /\ Short(Column(log, k))
         /\ \A c \in Attempts : Column(log, k)[c] = log[c][k]
<1>1. TTL \in Nat /\ \A c \in Attempts : log[c][k] \in 0..TTL
  BY BypassAssumption DEF Times
<1> QED  BY <1>1 DEF Column, Short

\* a is due for its whole time from now on, always or if it is to be.
Anew(L, a) == At(L, a, TTL)
Noted(L, a, yes) == IF yes THEN Anew(L, a) ELSE L

\* Whether a decision is remembered, as what.
AsHeld(a, d) == ~d.final /\ Memorable(a)
AsPrior(d) == d.final /\ d.high /\ d.verdict # "allow"
AsDenied(a, d) == d.verdict = "block" /\ d.by # "guard" /\ Memorable(a)

\* What the decision d on a makes due.
LEMMA ColumnsRenewed ==
  ASSUME NEW log \in Times, NEW a \in Attempts, NEW d
  PROVE  /\ Renewed(log, a, d, FALSE) \in Times /\ Renewed(log, a, d, TRUE) \in Times
         /\ Column(Renewed(log, a, d, FALSE), "held")
              = Noted(Column(log, "held"), a, AsHeld(a, d))
         /\ Column(Renewed(log, a, d, FALSE), "prior")
              = Noted(Column(log, "prior"), a, AsPrior(d))
         /\ Column(Renewed(log, a, d, FALSE), "denied")
              = Noted(Column(log, "denied"), a, AsDenied(a, d))
         /\ Column(Renewed(log, a, d, TRUE), "held")
              = Noted(Column(log, "held"), a, AsHeld(a, d))
         /\ Column(Renewed(log, a, d, TRUE), "prior") = Column(log, "prior")
         /\ Column(Renewed(log, a, d, TRUE), "denied")
              = Noted(Column(log, "denied"), a, AsDenied(a, d))
<1> DEFINE h == IF AsHeld(a, d) THEN TTL ELSE log[a]["held"]
           p == IF AsPrior(d) THEN TTL ELSE log[a]["prior"]
           x == IF AsDenied(a, d) THEN TTL ELSE log[a]["denied"]
           With(q) == Dated(log, a, h, q, x)
<1>1. /\ TTL \in Nat /\ "held" \in Kinds /\ "prior" \in Kinds /\ "denied" \in Kinds
      /\ log \in [Attempts -> [Kinds -> 0..TTL]] /\ log[a] \in [Kinds -> 0..TTL]
  BY BypassAssumption DEF Kinds, Times
<1>2. h \in 0..TTL /\ x \in 0..TTL /\ p \in 0..TTL /\ log[a]["prior"] \in 0..TTL
  <2>1. TTL \in 0..TTL /\ \A k \in Kinds : log[a][k] \in 0..TTL
    BY <1>1
  <2> QED  BY <1>1, <2>1
<1>3. Renewed(log, a, d, TRUE) = With(log[a]["prior"])
  BY <1>1 DEF Renewed, Dated, Kinds, AsHeld, AsDenied
<1>4. Renewed(log, a, d, FALSE) = With(p)
  BY <1>1 DEF Renewed, Dated, Kinds, AsHeld, AsPrior, AsDenied
<1> HIDE DEF With
<1>5. /\ Noted(Column(log, "held"), a, AsHeld(a, d)) = At(Column(log, "held"), a, h)
      /\ Noted(Column(log, "prior"), a, AsPrior(d)) = At(Column(log, "prior"), a, p)
      /\ Noted(Column(log, "denied"), a, AsDenied(a, d))
           = At(Column(log, "denied"), a, x)
      /\ Column(log, "prior") = At(Column(log, "prior"), a, log[a]["prior"])
  BY DueAsBefore DEF Noted, Anew, h, p, x
<1> HIDE DEF h, p, x
<1>6. ASSUME NEW q \in 0..TTL
      PROVE  /\ With(q) \in Times
             /\ Column(With(q), "held") = At(Column(log, "held"), a, h)
             /\ Column(With(q), "prior") = At(Column(log, "prior"), a, q)
             /\ Column(With(q), "denied") = At(Column(log, "denied"), a, x)
  BY <1>2, ColumnsOf DEF With
<1> DEFINE Full(log1, pr) ==
      /\ log1 \in Times
      /\ Column(log1, "held") = At(Column(log, "held"), a, h)
      /\ Column(log1, "prior") = At(Column(log, "prior"), a, pr)
      /\ Column(log1, "denied") = At(Column(log, "denied"), a, x)
<1>7. Full(With(p), p) /\ Full(With(log[a]["prior"]), log[a]["prior"])
  BY <1>2, <1>6
<1> HIDE DEF Full
<1>8. /\ Full(Renewed(log, a, d, FALSE), p)
      /\ Full(Renewed(log, a, d, TRUE), log[a]["prior"])
  BY <1>3, <1>4, <1>7
<1>9. /\ Renewed(log, a, d, FALSE) \in Times
      /\ Column(Renewed(log, a, d, FALSE), "held")
           = Noted(Column(log, "held"), a, AsHeld(a, d))
      /\ Column(Renewed(log, a, d, FALSE), "prior")
           = Noted(Column(log, "prior"), a, AsPrior(d))
      /\ Column(Renewed(log, a, d, FALSE), "denied")
           = Noted(Column(log, "denied"), a, AsDenied(a, d))
  BY ONLY <1>5, <1>8 DEF Full
<1>10. /\ Renewed(log, a, d, TRUE) \in Times
       /\ Column(Renewed(log, a, d, TRUE), "held")
            = Noted(Column(log, "held"), a, AsHeld(a, d))
       /\ Column(Renewed(log, a, d, TRUE), "prior") = Column(log, "prior")
       /\ Column(Renewed(log, a, d, TRUE), "denied")
            = Noted(Column(log, "denied"), a, AsDenied(a, d))
  BY ONLY <1>5, <1>8 DEF Full
<1> QED  BY <1>9, <1>10

-----------------------------------------------------------------------------
(* What decisions add to the deques. *)

\* No record of the deque s is of a.
NoneOf(s, a) == \A r \in Range(s) : r.of # a

\* None that was made on the same, if a may have some.
Unmarked(k, s, a, on) == \A r \in Range(s) : r.of = a => Twice(k, a) /\ r.on # on

\* What is due to one attempt more that is due to nothing.
LEMMA GrownSound ==
  ASSUME NEW k, NEW s, NEW L, NEW B, Sound(k, s, L, B), NEW a, ~(L[a] > 0)
  PROVE  Sound(k, s, L, B \union {a})
BY DEF Sound, Complete

\* The records that an attempt leaves are in line, and miss nothing.
LEMMA MadeInLine ==
  ASSUME NEW k \in {"denied", "held"}, NEW a \in Attempts, NEW high, Memorable(a),
         NEW on \in {"decision", "answer"}, NEW L \in [Attempts -> Nat]
  PROVE  /\ InLine(k, EffectRecords(a, high, on), Anew(L, a))
         /\ \A r \in Range(EffectRecords(a, high, on)) :
              r.of = a /\ r.left = TTL /\ r.on = on
         /\ \A x \in Sorts(k, a) : Has(k, Range(EffectRecords(a, high, on)), a, x, TTL)
<1> DEFINE caps == Effect[a].capabilities
           n == Len(caps)
           Rec(c) == [of |-> a, capability |-> c, high |-> high, left |-> TTL,
                       on |-> on]
           seen == IF Twice(k, a) THEN on ELSE "decision"
           recs == EffectRecords(a, high, on)
           M == Anew(L, a)
<1>1. caps \in Seq(STRING) /\ IsInjective(caps) /\ TTL \in Nat
  BY BypassAssumption
<1>2. DOMAIN caps = 1..n /\ n \in Nat /\ caps = [i \in 1..n |-> caps[i]]
  BY <1>1
<1>3. recs = [i \in 1..n |-> Rec(caps[i])]
  BY <1>2 DEF EffectRecords
<1>4. M[a] = TTL /\ TTL <= TTL
  BY <1>1 DEF Anew, At
<1>5. Capabilities(a) = {caps[i] : i \in 1..n}
  BY <1>2 DEF Capabilities, Range
<1>6. /\ k # "prior" /\ Sorts(k, a) = Capabilities(a)
      /\ \A c \in Capabilities(a) : <<a, c, seen>> \in Marks(k, a)
  BY DEF Marks, Sorts, Twice
<1>7. \A c \in Capabilities(a) :
        /\ Logged(k, M, Rec(c)) /\ Mark(k, Rec(c)) = <<a, c, seen>>
        /\ Rec(c).of = a /\ Rec(c).left = TTL /\ Rec(c).on = on /\ Sort(k, Rec(c)) = c
  <2> SUFFICES ASSUME NEW c \in Capabilities(a)
               PROVE  /\ Logged(k, M, Rec(c)) /\ Mark(k, Rec(c)) = <<a, c, seen>>
                      /\ Rec(c).of = a /\ Rec(c).left = TTL /\ Rec(c).on = on
                      /\ Sort(k, Rec(c)) = c
    OBVIOUS
  <2>1. Sort(k, Rec(c)) = c /\ Rec(c).of = a /\ Rec(c).on = on /\ Rec(c).left = TTL
    BY <1>6 DEF Sort
  <2>2. Shaped(k, Rec(c))
    BY <1>6 DEF Shaped
  <2> HIDE DEF Rec, seen
  <2>3. Mark(k, Rec(c)) = <<a, c, seen>>
    BY <2>1 DEF Mark, seen
  <2> HIDE DEF M
  <2> QED  BY <1>1, <1>4, <1>6, <2>1, <2>2, <2>3 DEF Logged
<1>8. \A i, j \in 1..n : caps[i] = caps[j] => i = j
  BY <1>1, <1>2 DEF IsInjective
<1> HIDE DEF recs, Rec, M, seen
<1>9. \A i \in 1..n : recs[i] = Rec(caps[i]) /\ caps[i] \in Capabilities(a)
  BY <1>3, <1>5
<1>10. Range(recs) = {Rec(c) : c \in Capabilities(a)}
  <2>1. Range(recs) = {Rec(caps[i]) : i \in 1..n}
    BY <1>3 DEF Range
  <2> QED  BY <1>5, <2>1
<1>11. \A i, j \in 1..n : i < j => Before(k, recs[i], recs[j])
  <2> SUFFICES ASSUME NEW i \in 1..n, NEW j \in 1..n, i < j
               PROVE  Before(k, recs[i], recs[j])
    OBVIOUS
  <2>1. caps[i] # caps[j]
    BY <1>8
  <2>2. /\ recs[i].left = TTL /\ recs[j].left = TTL
        /\ Mark(k, recs[i]) = <<a, caps[i], seen>>
        /\ Mark(k, recs[j]) = <<a, caps[j], seen>>
    BY <1>7, <1>9
  <2> QED  BY <1>1, <2>1, <2>2 DEF Before
<1>12. recs \in Seq(Range(recs)) /\ Len(recs) = n
  <2> DEFINE S == Range(recs)
  <2>1. recs \in [1..n -> S]
    BY <1>3, <1>9, <1>10
  <2> HIDE DEF S, n
  <2>2. recs \in Seq(S) /\ Len(recs) = n
    BY <1>2, <2>1
  <2> QED  BY <2>2 DEF S
<1>13. InLine(k, recs, M)
  BY <1>7, <1>10, <1>11, <1>12 DEF InLine
<1>14. \A r \in Range(recs) : r.of = a /\ r.left = TTL /\ r.on = on
  BY <1>7, <1>10
<1>15. \A x \in Sorts(k, a) : Has(k, Range(recs), a, x, TTL)
  <2> SUFFICES ASSUME NEW x \in Capabilities(a) PROVE Has(k, Range(recs), a, x, TTL)
    BY <1>6
  <2>1. Rec(x) \in Range(recs)
    BY <1>10
  <2> QED  BY <1>7, <2>1 DEF Has
<1> QED  BY <1>13, <1>14, <1>15 DEF recs, M

\* An effect is remembered, if it can be.
LEMMA EffectSound ==
  ASSUME NEW k \in {"denied", "held"}, NEW s, NEW L \in [Attempts -> Nat],
         NEW B \in SUBSET Attempts, Sound(k, s, L, B), NEW a \in Attempts, NEW high,
         NEW on \in {"decision", "answer"}, \A c \in Attempts : L[c] <= TTL,
         Unmarked(k, s, a, on)
  PROVE  /\ Memorable(a) =>
              Sound(k, Capped(s \o EffectRecords(a, high, on)), Anew(L, a),
                    B \union {a})
         /\ ~Memorable(a) => Sound(k, Capped(s \o EffectRecords(a, high, on)), L, B)
<1>1. CASE Memorable(a)
  <2> DEFINE t == EffectRecords(a, high, on)
  <2>1. /\ InLine(k, t, Anew(L, a))
        /\ \A r \in Range(t) : r.of = a /\ r.left = TTL /\ r.on = on
        /\ \A x \in Sorts(k, a) : Has(k, Range(t), a, x, TTL)
    BY <1>1, MadeInLine
  <2>2. TTL \in Nat
    BY BypassAssumption
  <2> HIDE DEF t
  <2>3. \A q \in Range(s), r \in Range(t) : Mark(k, q) # Mark(k, r)
    <3> SUFFICES ASSUME NEW q \in Range(s), NEW r \in Range(t),
                        Mark(k, q) = Mark(k, r)
                 PROVE  FALSE
      OBVIOUS
    <3>1. r.of = a /\ r.on = on
      BY <2>1
    <3>2. q.of = a
      BY <3>1 DEF Mark
    <3>3. Twice(k, a) /\ q.on # on
      BY <3>2 DEF Unmarked
    <3> QED  BY <3>1, <3>2, <3>3 DEF Mark
  <2>4. Sound(k, Capped(s \o t), Anew(L, a), B \union {a})
    BY <2>1, <2>2, <2>3, AddedSound DEF Anew, At
  <2> QED  BY <1>1, <2>4 DEF t
<1>2. CASE ~Memorable(a)
  <2>1. EffectRecords(a, high, on) = <<>>
    BY <1>2 DEF EffectRecords
  <2>2. s \o <<>> = s
    BY DEF Sound, InLine
  <2> QED  BY <1>2, <2>1, <2>2, CappedSound
<1> QED  BY <1>1, <1>2

\* The text of an attempt is remembered.
LEMMA PriorSound ==
  ASSUME NEW s, NEW L \in [Attempts -> Nat], Sound("prior", s, L, Attempts),
         NEW a \in Attempts, \A c \in Attempts : L[c] <= TTL, NoneOf(s, a)
  PROVE  /\ Sound("prior", Capped(Append(s, [of |-> a, left |-> TTL])),
                  Anew(L, a), Attempts)
         /\ \A r \in Range(Capped(Append(s, [of |-> a, left |-> TTL]))) :
              r.of = a \/ r \in Range(s)
<1> DEFINE r == [of |-> a, left |-> TTL]
           t == <<r>>
           M == Anew(L, a)
<1>1. TTL \in Nat /\ M[a] = TTL /\ r.of = a /\ r.left = TTL
  BY BypassAssumption DEF Anew, At
<1>2. /\ Mark("prior", r) = <<a, "prior", "decision">>
      /\ <<a, "prior", "decision">> \in Marks("prior", a)
      /\ Sort("prior", r) = "prior" /\ Sorts("prior", a) = {"prior"}
  BY DEF Mark, Marks, Sort, Sorts, Twice
<1>3. Shaped("prior", r) /\ TTL <= TTL
  BY <1>1 DEF Shaped
<1> HIDE DEF M, r
<1>10. Logged("prior", M, r)
  BY <1>1, <1>2, <1>3 DEF Logged
<1>4. InLine("prior", t, M) /\ Range(t) = {r}
  BY <1>10, OneInLine
<1> HIDE DEF t
<1>5. /\ \A q \in Range(t) : q.of = a /\ q.left = TTL
      /\ \A x \in Sorts("prior", a) : Has("prior", Range(t), a, x, TTL)
      /\ \A q \in Range(s), p \in Range(t) : Mark("prior", q) # Mark("prior", p)
  <2>1. \A q \in Range(s) : Mark("prior", q) # Mark("prior", r)
    BY <1>1 DEF NoneOf, Mark
  <2>2. Has("prior", {r}, a, "prior", TTL)
    BY <1>1, <1>2 DEF Has
  <2> QED  BY <1>1, <1>2, <1>4, <2>1, <2>2
<1>6. Sound("prior", Capped(s \o t), M, Attempts \union {a})
  BY <1>1, <1>4, <1>5, AddedSound DEF M, Anew, At
<1>7. Append(s, r) = s \o t
  BY AppendIs DEF Sound, InLine, t
<1>8. \A q \in Range(Capped(s \o t)) : q.of = a \/ q \in Range(s)
  <2>1. s \in Seq(Range(s)) /\ t \in Seq(Range(t))
    BY <1>4 DEF Sound, InLine
  <2>2. Capped(s \o t) \in Seq(Range(s) \union Range(t))
    BY <2>1, AddedOver
  <2>3. Range(Capped(s \o t)) \subseteq Range(s) \union Range(t)
    BY <2>2, OwnMembers
  <2> QED  BY <1>5, <2>3
<1>9. Attempts \union {a} = Attempts
  OBVIOUS
<1> QED  BY <1>6, <1>7, <1>8, <1>9 DEF M, r

-----------------------------------------------------------------------------
(* The memory as a whole. *)

\* Each deque has what is due as its kind: as held, to the attempts in B.
Whole(m, log, B) ==
  /\ m = [k \in Kinds |-> m[k]]
  /\ log \in Times
  /\ Sound("prior", m["prior"], Column(log, "prior"), Attempts)
  /\ Sound("denied", m["denied"], Column(log, "denied"), Attempts)
  /\ Sound("held", m["held"], Column(log, "held"), B)

\* That is so when an attempt is due anew.
LEMMA NotedShort ==
  ASSUME NEW L, Short(L), NEW a \in Attempts, NEW yes
  PROVE  Short(Noted(L, a, yes))
<1>1. TTL \in Nat
  BY BypassAssumption
<1>2. Short(Anew(L, a))
  BY <1>1 DEF Short, Anew, At
<1> QED  BY <1>2 DEF Noted

\* What there is to show of a memory.
LEMMA WholeFrom ==
  ASSUME NEW m, NEW log \in Times, NEW B,
         m = [k \in Kinds |-> m[k]],
         NEW P, NEW D, NEW H, Short(P), Short(D), Short(H),
         Column(log, "prior") = P, Column(log, "denied") = D, Column(log, "held") = H,
         Sound("prior", m["prior"], P, Attempts), Sound("denied", m["denied"], D, Attempts),
         Sound("held", m["held"], H, B)
  PROVE  Whole(m, log, B)
BY DEF Whole

\* What a memory shows.
LEMMA WholeShows ==
  ASSUME NEW m, NEW log, NEW B, Whole(m, log, B)
  PROVE  /\ log \in Times /\ m = [k \in Kinds |-> m[k]]
         /\ Short(Column(log, "prior")) /\ Short(Column(log, "denied"))
         /\ Short(Column(log, "held"))
<1>1. "prior" \in Kinds /\ "denied" \in Kinds /\ "held" \in Kinds
  BY DEF Kinds
<1>2. log \in Times
  BY DEF Whole
<1>3. \A k \in Kinds : Short(Column(log, k))
  BY <1>2, ColumnIs
<1> QED  BY <1>1, <1>2, <1>3 DEF Whole

\* The deques n have no records that those of m have not, except of a.
Within(n, m, a) ==
  /\ \A r \in Range(n["prior"]) : r.of = a \/ r \in Range(m["prior"])
  /\ \A r \in Range(n["denied"]) : r.of = a \/ r \in Range(m["denied"])

\* Of a nothing is remembered.
Clear(m, a) ==
  NoneOf(m["prior"], a) /\ NoneOf(m["denied"], a) /\ NoneOf(m["held"], a)

\* The expired records go.
LEMMA EvictedWhole ==
  ASSUME NEW m, NEW log, NEW B, Whole(m, log, B), NEW a
  PROVE  /\ Whole(Evicted(m), log, B)
         /\ \A r \in Range(Evicted(m)["prior"]) : r \in Range(m["prior"])
         /\ \A r \in Range(Evicted(m)["denied"]) : r \in Range(m["denied"])
         /\ \A r \in Range(Evicted(m)["held"]) : r \in Range(m["held"])
<1>1. "prior" \in Kinds /\ "denied" \in Kinds /\ "held" \in Kinds
  BY DEF Kinds
<1>2. /\ Sound("prior", Evicted(m)["prior"], Column(log, "prior"), Attempts)
      /\ \A r \in Range(Evicted(m)["prior"]) : r \in Range(m["prior"])
  BY <1>1, EvictedSound DEF Whole
<1>3. /\ Sound("denied", Evicted(m)["denied"], Column(log, "denied"), Attempts)
      /\ \A r \in Range(Evicted(m)["denied"]) : r \in Range(m["denied"])
  BY <1>1, EvictedSound DEF Whole
<1>4. /\ Sound("held", Evicted(m)["held"], Column(log, "held"), B)
      /\ \A r \in Range(Evicted(m)["held"]) : r \in Range(m["held"])
  BY <1>1, EvictedSound DEF Whole
<1>5. Evicted(m) = [k \in Kinds |-> Evicted(m)[k]]
  BY DEF Evicted
<1> QED  BY <1>2, <1>3, <1>4, <1>5 DEF Whole

\* The deque of kind k is s.
Replaced(m, k, s) == [m EXCEPT ![k] = s]

\* The others are as they were.
LEMMA ReplacedIs ==
  ASSUME NEW m, m = [k \in Kinds |-> m[k]], NEW k \in Kinds, NEW s
  PROVE  /\ Replaced(m, k, s) = [j \in Kinds |-> Replaced(m, k, s)[j]]
         /\ Replaced(m, k, s)[k] = s
         /\ \A j \in Kinds \ {k} : Replaced(m, k, s)[j] = m[j]
<1>1. DOMAIN m = Kinds
  OBVIOUS
<1> QED  BY <1>1 DEF Replaced

\* An effect is added to a deque that is due to be.
LEMMA EffectNoted ==
  ASSUME NEW k \in {"denied", "held"}, NEW s, NEW L, Short(L),
         NEW B \in SUBSET Attempts, Sound(k, s, L, B), NEW a \in Attempts, NEW high,
         NEW on \in {"decision", "answer"}, Unmarked(k, s, a, on), a \in B \/ ~(L[a] > 0)
  PROVE  /\ Sound(k, Capped(s \o EffectRecords(a, high, on)), Noted(L, a, Memorable(a)),
                  B \union {a})
         /\ \A r \in Range(Capped(s \o EffectRecords(a, high, on))) :
              (r.of = a /\ r.on = on) \/ r \in Range(s)
<1> DEFINE t == Capped(s \o EffectRecords(a, high, on))
<1>1. /\ Memorable(a) => Sound(k, t, Anew(L, a), B \union {a})
      /\ ~Memorable(a) => Sound(k, t, L, B)
  BY EffectSound DEF Short
<1>2. \A r \in Range(t) : (r.of = a /\ r.on = on) \/ r \in Range(s)
  <2>1. /\ s \in Seq(Range(s)) /\ EffectRecords(a, high, on) \in Seq(Made(a, high, on))
        /\ \A r \in Made(a, high, on) : r.of = a /\ r.on = on
    BY MadeIs DEF Sound, InLine
  <2>2. t \in Seq(Range(s) \union Made(a, high, on))
    BY <2>1, AddedOver
  <2>3. Range(t) \subseteq Range(s) \union Made(a, high, on)
    BY <2>2, OwnMembers
  <2> QED  BY <2>1, <2>3
<1> HIDE DEF t
<1>3. CASE Memorable(a)
  <2>1. Noted(L, a, Memorable(a)) = Anew(L, a)
    BY <1>3 DEF Noted
  <2> QED  BY <1>1, <1>2, <1>3, <2>1 DEF t
<1>4. CASE ~Memorable(a)
  <2>1. Noted(L, a, Memorable(a)) = L
    BY <1>4 DEF Noted
  <2>2. Sound(k, t, L, B)
    BY <1>1, <1>4
  <2>3. Sound(k, t, L, B \union {a})
    <3>1. CASE a \in B
      <4>1. B \union {a} = B
        BY <3>1
      <4> QED  BY <2>2, <4>1
    <3>2. CASE ~(L[a] > 0)
      BY <2>2, <3>2, GrownSound
    <3> QED  BY <3>1, <3>2
  <2> QED  BY <1>2, <2>1, <2>3 DEF t
<1> QED  BY <1>3, <1>4

\* A block of a is remembered as such unless it is the guard's own.
LEMMA DeniedSound ==
  ASSUME NEW m, m = [k \in Kinds |-> m[k]], NEW a \in Attempts, NEW d,
         NEW on \in {"decision", "answer"},
         d.verdict = "block", NEW L, Short(L),
         Sound("denied", m["denied"], L, Attempts), Unmarked("denied", m["denied"], a, on)
  PROVE  /\ Sound("denied", Denied(m, a, d, on)["denied"],
                  Noted(L, a, AsDenied(a, d)), Attempts)
         /\ \A r \in Range(Denied(m, a, d, on)["denied"]) :
              (r.of = a /\ r.on = on) \/ r \in Range(m["denied"])
         /\ Denied(m, a, d, on) = [k \in Kinds |-> Denied(m, a, d, on)[k]]
         /\ Denied(m, a, d, on)["prior"] = m["prior"] /\ Denied(m, a, d, on)["held"] = m["held"]
<1>1. CASE d.by = "guard"
  <2>1. Denied(m, a, d, on) = m /\ ~AsDenied(a, d)
    BY <1>1 DEF Denied, AsDenied
  <2>2. Noted(L, a, AsDenied(a, d)) = L
    BY <2>1 DEF Noted
  <2> QED  BY <2>1, <2>2
<1>2. CASE d.by # "guard"
  <2> DEFINE s == Capped(m["denied"] \o EffectRecords(a, d.high, on))
             n == Replaced(m, "denied", s)
  <2>1. Denied(m, a, d, on) = n
    BY <1>2 DEF Denied, Replaced
  <2>2. /\ n = [k \in Kinds |-> n[k]] /\ n["denied"] = s
        /\ n["prior"] = m["prior"] /\ n["held"] = m["held"]
    <3> HIDE DEF s
    <3>1. /\ "denied" \in Kinds /\ "prior" \in Kinds \ {"denied"}
          /\ "held" \in Kinds \ {"denied"}
      BY DEF Kinds
    <3> QED  BY <3>1, ReplacedIs
  <2>3. Noted(L, a, AsDenied(a, d)) = Noted(L, a, Memorable(a))
    BY <1>2 DEF AsDenied, Noted
  <2>4. Attempts \union {a} = Attempts
    OBVIOUS
  <2>5. /\ Sound("denied", s, Noted(L, a, Memorable(a)), Attempts \union {a})
        /\ \A r \in Range(s) : (r.of = a /\ r.on = on) \/ r \in Range(m["denied"])
    <3>1. /\ a \in Attempts /\ on \in {"decision", "answer"}
          /\ Sound("denied", m["denied"], L, Attempts)
          /\ Unmarked("denied", m["denied"], a, on) /\ Short(L)
      OBVIOUS
    <3> QED  BY ONLY <3>1, EffectNoted
  <2> HIDE DEF s, n
  <2> QED  BY <2>1, <2>2, <2>3, <2>4, <2>5
<1> QED  BY <1>1, <1>2

\* A decision is recorded: what it makes due is remembered.
LEMMA RecordedWhole ==
  ASSUME NEW m, NEW log, NEW B \in SUBSET Attempts, Whole(m, log, B),
         NEW a \in Attempts, NEW d, d.final \/ d.verdict = "defer",
         Clear(m, a), log[a]["held"] = 0
  PROVE  /\ Whole(Recorded(m, a, d), Renewed(log, a, d, FALSE), B \union {a})
         /\ Within(Recorded(m, a, d), m, a)
         /\ \A r \in Range(Recorded(m, a, d)["denied"]) :
              r.of = a => d.verdict = "block" /\ r.on = "decision"
<1> DEFINE e == Evicted(m)
           n == Recorded(m, a, d)
           new == Renewed(log, a, d, FALSE)
           P == Column(log, "prior")
           D == Column(log, "denied")
           H == Column(log, "held")
           P1 == Noted(P, a, AsPrior(d))
           D1 == Noted(D, a, AsDenied(a, d))
           H1 == Noted(H, a, AsHeld(a, d))
<1>1. /\ log \in Times /\ m = [k \in Kinds |-> m[k]]
      /\ Short(P) /\ Short(D) /\ Short(H)
  BY WholeShows
<1>2. /\ new \in Times /\ Column(new, "held") = H1 /\ Column(new, "prior") = P1
      /\ Column(new, "denied") = D1
  BY <1>1, ColumnsRenewed
<1>3. Short(P1) /\ Short(D1) /\ Short(H1)
  BY <1>1, NotedShort
<1>4. ~(H[a] > 0)
  BY DEF Column
<1>5. /\ e = [k \in Kinds |-> e[k]]
      /\ Sound("prior", e["prior"], P, Attempts) /\ Sound("denied", e["denied"], D, Attempts)
      /\ Sound("held", e["held"], H, B)
      /\ \A r \in Range(e["prior"]) : r \in Range(m["prior"])
      /\ \A r \in Range(e["denied"]) : r \in Range(m["denied"])
      /\ \A r \in Range(e["held"]) : r \in Range(m["held"])
  BY EvictedWhole DEF Whole
<1>6. /\ Sound("prior", m["prior"], P, Attempts) /\ Sound("denied", m["denied"], D, Attempts)
      /\ Sound("held", m["held"], H, B)
  BY DEF Whole
<1>7. NoneOf(e["prior"], a) /\ NoneOf(e["denied"], a) /\ NoneOf(e["held"], a)
  BY <1>5 DEF NoneOf, Clear
<1>0. /\ Unmarked("held", e["held"], a, "decision")
      /\ Unmarked("denied", e["denied"], a, "decision")
  BY <1>7 DEF Unmarked, NoneOf
<1>8. /\ "prior" \in Kinds /\ "denied" \in Kinds /\ "held" \in Kinds
      /\ "prior" # "denied" /\ "prior" # "held" /\ "denied" # "held"
  BY DEF Kinds
<1> HIDE DEF e, n, new, P, D, H, P1, D1, H1
<1>9. ASSUME Sound("prior", n["prior"], P1, Attempts),
             Sound("denied", n["denied"], D1, Attempts),
             Sound("held", n["held"], H1, B \union {a}),
             n = [k \in Kinds |-> n[k]]
      PROVE  Whole(n, new, B \union {a})
  BY <1>2, <1>3, <1>9, WholeFrom
<1>10. CASE ~d.final
  <2> DEFINE s == Capped(e["held"] \o EffectRecords(a, d.high, "decision"))
  <2>1. n = Replaced(e, "held", s)
    BY <1>10 DEF n, e, Recorded, Held, Replaced
  <2>2. d.verdict = "defer"
    BY <1>10
  <2>3. /\ P1 = P /\ D1 = D /\ H1 = Noted(H, a, Memorable(a))
    BY <1>10, <2>2 DEF P1, D1, H1, Noted, AsPrior, AsDenied, AsHeld
  <2>4. Sound("held", s, H1, B \union {a})
    BY <1>0, <1>1, <1>4, <1>5, <2>3, EffectNoted
  <2> HIDE DEF s
  <2>5. /\ n = [k \in Kinds |-> n[k]] /\ n["held"] = s
        /\ n["prior"] = e["prior"] /\ n["denied"] = e["denied"]
    BY <1>5, <1>8, <2>1, ReplacedIs
  <2>6. Whole(n, new, B \union {a})
    BY <1>5, <1>9, <2>3, <2>4, <2>5
  <2>7. Within(n, m, a) /\ NoneOf(n["denied"], a)
    BY <1>5, <1>7, <2>5 DEF Within
  <2> QED  BY <2>6, <2>7 DEF n, new, NoneOf
<1>11. CASE d.final /\ (d.verdict = "allow" \/ (~d.high /\ d.verdict # "block"))
  <2>1. n = m
    BY <1>11 DEF n, Recorded
  <2>2. P1 = P /\ D1 = D /\ H1 = H
    BY <1>11 DEF P1, D1, H1, Noted, AsPrior, AsDenied, AsHeld
  <2>3. Sound("held", m["held"], H, B \union {a})
    BY <1>4, <1>6, GrownSound
  <2>4. Whole(n, new, B \union {a})
    BY <1>1, <1>6, <1>9, <2>1, <2>2, <2>3
  <2>5. Within(n, m, a) /\ NoneOf(n["denied"], a)
    BY <2>1 DEF Within, Clear
  <2> QED  BY <2>4, <2>5 DEF n, new, NoneOf
<1>12. CASE d.final /\ ~(d.verdict = "allow" \/ (~d.high /\ d.verdict # "block"))
  <2> DEFINE p == IF d.high THEN Prior(e, a) ELSE e
  <2>1. n = IF d.verdict = "block" THEN Denied(p, a, d, "decision") ELSE p
    BY <1>12 DEF n, e, Recorded
  <2>2. H1 = H
    BY <1>12 DEF H1, Noted, AsHeld
  <2>3. /\ p = [k \in Kinds |-> p[k]]
        /\ p["denied"] = e["denied"] /\ p["held"] = e["held"]
        /\ Sound("prior", p["prior"], P1, Attempts)
        /\ \A r \in Range(p["prior"]) : r.of = a \/ r \in Range(m["prior"])
    <3>1. CASE d.high
      <4> DEFINE s == Capped(Append(e["prior"], [of |-> a, left |-> TTL]))
      <4>1. p = Replaced(e, "prior", s)
        BY <3>1 DEF Prior, Replaced
      <4>2. P1 = Anew(P, a)
        BY <1>12, <3>1 DEF P1, Noted, AsPrior
      <4>3. /\ Sound("prior", s, Anew(P, a), Attempts)
            /\ \A r \in Range(s) : r.of = a \/ r \in Range(e["prior"])
        BY <1>1, <1>5, <1>7, PriorSound DEF Short
      <4> HIDE DEF s, p
      <4>4. /\ p = [k \in Kinds |-> p[k]] /\ p["prior"] = s
            /\ p["denied"] = e["denied"] /\ p["held"] = e["held"]
        BY <1>5, <1>8, <4>1, ReplacedIs
      <4> QED  BY <1>5, <4>2, <4>3, <4>4
    <3>2. CASE ~d.high
      <4>1. p = e
        BY <3>2
      <4>2. P1 = P
        BY <3>2 DEF P1, Noted, AsPrior
      <4> QED  BY <1>5, <4>1, <4>2
    <3> QED  BY <3>1, <3>2
  <2> HIDE DEF p
  <2>4. Sound("held", p["held"], H1, B \union {a})
    BY <1>4, <1>5, <2>2, <2>3, GrownSound
  <2>5. CASE d.verdict = "block"
    <3>1. n = Denied(p, a, d, "decision")
      BY <2>1, <2>5
    <3>2. /\ Sound("denied", n["denied"], D1, Attempts)
          /\ \A r \in Range(n["denied"]) :
               (r.of = a /\ r.on = "decision") \/ r \in Range(p["denied"])
          /\ n = [k \in Kinds |-> n[k]]
          /\ n["prior"] = p["prior"] /\ n["held"] = p["held"]
      <4>1. /\ Sound("denied", p["denied"], D, Attempts)
            /\ Unmarked("denied", p["denied"], a, "decision")
        BY <1>0, <1>5, <2>3
      <4> QED  BY <1>1, <2>3, <2>5, <3>1, <4>1, DeniedSound DEF D1
    <3>3. Whole(n, new, B \union {a})
      BY <1>9, <2>3, <2>4, <3>2
    <3>4. Within(n, m, a)
      BY <1>5, <2>3, <3>2 DEF Within
    <3>5. \A r \in Range(n["denied"]) : r.of = a => r.on = "decision"
      BY <1>7, <2>3, <3>2 DEF NoneOf
    <3> QED  BY <2>5, <3>3, <3>4, <3>5 DEF n, new
  <2>6. CASE d.verdict # "block"
    <3>1. n = p
      BY <2>1, <2>6
    <3>2. D1 = D
      BY <2>6 DEF D1, Noted, AsDenied
    <3>3. Whole(n, new, B \union {a})
      BY <1>5, <1>9, <2>3, <2>4, <3>1, <3>2
    <3>4. Within(n, m, a) /\ NoneOf(n["denied"], a)
      BY <1>5, <1>7, <2>3, <3>1 DEF Within
    <3> QED  BY <3>3, <3>4 DEF n, new, NoneOf
  <2> QED  BY <2>5, <2>6
<1> QED  BY <1>10, <1>11, <1>12

\* The attempts in B that are not of the event of a.
Elsewhere(B, a) == {b \in B : Event[b] # Event[a]}

\* A deferral is resolved: nothing of its event is held, and a block is remembered.
LEMMA ResolvedWhole ==
  ASSUME NEW m, NEW log, NEW B \in SUBSET Attempts, Whole(m, log, B),
         NEW a \in Attempts, NEW d, d.final, Unmarked("denied", m["denied"], a, "answer")
  PROVE  /\ Whole(Resolved(m, a, d), Renewed(log, a, d, TRUE), Elsewhere(B, a))
         /\ Within(Resolved(m, a, d), m, a)
<1> DEFINE free == Replaced(m, "held", Freed(m["held"], a))
           n == Resolved(m, a, d)
           new == Renewed(log, a, d, TRUE)
           C == Elsewhere(B, a)
           P == Column(log, "prior")
           D == Column(log, "denied")
           H == Column(log, "held")
           D1 == Noted(D, a, AsDenied(a, d))
<1>1. /\ log \in Times /\ m = [k \in Kinds |-> m[k]]
      /\ Short(P) /\ Short(D) /\ Short(H)
  BY WholeShows
<1>2. /\ new \in Times /\ Column(new, "prior") = P /\ Column(new, "denied") = D1
      /\ Column(new, "held") = H
  <2>1. Noted(H, a, AsHeld(a, d)) = H
    BY DEF Noted, AsHeld
  <2> HIDE DEF P, H, D
  <2>2. /\ new \in Times /\ Column(new, "held") = Noted(H, a, AsHeld(a, d))
        /\ Column(new, "prior") = P /\ Column(new, "denied") = D1
    BY <1>1, ColumnsRenewed DEF P, D, H
  <2> QED  BY <2>1, <2>2
<1>3. Short(D1)
  BY <1>1, NotedShort
<1>4. /\ Sound("prior", m["prior"], P, Attempts) /\ Sound("denied", m["denied"], D, Attempts)
      /\ Sound("held", m["held"], H, B)
  BY DEF Whole
<1>5. n = IF d.verdict = "block" THEN Denied(Evicted(free), a, d, "answer") ELSE free
  BY DEF Resolved, Replaced
<1>6. Sound("held", Freed(m["held"], a), H, C)
  BY <1>4, FreedSound DEF Elsewhere
<1>7. /\ "prior" \in Kinds /\ "denied" \in Kinds /\ "held" \in Kinds
      /\ "prior" # "denied" /\ "prior" # "held" /\ "denied" # "held"
  BY DEF Kinds
<1>8. /\ free = [k \in Kinds |-> free[k]] /\ free["held"] = Freed(m["held"], a)
      /\ free["prior"] = m["prior"] /\ free["denied"] = m["denied"]
  BY <1>1, <1>7, ReplacedIs
<1> HIDE DEF free, n, new, C, P, D, H, D1
<1>9. Whole(free, log, C)
  BY <1>1, <1>4, <1>6, <1>8, WholeFrom DEF P, D, H
<1>10. CASE d.verdict = "block"
  <2> DEFINE e == Evicted(free)
  <2>1. n = Denied(e, a, d, "answer")
    BY <1>5, <1>10
  <2>2. /\ Whole(e, log, C)
        /\ \A r \in Range(e["prior"]) : r \in Range(m["prior"])
        /\ \A r \in Range(e["denied"]) : r \in Range(m["denied"])
    BY <1>8, <1>9, EvictedWhole
  <2> HIDE DEF e
  <2>3. /\ e = [k \in Kinds |-> e[k]]
        /\ Sound("prior", e["prior"], P, Attempts) /\ Sound("denied", e["denied"], D, Attempts)
        /\ Sound("held", e["held"], H, C) /\ Unmarked("denied", e["denied"], a, "answer")
    BY <2>2 DEF Whole, Unmarked, P, D, H
  <2>4. /\ Sound("denied", n["denied"], D1, Attempts)
        /\ \A r \in Range(n["denied"]) :
             (r.of = a /\ r.on = "answer") \/ r \in Range(e["denied"])
        /\ n = [k \in Kinds |-> n[k]]
        /\ n["prior"] = e["prior"] /\ n["held"] = e["held"]
    BY <1>1, <1>10, <2>1, <2>3, DeniedSound DEF D1
  <2>5. Whole(n, new, C)
    BY <1>1, <1>2, <1>3, <2>3, <2>4, WholeFrom
  <2>6. Within(n, m, a)
    BY <2>2, <2>4 DEF Within
  <2> QED  BY <2>5, <2>6 DEF n, new, C
<1>11. CASE d.verdict # "block"
  <2>1. n = free
    BY <1>5, <1>11
  <2>2. D1 = D
    BY <1>11 DEF D1, Noted, AsDenied
  <2>3. Whole(n, new, C)
    BY <1>1, <1>2, <1>4, <1>6, <1>8, <2>1, <2>2, WholeFrom
  <2>4. Within(n, m, a)
    BY <1>8, <2>1 DEF Within
  <2> QED  BY <2>3, <2>4 DEF n, new, C
<1> QED  BY <1>10, <1>11

-----------------------------------------------------------------------------
(* What stands against attempts is remembered, step by step. *)

\* What is still held against somebody.
Pending == {b \in Attempts : Unresolved(b)}

\* The memory has all that is due; of an attempt nothing is due as held, and none is
\* recorded as prior, before it has been decided.
StandInv ==
  /\ Whole(memory, due, Pending)
  /\ \A a \in Attempts : stage[a] \in {"new", "recognising"} =>
       due[a]["held"] = 0 /\ NoneOf(memory["prior"], a)

\* What is pending after a step of one attempt.
LEMMA PendingAfter ==
  ASSUME stage \in [Attempts -> Stages], NEW a \in Attempts, stage[a] # "done",
         NEW s, stage' = [stage EXCEPT ![a] = s]
  PROVE  /\ Pending' \subseteq Pending \union {a}
         /\ s = "done" => Pending' \subseteq {b \in Pending : Event[b] # Event[a]}
<1>1. stage'[a] = s /\ \A b \in Attempts \ {a} : stage'[b] = stage[b]
  OBVIOUS
<1>2. ASSUME NEW b \in Pending', b # a
      PROVE  b \in Pending
  <2>1. /\ b \in Attempts /\ stage'[b] \in {"waiting", "open"}
        /\ \A c \in Attempts : Event[c] = Event[b] => stage'[c] # "done"
    BY DEF Pending, Unresolved
  <2>2. \A c \in Attempts : Event[c] = Event[b] => stage[c] # "done"
    BY <1>1, <2>1
  <2> QED  BY <1>1, <1>2, <2>1, <2>2 DEF Pending, Unresolved
<1>3. ASSUME NEW b \in Pending', s = "done"
      PROVE  b # a /\ Event[b] # Event[a]
  <2>1. /\ b \in Attempts
        /\ \A c \in Attempts : Event[c] = Event[b] => stage'[c] # "done"
    BY DEF Pending, Unresolved
  <2>2. stage'[a] = "done"
    BY <1>1, <1>3
  <2> QED  BY <2>1, <2>2
<1> QED  BY <1>2, <1>3

\* Fewer may be pending.
LEMMA PartWhole ==
  ASSUME NEW m, NEW log, NEW B, Whole(m, log, B), NEW C, C \subseteq B
  PROVE  Whole(m, log, C)
BY PartSound DEF Whole

\* Of an attempt that has not been decided nothing is remembered.
LEMMA ClearBefore ==
  ASSUME BypassInv, StandInv, NEW a \in Attempts, stage[a] \in {"new", "recognising"}
  PROVE  Clear(memory, a) /\ due[a]["held"] = 0
<1>1. NoneOf(memory["prior"], a) /\ due[a]["held"] = 0
  BY DEF StandInv
<1>2. outcome[a] = Undecided
  BY DEF BypassInv, UnderWay
<1>3. NoneOf(memory["denied"], a)
  BY <1>2 DEF BypassInv, IsDenial, NoneOf, Undecided
<1>4. NoneOf(memory["held"], a)
  BY DEF BypassInv, IsHold, NoneOf
<1> QED  BY <1>1, <1>3, <1>4 DEF Clear

\* A step that decides an attempt, or resolves it.
LEMMA StandAfter ==
  ASSUME BypassInv, StandInv, NEW a \in Attempts, stage[a] # "done",
         NEW s \in {"waiting", "open", "done"}, stage' = [stage EXCEPT ![a] = s],
         NEW B, Pending' \subseteq B, Whole(memory', due', B),
         Within(memory', memory, a), \A b \in Attempts \ {a} : due'[b] = due[b]
  PROVE  StandInv'
<1>1. Whole(memory', due', Pending')
  BY PartWhole
<1>2. stage'[a] = s /\ \A b \in Attempts \ {a} : stage'[b] = stage[b]
  BY DEF BypassInv
<1>3. ASSUME NEW b \in Attempts, stage'[b] \in {"new", "recognising"}
      PROVE  due'[b]["held"] = 0 /\ NoneOf(memory'["prior"], b)
  <2>1. b # a /\ stage[b] \in {"new", "recognising"}
    BY <1>2, <1>3
  <2>2. due[b]["held"] = 0 /\ NoneOf(memory["prior"], b) /\ due'[b] = due[b]
    BY <2>1 DEF StandInv
  <2> QED  BY <2>1, <2>2 DEF NoneOf, Within
<1> QED  BY <1>1, <1>3 DEF StandInv

\* The memory that a decision is recorded in: it is as it was, but for what expired.
Fit(m, a) ==
  /\ Whole(m, due, Pending) /\ Clear(m, a)
  /\ \A r \in Range(m["prior"]) : r \in Range(memory["prior"])
  /\ \A r \in Range(m["denied"]) : r \in Range(memory["denied"])

\* A decision is recorded, and returned or waited for.
LEMMA KeptStands ==
  ASSUME BypassInv, StandInv, NEW a \in Attempts, stage[a] \in {"new", "recognising"},
         NEW m, Fit(m, a), NEW d, d.final \/ d.verdict = "defer",
         NEW s \in {"waiting", "open", "done"}, Kept(a, m, d, s)
  PROVE  StandInv'
<1>1. due \in Times /\ due[a]["held"] = 0 /\ stage[a] # "done"
      /\ stage \in [Attempts -> Stages]
  BY ClearBefore DEF BypassInv
<1>2. /\ stage' = [stage EXCEPT ![a] = s] /\ memory' = Recorded(m, a, d)
      /\ due' = Renewed(due, a, d, FALSE)
  BY DEF Kept
<1>3. Pending \in SUBSET Attempts
  BY DEF Pending
<1>4. Whole(memory', due', Pending \union {a}) /\ Within(memory', m, a)
  BY <1>1, <1>2, <1>3, RecordedWhole DEF Fit
<1>5. Within(memory', memory, a)
  BY <1>4 DEF Within, Fit
<1>6. Pending' \subseteq Pending \union {a}
  BY <1>1, <1>2, PendingAfter
<1>7. \A b \in Attempts \ {a} : due'[b] = due[b]
  <2>1. IsRenewed(due', due, a, d)
    BY <1>2 DEF IsRenewed
  <2> QED  BY <1>1, <2>1, RenewedIs
<1> QED  BY <1>1, <1>2, <1>4, <1>5, <1>6, <1>7, StandAfter

\* A deferral is refused at once, or a confirmation.
LEMMA RefusedStands ==
  ASSUME BypassInv, StandInv, NEW a \in Attempts, stage[a] \in {"new", "recognising"},
         NEW m, Fit(m, a), NEW d, d.final \/ d.verdict = "defer",
         d.verdict = "defer" \/ a \in Confirms, Refused(a, m, d)
  PROVE  StandInv'
<1> DEFINE denied == Decision("block", TRUE, "policy", d.high)
           log == Renewed(due, a, d, FALSE)
           n == Recorded(m, a, d)
           B == Pending \union {a}
           C == Elsewhere(B, a)
<1>1. due \in Times /\ due[a]["held"] = 0 /\ stage[a] # "done"
      /\ stage \in [Attempts -> Stages]
  BY ClearBefore DEF BypassInv
<1>2. /\ stage' = [stage EXCEPT ![a] = "done"] /\ memory' = Resolved(n, a, denied)
      /\ due' = Renewed(log, a, denied, TRUE)
  BY DEF Refused
<1>3. denied.final
  BY DEF Decision
<1>4. Pending \in SUBSET Attempts /\ B \in SUBSET Attempts
  BY DEF Pending
<1>5. Whole(n, log, B) /\ Within(n, m, a) /\ Unmarked("denied", n["denied"], a, "answer")
  <2>1. /\ Whole(n, log, B) /\ Within(n, m, a)
        /\ \A r \in Range(n["denied"]) : r.of = a => d.verdict = "block" /\ r.on = "decision"
    BY <1>1, <1>4, RecordedWhole DEF Fit
  <2> HIDE DEF n, log, B
  <2>2. Unmarked("denied", n["denied"], a, "answer")
    BY <2>1 DEF Unmarked, Twice
  <2> QED  BY <2>1, <2>2
<1>6. log \in Times /\ \A b \in Attempts \ {a} : log[b] = due[b]
  <2>1. IsRenewed(log, due, a, d)
    BY DEF IsRenewed
  <2> HIDE DEF log
  <2> QED  BY <1>1, <2>1, RenewedIs
<1> HIDE DEF denied, log, n, B, C
<1>7. Whole(memory', due', C) /\ Within(memory', n, a)
  BY <1>2, <1>3, <1>4, <1>5, ResolvedWhole DEF C
<1>8. Within(memory', memory, a)
  BY <1>5, <1>7 DEF Within, Fit
<1>9. Pending' \subseteq C
  <2>1. Pending' \subseteq {b \in Pending : Event[b] # Event[a]}
    BY <1>1, <1>2, PendingAfter
  <2> QED  BY <2>1 DEF B, C, Elsewhere
<1>10. \A b \in Attempts \ {a} : due'[b] = due[b]
  <2>1. IsRenewed(due', log, a, denied)
    BY <1>2 DEF IsRenewed
  <2>2. \A b \in Attempts \ {a} : due'[b] = log[b]
    BY <1>6, <2>1, RenewedIs
  <2> QED  BY <1>6, <2>2
<1> QED  BY <1>1, <1>2, <1>7, <1>8, <1>9, <1>10, StandAfter

\* A decision is settled.
LEMMA SettledStands ==
  ASSUME BypassInv, StandInv, NEW a \in Attempts, stage[a] \in {"new", "recognising"},
         NEW m, Fit(m, a), NEW d, IsProper(d), NEW bridge, Settle(a, m, d, bridge)
  PROVE  StandInv'
<1>1. d.final \/ d.verdict = "defer"
  BY DEF IsProper
<1> QED  BY <1>1, SettleIs, KeptStands, RefusedStands

\* A decision on a match.
LEMMA DecidedStands ==
  ASSUME BypassInv, StandInv, NEW a \in Attempts, stage[a] \in {"new", "recognising"},
         NEW m, Fit(m, a), NEW x, Decide(a, m, x)
  PROVE  StandInv'
<1>1. PICK d \in Outcomes(a, x) : Settle(a, m, d, TRUE)
  BY DEF Decide
<1>2. IsProper(d)
  BY OutcomesAre
<1> QED  BY <1>1, <1>2, SettledStands

\* The memory fits as it is, and without what has expired.
LEMMA MemoryFits ==
  ASSUME BypassInv, StandInv, NEW a \in Attempts, stage[a] \in {"new", "recognising"}
  PROVE  Fit(memory, a) /\ Fit(Evicted(memory), a)
<1>1. Whole(memory, due, Pending) /\ Clear(memory, a)
  BY ClearBefore DEF StandInv
<1>2. /\ Whole(Evicted(memory), due, Pending)
      /\ \A r \in Range(Evicted(memory)["prior"]) : r \in Range(memory["prior"])
      /\ \A r \in Range(Evicted(memory)["denied"]) : r \in Range(memory["denied"])
      /\ \A r \in Range(Evicted(memory)["held"]) : r \in Range(memory["held"])
  BY <1>1, EvictedWhole
<1>3. Clear(Evicted(memory), a)
  BY <1>1, <1>2 DEF Clear, NoneOf
<1> QED  BY <1>1, <1>2, <1>3 DEF Fit

\* A request arrives.
LEMMA ArriveStands ==
  ASSUME BypassInv, StandInv, NEW a \in Attempts, Arrive(a)
  PROVE  StandInv'
<1> DEFINE m == Evicted(memory)
           x == Matched(a, m)
<1>1. stage[a] = "new" /\ stage \in [Attempts -> Stages]
  BY DEF Arrive, BypassInv
<1>2. Fit(m, a)
  BY <1>1, MemoryFits
<1>3. CASE Decide(a, m, x)
  <2> HIDE DEF m, x
  <2> QED  BY <1>1, <1>2, <1>3, DecidedStands
<1>4. CASE /\ stage' = [stage EXCEPT ![a] = "recognising"]
           /\ memory' = m /\ UNCHANGED <<outcome, due>>
  <2>1. Pending' \subseteq Pending
    <3>1. Pending' \subseteq Pending \union {a}
      BY <1>1, <1>4, PendingAfter
    <3>2. stage'[a] = "recognising"
      BY <1>1, <1>4
    <3>3. a \notin Pending'
      BY <3>2 DEF Pending, Unresolved
    <3> QED  BY <3>1, <3>3
  <2>2. Whole(memory', due', Pending')
    BY <1>2, <1>4, <2>1, PartWhole DEF Fit
  <2>3. ASSUME NEW b \in Attempts, stage'[b] \in {"new", "recognising"}
        PROVE  due'[b]["held"] = 0 /\ NoneOf(memory'["prior"], b)
    <3>1. stage[b] \in {"new", "recognising"}
      BY <1>1, <1>4, <2>3
    <3>2. due[b]["held"] = 0 /\ NoneOf(memory["prior"], b)
      BY <3>1 DEF StandInv
    <3>3. \A r \in Range(memory'["prior"]) : r \in Range(memory["prior"])
      BY <1>2, <1>4 DEF Fit
    <3> QED  BY <1>4, <3>2, <3>3 DEF NoneOf
  <2> QED  BY <2>2, <2>3 DEF StandInv
<1> QED  BY <1>3, <1>4 DEF Arrive

\* The recogniser has answered.
LEMMA RecognisedStands ==
  ASSUME BypassInv, StandInv, NEW a \in Attempts, Recognised(a)
  PROVE  StandInv'
<1>1. PICK x : Decide(a, memory, x)
  BY DEF Recognised
<1>2. stage[a] = "recognising"
  BY DEF Recognised
<1> QED  BY <1>1, <1>2, MemoryFits, DecidedStands

\* The session is quarantined or locked.
LEMMA EnforceStands ==
  ASSUME BypassInv, StandInv, NEW a \in Attempts, Enforce(a)
  PROVE  StandInv'
<1>1. stage[a] = "new" /\ Fit(memory, a)
  BY MemoryFits DEF Enforce
<1>2. CASE Decide(a, memory, Unasked)
  BY <1>1, <1>2, DecidedStands
<1>3. ASSUME NEW d \in Overlaid(a, Decision("block", TRUE, "policy", TRUE)),
             Settle(a, memory, d, TRUE)
      PROVE  StandInv'
  <2>1. IsProper(d)
    BY Proper, OverlaidAre
  <2> QED  BY <1>1, <1>3, <2>1, SettledStands
<1>4. ASSUME NEW v \in {"block", "defer"},
             NEW d \in Scoped(Observed(a, Decision(v, TRUE, "policy", TRUE))),
             Settle(a, memory, d, FALSE)
      PROVE  StandInv'
  <2>1. IsProper(Observed(a, Decision(v, TRUE, "policy", TRUE)))
    BY Proper DEF Observed
  <2>2. IsProper(d)
    BY <2>1, OverlaidAre
  <2> QED  BY <1>1, <1>4, <2>2, SettledStands
<1> QED  BY <1>2, <1>3, <1>4 DEF Enforce

\* An operator answers, or the time to answer is over.
LEMMA ResolveStands ==
  ASSUME BypassInv, StandInv, NEW a \in Attempts, Resolve(a)
  PROVE  StandInv'
<1>1. PICK v \in {"allow", "block"} :
        LET d == Decision(v, TRUE, "policy", outcome[a].high)
        IN  /\ memory' = Resolved(memory, a, d)
            /\ due' = Renewed(due, a, d, TRUE)
  BY DEF Resolve
<1> DEFINE d == Decision(v, TRUE, "policy", outcome[a].high)
<1>2. /\ stage[a] = "waiting" /\ stage' = [stage EXCEPT ![a] = "done"]
      /\ memory' = Resolved(memory, a, d) /\ due' = Renewed(due, a, d, TRUE)
  BY <1>1 DEF Resolve
<1>3. d.final
  BY DEF Decision
<1> HIDE DEF d
<1>4. /\ due \in Times /\ stage \in [Attempts -> Stages] /\ stage[a] # "done"
      /\ outcome[a].verdict = "defer" \/ a \in Confirms
  BY <1>2 DEF BypassInv, UnderWay
<1>5. Unmarked("denied", memory["denied"], a, "answer")
  <2> SUFFICES ASSUME NEW r \in Range(memory["denied"]), r.of = a
               PROVE  a \in Confirms /\ r.on # "answer"
    BY DEF Unmarked, Twice
  <2>1. IsDenial(r, stage[a], outcome[a], due[a])
    BY DEF BypassInv
  <2>2. r.on # "answer"
    BY <1>2, <2>1 DEF IsDenial
  <2>3. a \in Confirms
    BY <1>4, <2>1 DEF IsDenial
  <2> QED  BY <2>2, <2>3
<1>6. Pending \in SUBSET Attempts /\ Whole(memory, due, Pending)
  BY DEF Pending, StandInv
<1>7. /\ Whole(memory', due', Elsewhere(Pending, a)) /\ Within(memory', memory, a)
  BY <1>2, <1>3, <1>5, <1>6, ResolvedWhole
<1>8. Pending' \subseteq Elsewhere(Pending, a)
  <2>1. Pending' \subseteq {b \in Pending : Event[b] # Event[a]}
    BY <1>2, <1>4, PendingAfter
  <2> QED  BY <2>1 DEF Elsewhere
<1>9. \A b \in Attempts \ {a} : due'[b] = due[b]
  <2>1. IsRenewed(due', due, a, d)
    BY <1>2 DEF IsRenewed
  <2> QED  BY <1>4, <2>1, RenewedIs
<1> QED  BY <1>2, <1>4, <1>7, <1>8, <1>9, StandAfter

\* The client goes away.
LEMMA AbandonStands ==
  ASSUME BypassInv, StandInv, NEW a \in Attempts, Abandon(a)
  PROVE  StandInv'
<1> DEFINE s == IF stage[a] = "waiting" THEN "open" ELSE "done"
<1>1. /\ stage[a] \in {"recognising", "waiting"} /\ UNCHANGED <<memory, due>>
      /\ stage' = [stage EXCEPT ![a] = s] /\ stage \in [Attempts -> Stages]
  BY DEF Abandon, BypassInv
<1>2. stage[a] = "waiting" \/ s = "done"
  OBVIOUS
<1>3. s \in {"open", "done"}
  OBVIOUS
<1> HIDE DEF s
<1>4. Pending' \subseteq Pending
  <2>1. CASE stage[a] = "waiting"
    <3>1. \A b \in Attempts \ {a} : stage'[b] = stage[b]
      BY <1>1
    <3>2. \A b \in Attempts : stage'[b] # "done" => stage[b] # "done"
      BY <2>1, <3>1
    <3>3. \A b \in Attempts : stage'[b] \in {"waiting", "open"}
                                => stage[b] \in {"waiting", "open"}
      BY <2>1, <3>1
    <3> QED  BY <3>2, <3>3 DEF Pending, Unresolved
  <2>2. CASE s = "done"
    BY <1>1, <2>2, PendingAfter
  <2> QED  BY <1>2, <2>1, <2>2
<1>5. Whole(memory', due', Pending) /\ Within(memory', memory, a)
  BY <1>1 DEF StandInv, Within
<1> QED  BY <1>1, <1>3, <1>4, <1>5, StandAfter

\* Time passes.
LEMMA TickStands ==
  ASSUME BypassInv, StandInv, Tick
  PROVE  StandInv'
<1>1. /\ memory' = [k \in Kinds |-> [i \in DOMAIN memory[k] |-> Older(memory[k][i])]]
      /\ due' = [a \in Attempts |-> [k \in Kinds |-> Max({due[a][k] - 1, 0})]]
      /\ UNCHANGED <<stage, outcome>>
  BY DEF Tick, Older
<1>2. due \in Times
  BY DEF BypassInv
<1>3. "prior" \in Kinds /\ "denied" \in Kinds /\ "held" \in Kinds
  BY DEF Kinds
<1>4. ASSUME NEW c \in Attempts, NEW k \in Kinds
      PROVE  /\ due[c][k] \in Nat /\ due'[c][k] = Max({due[c][k] - 1, 0})
             /\ due'[c][k] \in 0..TTL
             /\ due[c][k] = 0 => due'[c][k] = 0
  <2>1. due[c][k] \in Nat /\ due[c][k] <= TTL /\ TTL \in Nat
    BY <1>2, BypassAssumption DEF Times
  <2>2. due'[c][k] = Max({due[c][k] - 1, 0})
    BY <1>1
  <2> QED  BY <2>1, <2>2, OneLess
<1>5. due' \in Times
  <2>1. \A c \in Attempts : due'[c] \in [Kinds -> 0..TTL]
    <3> SUFFICES ASSUME NEW c \in Attempts PROVE due'[c] \in [Kinds -> 0..TTL]
      OBVIOUS
    <3>1. due'[c] = [k \in Kinds |-> Max({due[c][k] - 1, 0})]
      BY <1>1
    <3>2. \A k \in Kinds : due'[c][k] \in 0..TTL
      BY <1>4
    <3> QED  BY <3>1, <3>2
  <2> QED  BY <1>1, <2>1 DEF Times
<1>6. ASSUME NEW k \in Kinds
      PROVE  Column(due', k) = Later(Column(due, k))
  BY <1>4 DEF Column, Later
<1>7. ASSUME NEW k \in Kinds
      PROVE  memory'[k] = [i \in DOMAIN memory[k] |-> Older(memory[k][i])]
  BY <1>1
<1>8. ASSUME NEW k \in Kinds, NEW B \in SUBSET Attempts,
             Sound(k, memory[k], Column(due, k), B)
      PROVE  Sound(k, memory'[k], Column(due', k), B)
  <2> DEFINE s == memory[k]
             L == Column(due, k)
  <2>1. L \in [Attempts -> Nat] /\ Sound(k, s, L, B)
    BY <1>2, <1>8, ColumnIs DEF Short
  <2>2. memory'[k] = [i \in DOMAIN s |-> Older(s[i])] /\ Column(due', k) = Later(L)
    BY <1>6, <1>7
  <2> HIDE DEF s, L
  <2>3. Sound(k, [i \in DOMAIN s |-> Older(s[i])], Later(L), B)
    BY <2>1, OlderSound
  <2> QED  BY <2>2, <2>3
<1>9. Pending \in SUBSET Attempts /\ Pending' = Pending
  BY <1>1 DEF Pending, Unresolved
<1>10. Sound("prior", memory'["prior"], Column(due', "prior"), Attempts)
  BY <1>3, <1>8 DEF StandInv, Whole
<1>11. Sound("denied", memory'["denied"], Column(due', "denied"), Attempts)
  BY <1>3, <1>8 DEF StandInv, Whole
<1>12. Sound("held", memory'["held"], Column(due', "held"), Pending)
  BY <1>3, <1>8, <1>9 DEF StandInv, Whole
<1>13. memory' = [k \in Kinds |-> memory'[k]]
  BY <1>1
<1>14. Whole(memory', due', Pending')
  BY <1>4, <1>5, <1>9, <1>10, <1>11, <1>12, <1>13 DEF Whole
<1>15. ASSUME NEW a \in Attempts, stage'[a] \in {"new", "recognising"}
       PROVE  due'[a]["held"] = 0 /\ NoneOf(memory'["prior"], a)
  <2>1. due[a]["held"] = 0 /\ NoneOf(memory["prior"], a)
    BY <1>1, <1>15 DEF StandInv
  <2>2. due'[a]["held"] = 0
    BY <1>3, <1>4, <2>1
  <2>3. ASSUME NEW q \in Range(memory'["prior"]) PROVE q.of # a
    <3>1. PICK i \in DOMAIN memory["prior"] : q = Older(memory["prior"][i])
      <4> DEFINE s == memory["prior"]
                 t == memory'["prior"]
      <4>1. t = [i \in DOMAIN s |-> Older(s[i])]
        BY <1>3, <1>7
      <4>2. q \in Range(t)
        OBVIOUS
      <4> HIDE DEF s, t
      <4>3. \E i \in DOMAIN s : q = Older(s[i])
        BY <4>1, <4>2 DEF Range
      <4> QED  BY <4>3 DEF s
    <3>2. memory["prior"][i] \in Range(memory["prior"])
      BY DEF Range
    <3>3. Logged("prior", Column(due, "prior"), memory["prior"][i])
      BY <3>2 DEF StandInv, Whole, Sound, InLine
    <3>4. Column(due, "prior") \in [Attempts -> Nat]
      BY <1>2, <1>3, ColumnIs DEF Short
    <3>5. q.of = memory["prior"][i].of
      BY <3>1, <3>3, <3>4, OlderIs
    <3> QED  BY <2>1, <3>2, <3>5 DEF NoneOf
  <2> QED  BY <2>2, <2>3 DEF NoneOf
<1> QED  BY <1>14, <1>15 DEF StandInv

\* At first nothing is due, and nothing remembered.
LEMMA InitStands ==
  ASSUME Init
  PROVE  StandInv
<1>1. /\ memory = [k \in Kinds |-> <<>>] /\ stage = [a \in Attempts |-> "new"]
      /\ due = [a \in Attempts |-> [k \in Kinds |-> 0]]
  BY DEF Init
<1>2. "prior" \in Kinds /\ "denied" \in Kinds /\ "held" \in Kinds
  BY DEF Kinds
<1>3. /\ due \in Times /\ \A k \in Kinds, c \in Attempts : due[c][k] = 0
      /\ TTL \in Nat
  BY <1>1, BypassAssumption DEF Times
<1>4. Range(<<>>) = {} /\ <<>> \in Seq(Range(<<>>)) /\ Len(<<>>) = 0
  BY DEF Range
<1>5. ASSUME NEW k \in Kinds, NEW B, B \subseteq Attempts
      PROVE  Sound(k, memory[k], Column(due, k), B)
  <2>1. memory[k] = <<>>
    BY <1>1
  <2>2. InLine(k, <<>>, Column(due, k))
    BY <1>4 DEF InLine
  <2>3. \A b \in B : ~(Column(due, k)[b] > 0)
    BY <1>3, <1>5 DEF Column
  <2>4. Complete(k, <<>>, Column(due, k), B)
    BY <2>3 DEF Complete
  <2> QED  BY <2>1, <2>2, <2>4 DEF Sound
<1>6. Pending \subseteq Attempts /\ memory = [k \in Kinds |-> memory[k]]
  BY <1>1 DEF Pending
<1>7. Whole(memory, due, Pending)
  BY <1>2, <1>3, <1>5, <1>6 DEF Whole
<1>8. \A a \in Attempts : NoneOf(memory["prior"], a)
  BY <1>1, <1>2, <1>4 DEF NoneOf
<1> QED  BY <1>2, <1>3, <1>7, <1>8 DEF StandInv

\* The invariant holds throughout.
THEOREM StandInductive == Spec => []StandInv
<1>1. Init => StandInv
  BY InitStands
<1>2. BypassInv /\ StandInv /\ [Next]_vars => StandInv'
  <2> SUFFICES ASSUME BypassInv, StandInv, [Next]_vars PROVE StandInv'
    OBVIOUS
  <2>1. CASE Next
    BY <2>1, ArriveStands, RecognisedStands, EnforceStands, ResolveStands,
       AbandonStands, TickStands DEF Next
  <2>2. CASE UNCHANGED vars
    BY <2>2 DEF vars, StandInv, Pending, Unresolved
  <2> QED  BY <2>1, <2>2
<1> QED  BY <1>1, <1>2, BypassInductive, PTL DEF Spec

-----------------------------------------------------------------------------
(* What is remembered is found. *)

\* A record that has the effect of a is a match, and a match of that kind if its
\* capability is one that comes before others.
LEMMA DeniedFinds ==
  ASSUME NEW a, NEW s
  PROVE  /\ DeniedMatch(a, s) = NoMatch \/ DeniedMatch(a, s).type \in {"denied", "preempting"}
         /\ \A i \in DOMAIN s : SameEffect(a, s[i]) =>
              /\ DeniedMatch(a, s).type \in {"denied", "preempting"}
              /\ s[i].capability \in Preempting => DeniedMatch(a, s).type = "preempting"
<1> DEFINE hits == {i \in DOMAIN s : /\ s[i].capability \in Capabilities(a)
                                     /\ SameEffect(a, s[i]) \/ SameContent(a, s[i])}
           strong == {i \in hits : s[i].capability \in Preempting}
           r == s[Max(IF strong = {} THEN hits ELSE strong)]
           kind == IF strong = {} THEN "denied" ELSE "preempting"
           act == IF SameTarget(a, r) \/ SameContent(a, r) THEN ExactAction
                  ELSE IF Lenient /\ ~Targetless(a) THEN "defer" ELSE "block"
<1>1. DeniedMatch(a, s) = IF hits = {} THEN NoMatch
                          ELSE [type |-> kind, action |-> act, high |-> r.high]
  BY DEF DeniedMatch
<1>2. \A i \in DOMAIN s : SameEffect(a, s[i]) =>
        /\ i \in hits
        /\ s[i].capability \in Preempting => i \in strong
  BY DEF SameEffect
<1>3. kind \in {"denied", "preempting"} /\ (strong # {} => kind = "preempting")
  OBVIOUS
<1> HIDE DEF hits, strong, r, kind, act
<1>4. DeniedMatch(a, s) = NoMatch \/ DeniedMatch(a, s).type \in {"denied", "preempting"}
  BY <1>1, <1>3
<1>5. hits # {} => DeniedMatch(a, s).type = kind
  BY <1>1
<1> QED  BY <1>2, <1>3, <1>4, <1>5

\* So is a text that is exactly the same.
LEMMA PriorFinds ==
  ASSUME NEW a, NEW s
  PROVE  /\ PriorMatch(a, s) = NoMatch \/ PriorMatch(a, s).type = "repeat"
         /\ \A r \in Range(s) : Likeness[a][r.of] = "exact" =>
              PriorMatch(a, s).type = "repeat"
<1> DEFINE alike == {Likeness[a][r.of] : r \in Range(s)}
           Repeat(action) == [type |-> "repeat", action |-> action, high |-> TRUE]
<1>1. PriorMatch(a, s) =
        IF "exact" \in alike THEN Repeat(ExactAction)
        ELSE IF "same tool" \in alike THEN Repeat(SameToolAction)
        ELSE IF "cross tool" \in alike THEN Repeat(CrossToolAction)
        ELSE NoMatch
  BY DEF PriorMatch
<1>2. \A action : Repeat(action).type = "repeat"
  OBVIOUS
<1>3. \A r \in Range(s) : Likeness[a][r.of] = "exact" => "exact" \in alike
  OBVIOUS
<1> HIDE DEF alike, Repeat
<1> QED  BY <1>1, <1>2, <1>3

\* So is an effect that waits for an answer.
LEMMA PendingFinds ==
  ASSUME NEW a, NEW s
  PROVE  /\ PendingMatch(a, s) = NoMatch \/ PendingMatch(a, s).type = "pending"
         /\ \A i \in DOMAIN s : SameEffect(a, s[i]) => PendingMatch(a, s).type = "pending"
<1> DEFINE hits == {i \in DOMAIN s : SameEffect(a, s[i])}
<1>1. PendingMatch(a, s) =
        IF hits = {} THEN NoMatch
        ELSE [type |-> "pending", action |-> "defer", high |-> s[Max(hits)].high]
  BY DEF PendingMatch
<1>2. \A i \in DOMAIN s : SameEffect(a, s[i]) => i \in hits
  OBVIOUS
<1> HIDE DEF hits
<1> QED  BY <1>1, <1>2

\* What is found is said, and nothing that comes later instead.
LEMMA MatchedSays ==
  ASSUME NEW a, NEW m, ~Exempt(a)
  PROVE  /\ (\/ PriorMatch(a, m["prior"]).type = "repeat"
             \/ DeniedMatch(a, m["denied"]).type \in {"denied", "preempting"}
             \/ PendingMatch(a, m["held"]).type = "pending")
              => Matched(a, m).type \in Recalled
         /\ DeniedMatch(a, m["denied"]).type = "preempting"
              => Matched(a, m).type = "preempting"
<1> DEFINE prior   == PriorMatch(a, m["prior"])
           denied  == DeniedMatch(a, m["denied"])
           pending == PendingMatch(a, m["held"])
           said    == <<prior, denied, pending, ExfiltrationMatch(a)>>
           found   == {i \in 1..4 : said[i] # NoMatch}
<1>1. /\ prior = NoMatch \/ prior.type = "repeat"
      /\ denied = NoMatch \/ denied.type \in {"denied", "preempting"}
      /\ pending = NoMatch \/ pending.type = "pending"
  BY DeniedFinds, PriorFinds, PendingFinds
<1>2. Matched(a, m) = IF denied.type = "preempting" THEN denied
                      ELSE IF found = {} THEN NoMatch ELSE said[Min(found)]
  BY DEF Matched
<1>3. said[1] = prior /\ said[2] = denied /\ said[3] = pending
  OBVIOUS
<1>4. NoMatch.type = "none"
  BY DEF NoMatch
<1> HIDE DEF prior, denied, pending, said
<1>5. ASSUME NEW i \in 1..3, said[i] # NoMatch
      PROVE  Min(found) \in 1..3 /\ found # {} /\ said[Min(found)].type \in Recalled
  <2>1. i \in found /\ found \in SUBSET Nat
    BY <1>5
  <2>2. Min(found) \in found /\ Min(found) <= i
    BY <2>1, LeastBelow
  <2>3. Min(found) \in 1..3 /\ said[Min(found)] # NoMatch
    BY <2>2
  <2>4. \A j \in 1..3 : said[j] # NoMatch => said[j].type \in Recalled
    <3>1. said[1] # NoMatch => said[1].type \in Recalled
      BY <1>1, <1>3 DEF Recalled
    <3>2. said[2] # NoMatch => said[2].type \in Recalled
      BY <1>1, <1>3 DEF Recalled
    <3>3. said[3] # NoMatch => said[3].type \in Recalled
      BY <1>1, <1>3 DEF Recalled
    <3> QED  BY <3>1, <3>2, <3>3
  <2> QED  BY <2>1, <2>3, <2>4
<1> HIDE DEF found
<1>6. ASSUME \/ prior.type = "repeat"
             \/ denied.type \in {"denied", "preempting"}
             \/ pending.type = "pending"
      PROVE  Matched(a, m).type \in Recalled
  <2>1. \E i \in 1..3 : said[i] # NoMatch
    BY <1>3, <1>4, <1>6
  <2>2. found # {} /\ said[Min(found)].type \in Recalled
    BY <1>5, <2>1
  <2> QED  BY <1>2, <2>2 DEF Recalled
<1>7. denied.type = "preempting" => Matched(a, m).type = "preempting"
  BY <1>2
<1> QED  BY <1>6, <1>7 DEF prior, denied, pending

\* What stands is in the deque.
LEMMA StandingThere ==
  ASSUME NEW m, Whole(m, due, Pending), NEW k \in Kinds, NEW b \in Attempts,
         Standing(b, k), k = "held" => b \in Pending
  PROVE  /\ \A x \in Sorts(k, b) : \E r \in Range(m[k]) : r.of = b /\ Sort(k, r) = x
         /\ DOMAIN m[k] = 1..Len(m[k])
         /\ \A r \in Range(m[k]) : \E i \in DOMAIN m[k] : r = m[k][i]
<1> DEFINE L == Column(due, k)
           B == IF k = "held" THEN Pending ELSE Attempts
<1>1. due \in Times /\ Sound(k, m[k], L, B) /\ b \in B
  BY DEF Whole, Kinds
<1>2. \A c \in Attempts : L[c] = due[c][k]
  BY <1>1, ColumnIs
<1> HIDE DEF L, B
<1>3. L[b] > 0 /\ Cardinality(Room(k, L, L[b])) <= MaxRecords
  <2>1. {c \in Attempts : L[c] >= L[b]} = {c \in Attempts : due[c][k] >= due[b][k]}
    BY <1>2
  <2>2. Room(k, L, L[b]) = UNION {Marks(k, c) : c \in {d \in Attempts : due[d][k] >= due[b][k]}}
    BY <2>1 DEF Room
  <2>3. /\ due[b][k] > 0
        /\ Cardinality(UNION {Marks(k, c) : c \in {d \in Attempts : due[d][k] >= due[b][k]}})
             <= MaxRecords
    BY DEF Standing
  <2> QED  BY <1>2, <2>2, <2>3
<1>4. \A x \in Sorts(k, b) : \E r \in Range(m[k]) : r.of = b /\ Sort(k, r) = x
  BY <1>1, <1>3 DEF Sound, Complete, Has
<1>5. /\ DOMAIN m[k] = 1..Len(m[k])
      /\ \A r \in Range(m[k]) : \E i \in 1..Len(m[k]) : r = m[k][i]
  BY <1>1, Positions DEF Sound, InLine
<1> QED  BY <1>4, <1>5

\* An effect of it that is shared has its record there.
LEMMA SharedThere ==
  ASSUME NEW m, Whole(m, due, Pending), NEW k \in {"denied", "held"}, NEW b \in Attempts,
         Standing(b, k), k = "held" => b \in Pending, NEW a, NEW C, SharesEffect(a, b, C)
  PROVE  \E i \in DOMAIN m[k] : SameEffect(a, m[k][i]) /\ m[k][i].capability \in C
<1>1. PICK c \in C \intersect Capabilities(b) :
        SameEffect(a, [of |-> b, capability |-> c])
  BY DEF SharesEffect
<1>2. k \in Kinds /\ k # "prior" /\ c \in Sorts(k, b)
  BY <1>1 DEF Kinds, Sorts
<1>3. PICK r \in Range(m[k]) : r.of = b /\ Sort(k, r) = c
  BY <1>2, StandingThere
<1>4. r.of = b /\ r.capability = c
  BY <1>2, <1>3 DEF Sort
<1>5. SameEffect(a, r)
  BY <1>1, <1>4 DEF SameEffect, SameTarget
<1>6. PICK i \in DOMAIN m[k] : r = m[k][i]
  BY <1>2, StandingThere
<1> QED  BY <1>1, <1>4, <1>5, <1>6

\* A request that repeats what stands is told so.
LEMMA ArriveChallenges ==
  ASSUME BypassInv, StandInv, NEW a \in Attempts, Arrive(a), ~Exempt(a),
         NEW b \in Attempts
  PROVE  /\ Standing(b, "denied") /\ SharesEffect(a, b, Capabilities(b)) =>
              match'.type \in Recalled
         /\ Standing(b, "denied") /\ SharesEffect(a, b, Preempting) =>
              match'.type = "preempting"
         /\ Standing(b, "prior") /\ Likeness[a][b] = "exact" =>
              match'.type \in Recalled
         /\ Standing(b, "held") /\ Unresolved(b)
              /\ SharesEffect(a, b, Capabilities(b)) =>
              match'.type \in Recalled
<1> DEFINE m == Evicted(memory)
<1>1. match' = Matched(a, m)
  BY DEF Arrive
<1>2. Whole(m, due, Pending)
  BY EvictedWhole DEF StandInv
<1> HIDE DEF m
<1>0. /\ (\/ PriorMatch(a, m["prior"]).type = "repeat"
          \/ DeniedMatch(a, m["denied"]).type \in {"denied", "preempting"}
          \/ PendingMatch(a, m["held"]).type = "pending")
           => match'.type \in Recalled
      /\ DeniedMatch(a, m["denied"]).type = "preempting" => match'.type = "preempting"
  <2>1. ~Exempt(a)
    OBVIOUS
  <2> QED  BY ONLY <1>1, <2>1, MatchedSays
<1>3. ASSUME Standing(b, "denied"), NEW C, SharesEffect(a, b, C)
      PROVE  /\ match'.type \in Recalled
             /\ C = Preempting => match'.type = "preempting"
  <2>1. PICK i \in DOMAIN m["denied"] : SameEffect(a, m["denied"][i])
                                        /\ m["denied"][i].capability \in C
    BY <1>2, <1>3, SharedThere
  <2>2. /\ DeniedMatch(a, m["denied"]).type \in {"denied", "preempting"}
        /\ C = Preempting => DeniedMatch(a, m["denied"]).type = "preempting"
    BY <2>1, DeniedFinds
  <2> QED  BY <1>0, <2>2
<1>4. ASSUME Standing(b, "prior"), Likeness[a][b] = "exact"
      PROVE  match'.type \in Recalled
  <2>1. "prior" \in Kinds /\ "prior" \in Sorts("prior", b)
    BY DEF Kinds, Sorts
  <2>2. PICK r \in Range(m["prior"]) : r.of = b /\ Sort("prior", r) = "prior"
    BY <1>2, <1>4, <2>1, StandingThere
  <2>3. r.of = b
    BY <2>2
  <2>4. PriorMatch(a, m["prior"]).type = "repeat"
    BY <1>4, <2>3, PriorFinds
  <2> QED  BY <1>0, <2>4
<1>5. ASSUME Standing(b, "held"), Unresolved(b), SharesEffect(a, b, Capabilities(b))
      PROVE  match'.type \in Recalled
  <2>1. b \in Pending
    BY <1>5 DEF Pending
  <2>2. PICK i \in DOMAIN m["held"] : SameEffect(a, m["held"][i])
    BY <1>2, <1>5, <2>1, SharedThere
  <2>3. PendingMatch(a, m["held"]).type = "pending"
    BY <2>2, PendingFinds
  <2> QED  BY <1>0, <2>3
<1> QED  BY <1>3, <1>4, <1>5

\* A step leaves the other attempts where they are.
LEMMA OthersStay ==
  ASSUME stage \in [Attempts -> Stages], NEW b \in Attempts, Arrive(b) \/ Recognised(b)
  PROVE  \A a \in Attempts \ {b} : stage'[a] = stage[a]
<1>1. \E s : stage' = [stage EXCEPT ![b] = s]
  <2>1. ASSUME NEW m, NEW d, Settle(b, m, d, TRUE)
        PROVE  \E s : stage' = [stage EXCEPT ![b] = s]
    BY <2>1, SettleIs DEF Kept, Refused
  <2>2. ASSUME NEW m, NEW x, Decide(b, m, x)
        PROVE  \E s : stage' = [stage EXCEPT ![b] = s]
    BY <2>1, <2>2 DEF Decide
  <2>3. CASE Arrive(b)
    BY <2>2, <2>3 DEF Arrive
  <2>4. CASE Recognised(b)
    BY <2>2, <2>4 DEF Recognised
  <2> QED  BY <2>3, <2>4
<1> QED  BY <1>1

\* Challenged: what policy or an operator has blocked, at whatever risk, and what is
\* deferred at high risk or still to be resolved, is met by every repeat of it for as
\* long as it lives and there is room for it, a confirmation's two denials included.
THEOREM RepeatsAreChallenged == Spec => Challenged
<1> DEFINE Met(a) ==
      stage[a] = "new" /\ stage'[a] # "new" /\ match' # Unasked /\ ~Exempt(a) =>
         \A b \in Attempts :
           /\ Standing(b, "denied") /\ SharesEffect(a, b, Capabilities(b)) =>
                match'.type \in Recalled
           /\ Standing(b, "denied") /\ SharesEffect(a, b, Preempting) =>
                match'.type = "preempting"
           /\ Standing(b, "prior") /\ Likeness[a][b] = "exact" =>
                match'.type \in Recalled
           /\ Standing(b, "held") /\ Unresolved(b)
                /\ SharesEffect(a, b, Capabilities(b)) =>
                match'.type \in Recalled
<1>1. BypassInv /\ StandInv /\ [Next]_vars => [\A a \in Attempts : Met(a)]_vars
  <2> SUFFICES ASSUME BypassInv, StandInv, Next, NEW a \in Attempts,
                      stage[a] = "new", stage'[a] # "new", match' # Unasked, ~Exempt(a)
               PROVE  Met(a)
    OBVIOUS
  <2>1. Arrive(a)
    <3>1. stage \in [Attempts -> Stages]
      BY DEF BypassInv
    <3>2. ASSUME NEW b \in Attempts, Enforce(b) \/ Resolve(b) \/ Abandon(b)
          PROVE  FALSE
      BY <3>2 DEF Enforce, Resolve, Abandon
    <3>3. ~Tick
      BY DEF Tick
    <3>4. PICK b \in Attempts : Arrive(b) \/ Recognised(b)
      BY <3>2, <3>3 DEF Next
    <3>5. a = b
      BY <3>1, <3>4, OthersStay
    <3>6. ~Recognised(a)
      BY DEF Recognised
    <3> QED  BY <3>4, <3>5, <3>6
  <2> QED  BY <2>1, ArriveChallenges
<1> QED  BY <1>1, BypassInductive, StandInductive, PTL DEF Spec, Challenged
=============================================================================
