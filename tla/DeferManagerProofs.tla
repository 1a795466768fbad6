------------------------- MODULE DeferManagerProofs -------------------------
(***************************************************************************)
(* Proofs about the approval table, for any number of handlers and ids,    *)
(* any assignment of ids to handlers and any capacities.                   *)
(***************************************************************************)
EXTENDS DeferManager, SequenceTheorems, FiniteSetTheorems, TLAPS

Distinct(s) == \A i, j \in 1..Len(s) : s[i] = s[j] => i = j

\* Removing an element from a sequence without repetitions.
LEMMA RemoveFirstDistinct ==
  ASSUME NEW S, NEW s \in Seq(S), NEW e, Distinct(s)
  PROVE  /\ RemoveFirst(s, e) \in Seq(S)
         /\ Len(RemoveFirst(s, e)) <= Len(s)
         /\ Distinct(RemoveFirst(s, e))
         /\ ToSet(RemoveFirst(s, e)) = ToSet(s) \ {e}
<1>1. CASE ~ \E i \in 1..Len(s) : s[i] = e
  <2>1. RemoveFirst(s, e) = s
    BY <1>1 DEF RemoveFirst
  <2>2. ToSet(s) \ {e} = ToSet(s)
    BY <1>1 DEF ToSet
  <2> QED BY <2>1, <2>2
<1>2. CASE \E i \in 1..Len(s) : s[i] = e
  <2>1. PICK k \in 1..Len(s) : s[k] = e
    BY <1>2
  <2>2. {i \in 1..Len(s) : s[i] = e} = {k}
    BY <2>1 DEF Distinct
  <2>3. Min({k}) = k
    BY DEF Min
  <2>4. SelectInSeq(s, LAMBDA v : v = e) = k
    BY <2>2, <2>3 DEF SelectInSeq
  <2> DEFINE a == SubSeq(s, 1, k - 1)
             b == SubSeq(s, k + 1, Len(s))
             r == a \o b
  <2>5. RemoveFirst(s, e) = r
    BY <1>2, <2>4 DEF RemoveFirst, RemoveAt
  <2>6. /\ a \in Seq(S) /\ Len(a) = k - 1
        /\ \A i \in 1..(k - 1) : a[i] = s[i]
    BY SubSeqProperties, ElementOfSeq
  <2>7. /\ b \in Seq(S) /\ Len(b) = Len(s) - k
        /\ \A i \in 1..(Len(s) - k) : b[i] = s[k + i]
    BY SubSeqProperties, ElementOfSeq
  <2> HIDE DEF a, b
  <2>8. /\ r \in Seq(S) /\ Len(r) = Len(s) - 1
        /\ \A i \in 1..(Len(s) - 1) : r[i] = IF i < k THEN s[i] ELSE s[i + 1]
    <3>0. Len(s) \in Nat
      BY LenProperties
    <3>1. /\ r \in Seq(S) /\ Len(r) = Len(a) + Len(b)
          /\ \A i \in 1..(Len(a) + Len(b)) :
               r[i] = IF i <= Len(a) THEN a[i] ELSE b[i - Len(a)]
      BY <2>6, <2>7, ConcatProperties
    <3>2. ASSUME NEW i \in 1..(Len(s) - 1), i < k PROVE r[i] = s[i]
      BY <3>0, <3>1, <3>2, <2>6, <2>7
    <3>3. ASSUME NEW i \in 1..(Len(s) - 1), ~(i < k) PROVE r[i] = s[i + 1]
      <4>1. i - (k - 1) \in 1..(Len(s) - k)
        BY <3>0, <3>3
      <4>2. r[i] = b[i - (k - 1)]
        BY <3>0, <3>1, <3>3, <2>6, <2>7
      <4> QED BY <4>1, <4>2, <2>7, <3>0
    <3> QED BY <3>0, <3>1, <3>2, <3>3, <2>6, <2>7
  <2> HIDE DEF r
  <2>9. Distinct(r)
    BY <2>8 DEF Distinct
  <2>10. ToSet(r) = ToSet(s) \ {e}
    <3>1. ASSUME NEW i \in 1..Len(r) PROVE r[i] \in ToSet(s) \ {e}
      BY <2>1, <2>8 DEF ToSet, Distinct
    <3>2. ASSUME NEW i \in 1..Len(s), s[i] # e PROVE s[i] \in ToSet(r)
      <4>1. CASE i < k
        BY <2>8, <4>1 DEF ToSet
      <4>2. CASE i > k
        <5>1. /\ i - 1 \in 1..(Len(s) - 1)
              /\ r[i - 1] = s[i]
          BY <2>8, <4>2
        <5> QED BY <5>1, <2>8 DEF ToSet
      <4> QED BY <4>1, <4>2, <2>1, <3>2
    <3> QED BY <3>1, <3>2, <2>8 DEF ToSet
  <2> QED BY <2>5, <2>8, <2>9, <2>10
<1> QED BY <1>1, <1>2

-----------------------------------------------------------------------------
(* The table of finalized records. *)

\* The insertion order names exactly the ids that have a record, each once,
\* and no more of them than the capacity allows.
RecordsOK ==
  /\ finalized \in [Ids -> Final \union {NotFound}]
  /\ order \in Seq(Ids)
  /\ Distinct(order)
  /\ ToSet(order) = {id \in Ids : finalized[id] # NotFound}
  /\ MaxFinalized > 0 => Len(order) <= MaxFinalized

\* A finalized record is not taken for none.
LEMMA FinalIsFound == \A rec \in Final : rec # NotFound
<1>1. \A rec \in Final : rec.state \in {"resolved", "timeout"}
  BY DEF Final
<1>2. NotFound.state = "not_found"
  BY DEF NotFound
<1> QED BY <1>1, <1>2

\* Storing a record keeps the table in order, writes the id's record or, when
\* it is itself evicted, leaves none, and touches others only to evict them.
LEMMA StoreKeepsRecords ==
  ASSUME RecordsOK, NEW id \in Ids, NEW rec \in Final,
         StoreFinalized(id, rec)
  PROVE  /\ RecordsOK'
         /\ finalized'[id] \in {rec, NotFound}
         /\ \A i \in Ids \ {id} : finalized'[i] \in {finalized[i], NotFound}
<1> DEFINE keys == IF finalized[id] = NotFound THEN Append(order, id) ELSE order
           full == MaxFinalized > 0 /\ Len(keys) > MaxFinalized
<1> USE LimitsAssumption
<1>1. /\ order' = IF full THEN Tail(keys) ELSE keys
      /\ finalized' = [i \in Ids |-> IF full /\ i = Head(keys) THEN NotFound
                                     ELSE IF i = id THEN rec ELSE finalized[i]]
  BY Zenon DEF StoreFinalized
<1>2. /\ keys \in Seq(Ids)
      /\ Distinct(keys)
      /\ ToSet(keys) = {i \in Ids : finalized[i] # NotFound} \union {id}
      /\ MaxFinalized > 0 => Len(keys) <= MaxFinalized + 1
  <2>0. Len(order) \in Nat
    BY LenProperties DEF RecordsOK
  <2>1. CASE finalized[id] = NotFound
    <3>1. /\ keys \in Seq(Ids) /\ Len(keys) = Len(order) + 1
          /\ \A i \in 1..Len(order) : keys[i] = order[i]
          /\ keys[Len(order) + 1] = id
      BY <2>1, AppendProperties DEF RecordsOK
    <3>2. \A i \in 1..Len(order) : order[i] # id
      BY <2>1 DEF RecordsOK, ToSet
    <3> HIDE DEF keys
    <3>3. Distinct(keys)
      BY <3>1, <3>2, <2>0 DEF Distinct, RecordsOK
    <3>4. ToSet(keys) = ToSet(order) \union {id}
      <4>1. ASSUME NEW i \in 1..Len(keys) PROVE keys[i] \in ToSet(order) \union {id}
        BY <3>1, <2>0 DEF ToSet, RecordsOK
      <4>2. ASSUME NEW i \in 1..Len(order) PROVE order[i] \in ToSet(keys)
        BY <3>1, <2>0 DEF ToSet
      <4>3. id \in ToSet(keys)
        BY <3>1, <2>0 DEF ToSet
      <4> QED BY <4>1, <4>2, <4>3, <3>1 DEF ToSet, RecordsOK
    <3> QED BY <3>1, <3>3, <3>4, <2>0 DEF RecordsOK
  <2>2. CASE finalized[id] # NotFound
    BY <2>2, <2>0 DEF RecordsOK
  <2> QED BY <2>1, <2>2
<1> HIDE DEF keys
<1>3. finalized' \in [Ids -> Final \union {NotFound}]
  BY <1>1 DEF RecordsOK
<1>4. keys # <<>> /\ Len(keys) \in Nat
  BY <1>2, EmptySeq, LenProperties DEF ToSet
<1>5. /\ Head(keys) = keys[1] /\ Head(keys) \in Ids
      /\ Tail(keys) \in Seq(Ids) /\ Len(Tail(keys)) = Len(keys) - 1
      /\ \A i \in 1..Len(Tail(keys)) : Tail(keys)[i] = keys[i + 1]
  BY <1>2, <1>4, HeadTailProperties
<1>6. CASE full
  <2>1. /\ order' \in Seq(Ids)
        /\ Distinct(order')
        /\ Len(order') <= MaxFinalized
    BY <1>1, <1>2, <1>4, <1>5, <1>6 DEF Distinct
  <2>2. ToSet(order') = ToSet(keys) \ {Head(keys)}
    <3>1. ASSUME NEW i \in 1..Len(order')
          PROVE  order'[i] \in ToSet(keys) \ {Head(keys)}
      BY <1>1, <1>2, <1>4, <1>5, <1>6 DEF Distinct, ToSet
    <3>2. ASSUME NEW i \in 1..Len(keys), keys[i] # Head(keys)
          PROVE  keys[i] \in ToSet(order')
      <4>1. i - 1 \in 1..Len(order') /\ order'[i - 1] = keys[i]
        BY <1>1, <1>4, <1>5, <1>6, <3>2
      <4> QED BY <4>1, <2>1 DEF ToSet
    <3>3. DOMAIN keys = 1..Len(keys) /\ DOMAIN order' = 1..Len(order')
      BY <1>2, <2>1
    <3>4. \A x \in ToSet(order') : x \in ToSet(keys) \ {Head(keys)}
      BY <3>1, <3>3 DEF ToSet
    <3>5. \A x \in ToSet(keys) \ {Head(keys)} : x \in ToSet(order')
      BY <3>2, <3>3 DEF ToSet
    <3> QED BY <3>4, <3>5
  <2>3. ToSet(order') = {i \in Ids : finalized'[i] # NotFound}
    BY <2>2, <1>1, <1>2, <1>6, FinalIsFound
  <2> QED BY <2>1, <2>3, <1>1, <1>3 DEF RecordsOK, Distinct
<1>7. CASE ~full
  <2>1. order' = keys
    BY <1>1, <1>7
  <2>2. ToSet(order') = {i \in Ids : finalized'[i] # NotFound}
    BY <2>1, <1>1, <1>2, <1>7, FinalIsFound
  <2>3. MaxFinalized > 0 => Len(order') <= MaxFinalized
    BY <2>1, <1>4, <1>7
  <2> QED BY <2>1, <2>2, <2>3, <1>1, <1>2, <1>3 DEF RecordsOK, Distinct
<1> QED BY <1>6, <1>7

\* Dropping the record of an id keeps the others.
LEMMA DropKeepsRecords ==
  ASSUME RecordsOK, NEW id \in Ids, DropFinalized(id)
  PROVE  /\ RecordsOK'
         /\ finalized'[id] = NotFound
         /\ \A i \in Ids \ {id} : finalized'[i] = finalized[i]
<1>1. /\ RemoveFirst(order, id) \in Seq(Ids)
      /\ Len(RemoveFirst(order, id)) <= Len(order)
      /\ Distinct(RemoveFirst(order, id))
      /\ ToSet(RemoveFirst(order, id)) = ToSet(order) \ {id}
  BY RemoveFirstDistinct DEF RecordsOK
<1>2. order' = RemoveFirst(order, id) /\ finalized' = [finalized EXCEPT ![id] = NotFound]
  BY DEF DropFinalized
<1>3. /\ finalized' \in [Ids -> Final \union {NotFound}]
      /\ finalized'[id] = NotFound
      /\ \A i \in Ids \ {id} : finalized'[i] = finalized[i]
  BY <1>2 DEF RecordsOK
<1>4. Len(order) \in Nat /\ Len(order') \in Nat
  BY <1>1, <1>2, LenProperties DEF RecordsOK
<1>5. ToSet(order') = {i \in Ids : finalized'[i] # NotFound}
  BY <1>1, <1>2, <1>3 DEF RecordsOK
<1>6. MaxFinalized > 0 => Len(order') <= MaxFinalized
  BY <1>1, <1>2, <1>4, LimitsAssumption DEF RecordsOK
<1>7. Distinct(order')
  BY <1>1, <1>2 DEF Distinct
<1> QED BY <1>1, <1>2, <1>3, <1>5, <1>6, <1>7 DEF RecordsOK, Distinct

-----------------------------------------------------------------------------
(* The inductive invariant. *)

PendingBounded == MaxPending > 0 => Cardinality(PendingIds) <= MaxPending

Answered(t) ==
  [state    |-> "resolved",
   decision |-> Effective(t, answer[t].decision, answer[t].binding),
   payload  |-> answer[t].payload]
Expired(t) ==
  [state    |-> "timeout",
   decision |-> TimeoutAction,
   payload  |-> answer[t].payload]

\* Where what a handler sees comes from: between the accepted answer and the
\* moment its handler runs, the object and the record (unless evicted) carry
\* that answer; what the handler returned is its answer or its timeout.
Provenance(t) ==
  /\ t \notin event => answer[t] = NoAnswer
  /\ t \in event => answer[t].decision \in OperatorDecisions
  /\ pc[t] \in {"idle", "refused"} => t \notin event /\ t \notin timer
  /\ pc[t] # "returned" => result[t] = NoResult
  /\ obj[t].payload = answer[t].payload
  /\ Exclusive(t) /\ pc[t] = "waiting" /\ t \in event =>
       /\ obj[t] = Answered(t)
       /\ finalized[IdOf[t]] \in {NotFound, Answered(t)}
  /\ Exclusive(t) /\ pc[t] = "returned" =>
       \/ /\ t \in event
          /\ result[t].decision = Answered(t).decision
          /\ result[t].report \in {NotFound, Answered(t)}
       \/ /\ t \in timer
          /\ result[t].decision = TimeoutAction
          /\ result[t].report \in {NotFound, Expired(t)}

IInv ==
  /\ TypeOK
  /\ RecordsOK
  /\ PendingBounded
  /\ NoOrphans
  /\ \A t \in Tasks : Provenance(t)

\* The binding check yields a decision the table knows.
LEMMA EffectiveIsOutcome ==
  ASSUME NEW t \in Tasks, NEW d \in OperatorDecisions, NEW b
  PROVE  Effective(t, d, b) \in Outcomes
BY DEF Effective, Outcomes, OperatorDecisions

\* Emptying a slot keeps the others, so it keeps the bound.
LEMMA FreeSlotKeepsBound ==
  ASSUME pending \in [Ids -> Tasks \union {NoTask}], PendingBounded, NEW id \in Ids,
         pending' = [pending EXCEPT ![id] = NoTask]
  PROVE  PendingBounded'
<1>1. PendingIds' \subseteq PendingIds /\ PendingIds \subseteq Ids
  BY DEF PendingIds
<1>2. IsFiniteSet(PendingIds)
  BY <1>1, TasksAssumption, FS_Subset
<1>3. Cardinality(PendingIds') <= Cardinality(PendingIds) /\ IsFiniteSet(PendingIds')
  BY <1>1, <1>2, FS_Subset
<1> QED
  BY <1>2, <1>3, FS_CardinalityType, LimitsAssumption DEF PendingBounded

\* The empty table satisfies the invariant.
THEOREM InitIInv == Init => IInv
<1> SUFFICES ASSUME Init PROVE IInv
  OBVIOUS
<1> USE TasksAssumption, LimitsAssumption DEF Init
<1>1. TypeOK
  BY EmptySeq DEF TypeOK, Fresh, NotFound, NoResult, NoAnswer, Replacements
<1>2. RecordsOK
  <2>1. order \in Seq(Ids) /\ Len(order) = 0
    BY EmptySeq
  <2>2. ToSet(order) = {}
    BY <2>1 DEF ToSet
  <2> QED BY <2>1, <2>2 DEF RecordsOK, Distinct
<1>3. PendingIds = {}
  BY DEF PendingIds
<1>4. PendingBounded
  BY <1>3, FS_EmptySet DEF PendingBounded
<1>5. NoOrphans
  BY <1>3 DEF NoOrphans
<1>6. \A t \in Tasks : Provenance(t)
  BY DEF Provenance, Fresh, NoAnswer
<1> QED BY <1>1, <1>2, <1>4, <1>5, <1>6 DEF IInv

(* One lemma per action: it preserves the invariant. *)

LEMMA RegisterStep ==
  ASSUME IInv, NEW t \in Tasks, Register(t) PROVE IInv'
<1> DEFINE id == IdOf[t]
<1>0. id \in Ids /\ t # NoTask /\ pending[id] = NoTask
  BY TasksAssumption DEF Register, CanRegister
<1> USE DEF IInv
<1>1. RecordsOK' /\ finalized'[id] = NotFound
      /\ \A i \in Ids \ {id} : finalized'[i] = finalized[i]
  BY <1>0, DropKeepsRecords DEF Register
<1>2. TypeOK'
  BY <1>0, <1>1 DEF TypeOK, Register, RecordsOK
<1>3. PendingBounded'
  <2>1. PendingIds' = PendingIds \union {id} /\ PendingIds \subseteq Ids
    BY <1>0 DEF PendingIds, Register, TypeOK
  <2>2. IsFiniteSet(PendingIds)
    BY <2>1, TasksAssumption, FS_Subset
  <2>3. Cardinality(PendingIds) \in Nat
    BY <2>2, FS_CardinalityType
  <2>4. MaxPending > 0 => Cardinality(PendingIds) < MaxPending
    BY DEF Register, CanRegister
  <2>5. /\ Cardinality(PendingIds') \in Nat
        /\ Cardinality(PendingIds') <= Cardinality(PendingIds) + 1
    BY <2>1, <2>2, <2>3, FS_AddElement
  <2> QED BY <2>3, <2>4, <2>5, LimitsAssumption DEF PendingBounded
<1>4. t \notin event /\ \A u \in Tasks : pc[u] = "waiting" => u # t
  BY DEF Register, Provenance
<1>5. NoOrphans'
  <2> SUFFICES ASSUME NEW i \in Ids, pending'[i] # NoTask
               PROVE  /\ pc'[pending'[i]] = "waiting"
                      /\ IdOf[pending'[i]] = i
                      /\ pending'[i] \notin event'
                      /\ finalized'[i] = NotFound
    BY DEF NoOrphans, PendingIds
  <2>1. CASE i = id
    BY <2>1, <1>0, <1>1, <1>4 DEF Register, TypeOK
  <2>2. CASE i # id
    <3>1. pending'[i] = pending[i] /\ pending[i] \in Tasks /\ i \in PendingIds
      BY <2>2 DEF Register, TypeOK, PendingIds
    <3>2. pc[pending[i]] = "waiting" /\ IdOf[pending[i]] = i
          /\ pending[i] \notin event /\ finalized[i] = NotFound
      BY <3>1 DEF NoOrphans
    <3> QED BY <3>1, <3>2, <2>2, <1>1, <1>4 DEF Register, TypeOK
  <2> QED BY <2>1, <2>2
<1>6. ASSUME NEW u \in Tasks PROVE Provenance(u)'
  <2>1. CASE u = t
    BY <2>1, <1>4 DEF Provenance, Register, TypeOK
  <2>2. CASE u # t
    <3>1. Exclusive(u) => IdOf[u] \in Ids \ {id}
      BY <2>2, TasksAssumption DEF Exclusive
    <3>2. Exclusive(u) => finalized'[IdOf[u]] = finalized[IdOf[u]]
      BY <3>1, <1>1
    <3>3. Provenance(u) /\ pc'[u] = pc[u] /\ UNCHANGED <<obj, event, timer, result, answer>>
      BY <2>2 DEF Register, TypeOK
    <3> QED BY <3>2, <3>3 DEF Provenance, Answered, Expired
  <2> QED BY <2>1, <2>2
<1> QED BY <1>1, <1>2, <1>3, <1>5, <1>6

LEMMA ResolveStep ==
  ASSUME IInv, NEW id \in Ids, NEW d \in OperatorDecisions,
         NEW b \in Bindings \union {NoBinding}, NEW p \in Replacements,
         Resolve(id, d, b, p)
  PROVE  /\ IInv'
         /\ \A t \in Tasks : answer[t] # NoAnswer => answer'[t] = answer[t]
<1> USE DEF IInv
<1>0. PICK t \in Tasks : /\ t = pending[id] /\ t # NoTask
                        /\ pc[t] = "waiting" /\ IdOf[t] = id /\ t \notin event
  <2>1. pending[id] # NoTask /\ id \in PendingIds
    BY DEF Resolve, PendingIds
  <2>2. pending[id] \in Tasks
    BY <2>1 DEF TypeOK
  <2>3. /\ pc[pending[id]] = "waiting" /\ IdOf[pending[id]] = id
        /\ pending[id] \notin event
    BY <2>1 DEF NoOrphans
  <2> QED BY <2>1, <2>2, <2>3
<1>a. PICK rec : rec = [state |-> "resolved", decision |-> Effective(t, d, b),
                      payload |-> p]
  OBVIOUS
<1>1. rec \in Final
  BY <1>a, EffectiveIsOutcome DEF Final
<1>2. /\ pending' = [pending EXCEPT ![id] = NoTask]
      /\ obj' = [obj EXCEPT ![t] = rec]
      /\ StoreFinalized(id, rec)
      /\ event' = event \union {t}
      /\ answer' = [answer EXCEPT ![t] =
                      [decision |-> d, binding |-> b, payload |-> p]]
      /\ UNCHANGED <<timer, pc, result>>
  BY <1>0, <1>a DEF Resolve
<1>3. RecordsOK' /\ finalized'[id] \in {rec, NotFound}
      /\ \A i \in Ids \ {id} : finalized'[i] \in {finalized[i], NotFound}
  BY <1>1, <1>2, StoreKeepsRecords
<1>4. TypeOK'
  <2>1. pending' \in [Ids -> Tasks \union {NoTask}]
    BY <1>2 DEF TypeOK
  <2>2. obj' \in [Tasks -> Final \union {Fresh}]
    BY <1>1, <1>2 DEF TypeOK
  <2>3. answer' \in [Tasks -> [decision : OperatorDecisions \union {""},
                              binding : Bindings \union {NoBinding},
                              payload : Replacements]]
    BY <1>2 DEF TypeOK
  <2>4. event' \subseteq Tasks
    BY <1>2 DEF TypeOK
  <2> QED BY <2>1, <2>2, <2>3, <2>4, <1>2, <1>3 DEF TypeOK, RecordsOK
<1>5. PendingBounded'
  BY <1>2, FreeSlotKeepsBound DEF TypeOK
<1>6. NoOrphans'
  <2> SUFFICES ASSUME NEW i \in Ids, pending'[i] # NoTask
               PROVE  /\ pc'[pending'[i]] = "waiting"
                      /\ IdOf[pending'[i]] = i
                      /\ pending'[i] \notin event'
                      /\ finalized'[i] = NotFound
    BY DEF NoOrphans, PendingIds
  <2>1. i # id /\ pending'[i] = pending[i] /\ i \in PendingIds
    BY <1>2 DEF TypeOK, PendingIds
  <2>2. pc[pending[i]] = "waiting" /\ IdOf[pending[i]] = i
        /\ pending[i] \notin event /\ finalized[i] = NotFound
    BY <2>1 DEF NoOrphans
  <2> QED BY <2>1, <2>2, <1>0, <1>2, <1>3
<1>7. ASSUME NEW u \in Tasks PROVE Provenance(u)'
  <2>1. CASE u = t
    <3>1. answer'[t] = [decision |-> d, binding |-> b, payload |-> p] /\ Answered(t)' = rec
          /\ obj'[t] = rec /\ t \in event'
      BY <1>0, <1>a, <1>2 DEF Answered, TypeOK
    <3>2. finalized'[IdOf[t]] \in {NotFound, rec}
      BY <1>0, <1>3
    <3>3. Provenance(t) /\ pc'[t] = "waiting" /\ result'[t] = result[t]
      BY <1>0, <1>2
    <3>4. obj'[t].payload = answer'[t].payload
      BY <3>1, <1>a
    <3> QED BY <2>1, <3>1, <3>2, <3>3, <3>4, <1>0 DEF Provenance
  <2>2. CASE u # t
    <3>1. Exclusive(u) => IdOf[u] \in Ids \ {id}
      BY <2>2, <1>0, TasksAssumption DEF Exclusive
    <3>2. Exclusive(u) => finalized'[IdOf[u]] \in {finalized[IdOf[u]], NotFound}
      BY <3>1, <1>3
    <3>3. Provenance(u) /\ answer'[u] = answer[u] /\ obj'[u] = obj[u]
          /\ (u \in event' <=> u \in event) /\ UNCHANGED <<timer, pc, result>>
      BY <2>2, <1>0, <1>2 DEF TypeOK
    <3>4. Answered(u)' = Answered(u) /\ Expired(u)' = Expired(u)
      BY <3>3 DEF Answered, Expired
    <3> QED BY <3>2, <3>3, <3>4 DEF Provenance
  <2> QED BY <2>1, <2>2
<1>8. ASSUME NEW u \in Tasks, answer[u] # NoAnswer PROVE answer'[u] = answer[u]
  BY <1>0, <1>2, <1>8 DEF Provenance, TypeOK
<1> QED BY <1>3, <1>4, <1>5, <1>6, <1>7, <1>8

\* What the three ways out of a wait have in common: the slot of the id is
\* free, the handler is done, and other ids lose at most their record.
LEMMA LeavingStep ==
  ASSUME IInv, TypeOK', RecordsOK', NEW t \in Tasks, pc[t] = "waiting",
         pending' = [pending EXCEPT ![IdOf[t]] = NoTask],
         \A u \in Tasks \ {t} : /\ pc'[u] = pc[u] /\ obj'[u] = obj[u]
                               /\ result'[u] = result[u],
         UNCHANGED <<event, timer, answer>>,
         \A i \in Ids \ {IdOf[t]} : finalized'[i] \in {finalized[i], NotFound},
         Provenance(t)'
  PROVE  IInv'
<1> USE DEF IInv
<1>0. IdOf[t] \in Ids
  BY TasksAssumption
<1>1. PendingBounded'
  BY <1>0, FreeSlotKeepsBound DEF TypeOK
<1>2. NoOrphans'
  <2> SUFFICES ASSUME NEW i \in Ids, pending'[i] # NoTask
               PROVE  /\ pc'[pending'[i]] = "waiting"
                      /\ IdOf[pending'[i]] = i
                      /\ pending'[i] \notin event'
                      /\ finalized'[i] = NotFound
    BY DEF NoOrphans, PendingIds
  <2>1. i # IdOf[t] /\ pending'[i] = pending[i] /\ i \in PendingIds
    BY DEF TypeOK, PendingIds
  <2>2. /\ pc[pending[i]] = "waiting" /\ IdOf[pending[i]] = i
        /\ pending[i] \notin event /\ finalized[i] = NotFound
    BY <2>1 DEF NoOrphans
  <2>3. pending[i] \in Tasks \ {t}
    BY <2>1, <2>2 DEF TypeOK, PendingIds
  <2> QED BY <2>1, <2>2, <2>3
<1>3. ASSUME NEW u \in Tasks PROVE Provenance(u)'
  <2>1. CASE u = t
    BY <2>1
  <2>2. CASE u # t
    <3>1. Exclusive(u) => finalized'[IdOf[u]] \in {finalized[IdOf[u]], NotFound}
      BY <2>2, TasksAssumption DEF Exclusive
    <3>2. Provenance(u) /\ pc'[u] = pc[u] /\ obj'[u] = obj[u] /\ result'[u] = result[u]
      BY <2>2
    <3> QED BY <3>1, <3>2 DEF Provenance, Answered, Expired
  <2> QED BY <2>1, <2>2
<1> QED BY <1>1, <1>2, <1>3

LEMMA WakeResolvedStep ==
  ASSUME IInv, NEW t \in Tasks, WakeResolved(t) PROVE IInv'
<1> USE DEF IInv
<1>0. IdOf[t] \in Ids /\ pc[t] = "waiting" /\ t \in event
  BY TasksAssumption DEF WakeResolved
<1>1. PICK d : /\ d = IF finalized[IdOf[t]].state = "resolved"
                      THEN finalized[IdOf[t]].decision ELSE obj[t].decision
               /\ pending' = [pending EXCEPT ![IdOf[t]] = NoTask]
               /\ pc' = [pc EXCEPT ![t] = "returned"]
               /\ result' = [result EXCEPT ![t] =
                    [decision |-> d, report |-> finalized[IdOf[t]]]]
               /\ UNCHANGED <<finalized, order, obj, event, timer, answer>>
  BY DEF WakeResolved, Leave
<1>2. finalized[IdOf[t]] \in Final \union {NotFound} /\ obj[t] \in Final \union {Fresh}
  BY <1>0 DEF TypeOK
<1>3. d \in Outcomes \union {""}
  <2>1. \A r \in Final : r.decision \in Outcomes
    BY DEF Final
  <2>2. NotFound.decision = "" /\ Fresh.decision = ""
    BY DEF NotFound, Fresh
  <2> QED BY <2>1, <2>2, <1>1, <1>2
<1>4. TypeOK'
  <2>1. result' \in [Tasks -> [decision : Outcomes \union {""},
                             report : Final \union {NotFound}]]
    BY <1>1, <1>2, <1>3 DEF TypeOK
  <2>2. /\ pending' \in [Ids -> Tasks \union {NoTask}]
        /\ pc' \in [Tasks -> {"idle", "refused", "waiting", "returned", "cancelled"}]
    BY <1>1 DEF TypeOK
  <2> QED BY <2>1, <2>2, <1>1 DEF TypeOK
<1>5. RecordsOK'
  BY <1>1 DEF RecordsOK, Distinct, ToSet
<1>6. Provenance(t)'
  <2>1. /\ pc'[t] = "returned" /\ t \in event'
        /\ result'[t] = [decision |-> d, report |-> finalized[IdOf[t]]]
    BY <1>0, <1>1 DEF TypeOK
  <2>2. Exclusive(t) => /\ d = Answered(t).decision
                        /\ finalized[IdOf[t]] \in {NotFound, Answered(t)}
    <3>1. Answered(t).state = "resolved" /\ NotFound.state # "resolved"
      BY DEF Answered, NotFound
    <3>2. Exclusive(t) => /\ obj[t] = Answered(t)
                          /\ finalized[IdOf[t]] \in {NotFound, Answered(t)}
      BY <1>0 DEF Provenance
    <3> QED BY <3>1, <3>2, <1>1
  <2>3. answer[t].decision \in OperatorDecisions
    BY <1>0 DEF Provenance
  <2> QED BY <2>1, <2>2, <2>3, <1>1 DEF Provenance, Answered
<1> QED
  <2>1. \A u \in Tasks \ {t} : pc'[u] = pc[u] /\ obj'[u] = obj[u] /\ result'[u] = result[u]
    BY <1>1 DEF TypeOK
  <2> QED BY <2>1, <1>0, <1>1, <1>4, <1>5, <1>6, LeavingStep

LEMMA WakeTimeoutStep ==
  ASSUME IInv, NEW t \in Tasks, WakeTimeout(t) PROVE IInv'
<1> USE DEF IInv
<1>0. IdOf[t] \in Ids /\ pc[t] = "waiting" /\ t \in timer
  BY TasksAssumption DEF WakeTimeout
<1>1. PICK rec :
      /\ rec = [obj[t] EXCEPT !.state = "timeout", !.decision = TimeoutAction]
      /\ obj' = [obj EXCEPT ![t] = rec]
      /\ StoreFinalized(IdOf[t], rec)
      /\ pending' = [pending EXCEPT ![IdOf[t]] = NoTask]
      /\ pc' = [pc EXCEPT ![t] = "returned"]
      /\ result' = [result EXCEPT ![t] =
           [decision |-> TimeoutAction, report |-> finalized'[IdOf[t]]]]
      /\ UNCHANGED <<event, timer, answer>>
  BY DEF WakeTimeout, Leave
<1>a. rec = Expired(t)
  <2>1. obj[t] \in [state : {"resolved", "timeout", "pending"},
                    decision : Outcomes \union {""}, payload : Replacements]
    <3>1. Fresh \in [state : {"resolved", "timeout", "pending"},
                    decision : Outcomes \union {""}, payload : Replacements]
      BY DEF Fresh, Replacements
    <3>2. obj[t] \in Final \union {Fresh}
      BY DEF TypeOK
    <3> QED BY <3>1, <3>2 DEF Final
  <2>2. obj[t].payload = answer[t].payload
    BY DEF Provenance
  <2> QED BY <2>1, <2>2, <1>1 DEF Expired
<1>2. rec \in Final /\ TimeoutAction \in Outcomes
  <2>1. answer[t].payload \in Replacements
    BY DEF TypeOK
  <2> QED BY <2>1, <1>a, LimitsAssumption DEF Expired, Final, Outcomes
<1>3. /\ RecordsOK'
      /\ finalized'[IdOf[t]] \in {rec, NotFound}
      /\ \A i \in Ids \ {IdOf[t]} : finalized'[i] \in {finalized[i], NotFound}
  BY <1>0, <1>1, <1>2, StoreKeepsRecords
<1>4. TypeOK'
  <2>1. result' \in [Tasks -> [decision : Outcomes \union {""},
                             report : Final \union {NotFound}]]
    BY <1>1, <1>2, <1>3 DEF TypeOK
  <2>2. obj' \in [Tasks -> Final \union {Fresh}]
    BY <1>1, <1>2 DEF TypeOK
  <2>3. /\ pending' \in [Ids -> Tasks \union {NoTask}]
        /\ pc' \in [Tasks -> {"idle", "refused", "waiting", "returned", "cancelled"}]
    BY <1>1 DEF TypeOK
  <2> QED BY <2>1, <2>2, <2>3, <1>1, <1>3 DEF TypeOK, RecordsOK
<1>5. Provenance(t)'
  <2>1. /\ pc'[t] = "returned" /\ t \in timer'
        /\ result'[t] = [decision |-> TimeoutAction, report |-> finalized'[IdOf[t]]]
    BY <1>0, <1>1 DEF TypeOK
  <2>2. Provenance(t) /\ Expired(t)' = Expired(t)
    BY <1>1 DEF Expired
  <2> QED BY <2>1, <2>2, <1>a, <1>1, <1>3 DEF Provenance
<1> QED
  <2>1. \A u \in Tasks \ {t} : pc'[u] = pc[u] /\ obj'[u] = obj[u] /\ result'[u] = result[u]
    BY <1>1 DEF TypeOK
  <2> QED BY <2>1, <1>0, <1>1, <1>3, <1>4, <1>5, LeavingStep

LEMMA CancelStep ==
  ASSUME IInv, NEW t \in Tasks, Cancel(t) PROVE IInv'
<1> USE DEF IInv
<1>1. IdOf[t] \in Ids
  BY TasksAssumption
<1>2. TypeOK'
  BY <1>1 DEF TypeOK, Cancel
<1>3. RecordsOK'
  BY DEF RecordsOK, Distinct, ToSet, Cancel
<1>4. Provenance(t)'
  BY DEF Provenance, Cancel, TypeOK
<1>5. \A u \in Tasks \ {t} : pc'[u] = pc[u] /\ obj'[u] = obj[u] /\ result'[u] = result[u]
  BY DEF TypeOK, Cancel
<1> QED
  BY <1>1, <1>2, <1>3, <1>4, <1>5, LeavingStep DEF Cancel

LEMMA RefuseStep ==
  ASSUME IInv, NEW t \in Tasks, Refuse(t) PROVE IInv'
<1> USE DEF IInv, Refuse
<1>1. TypeOK'
  BY DEF TypeOK
<1>2. RecordsOK' /\ PendingBounded'
  BY DEF RecordsOK, Distinct, ToSet, PendingBounded, PendingIds
<1>3. NoOrphans'
  <2> SUFFICES ASSUME NEW i \in Ids, pending[i] # NoTask
               PROVE  /\ pc'[pending[i]] = "waiting"
                      /\ IdOf[pending[i]] = i
                      /\ pending[i] \notin event
                      /\ finalized[i] = NotFound
    BY DEF NoOrphans, PendingIds
  <2>1. /\ pc[pending[i]] = "waiting" /\ IdOf[pending[i]] = i
        /\ pending[i] \notin event /\ finalized[i] = NotFound
    BY DEF NoOrphans, PendingIds
  <2>2. pending[i] \in Tasks \ {t}
    BY <2>1 DEF TypeOK
  <2> QED BY <2>1, <2>2 DEF TypeOK
<1>4. ASSUME NEW u \in Tasks PROVE Provenance(u)'
  BY DEF Provenance, Answered, Expired, TypeOK
<1> QED BY <1>1, <1>2, <1>3, <1>4

LEMMA TimerFiresStep ==
  ASSUME IInv, NEW t \in Tasks, TimerFires(t) PROVE IInv'
<1> USE DEF IInv, TimerFires
<1>1. TypeOK'
  BY DEF TypeOK
<1>2. RecordsOK' /\ PendingBounded'
  BY DEF RecordsOK, Distinct, ToSet, PendingBounded, PendingIds
<1>3. NoOrphans'
  BY DEF NoOrphans, PendingIds
<1>4. ASSUME NEW u \in Tasks PROVE Provenance(u)'
  BY DEF Provenance, Answered, Expired
<1> QED BY <1>1, <1>2, <1>3, <1>4

LEMMA StutterStep == ASSUME IInv, UNCHANGED vars PROVE IInv'
<1> USE DEF IInv, vars
<1>1. TypeOK' /\ RecordsOK' /\ PendingBounded'
  <2>1. TypeOK'
    BY DEF TypeOK
  <2>2. RecordsOK'
    BY DEF RecordsOK, Distinct, ToSet
  <2>3. PendingBounded'
    BY DEF PendingBounded, PendingIds
  <2> QED BY <2>1, <2>2, <2>3
<1>2. NoOrphans'
  BY DEF NoOrphans, PendingIds
<1>3. ASSUME NEW u \in Tasks PROVE Provenance(u)'
  BY DEF Provenance, Answered, Expired
<1> QED BY <1>1, <1>2, <1>3

\* IInv is inductive.
THEOREM NextIInv == IInv /\ [Next]_vars => IInv'
<1> SUFFICES ASSUME IInv, [Next]_vars PROVE IInv'
  OBVIOUS
<1>1. CASE Operator
  BY <1>1, ResolveStep DEF Operator
<1>2. ASSUME NEW t \in Tasks, Handler(t) PROVE IInv'
  BY <1>2, RegisterStep, RefuseStep, TimerFiresStep, WakeResolvedStep,
     WakeTimeoutStep, CancelStep DEF Handler
<1>3. CASE Served \/ UNCHANGED vars
  BY <1>3, StutterStep DEF Served
<1> QED BY <1>1, <1>2, <1>3 DEF Next

\* The invariant holds throughout.
THEOREM InductiveInvariant == Spec => []IInv
BY InitIInv, NextIInv, PTL DEF Spec

-----------------------------------------------------------------------------
(* The properties. *)

\* Every reachable state of the approval table is well typed.
THEOREM TypeInvariant == Spec => []TypeOK
<1>1. IInv => TypeOK
  BY DEF IInv
<1> QED BY <1>1, InductiveInvariant, PTL

\* For every capacity, neither table outgrows it, and the eviction order names
\* exactly the finalized records, each once.
THEOREM TablesStayBounded == Spec => []TablesBounded
<1>1. IInv => TablesBounded
  BY DEF IInv, RecordsOK, PendingBounded, Distinct, TablesBounded
<1> QED BY <1>1, InductiveInvariant, PTL

\* However ids are reused and handlers cancelled, every occupied slot belongs
\* to a handler that still waits: capacity never leaks.
THEOREM NoLeakedSlot == Spec => []NoOrphans
<1>1. IInv => NoOrphans
  BY DEF IInv
<1> QED BY <1>1, InductiveInvariant, PTL

\* An operator who allows without drift fits the effect asked about.
LEMMA AllowedFits ==
  ASSUME NEW t \in Tasks, NEW d \in OperatorDecisions,
         NEW b \in Bindings \union {NoBinding}, Effective(t, d, b) \in Allowing
  PROVE  d \in Allowing /\ Fits(t, b)
<1>1. "block" \notin Allowing
  BY DEF Allowing
<1>2. d \in Allowing /\ BindingDrift(BindingOf[t], b) = {}
  BY <1>1 DEF Effective
<1> QED BY <1>2 DEF BindingDrift, Fits

\* A handler with an id of its own is told to go ahead only by an operator who
\* allowed exactly its effect, or by a timeout configured to allow.
THEOREM AllowNeedsAuthority == Spec => []AllowHasAuthority
<1>1. IInv => AllowHasAuthority
  <2> SUFFICES ASSUME IInv, NEW t \in Tasks, Exclusive(t),
                      result[t].decision \in Allowing
               PROVE  \/ t \in timer /\ TimeoutAction \in Allowing
                      \/ answer[t].decision \in Allowing /\ Fits(t, answer[t].binding)
    BY DEF AllowHasAuthority
  <2>1. Provenance(t) /\ TypeOK
    BY DEF IInv
  <2>2. pc[t] = "returned"
    <3>1. NoResult.decision \notin Allowing
      BY DEF NoResult, Allowing
    <3> QED BY <2>1, <3>1 DEF Provenance
  <2>3. CASE t \in timer /\ result[t].decision = TimeoutAction
    BY <2>3
  <2>4. CASE t \in event /\ result[t].decision = Answered(t).decision
    <3>1. /\ answer[t].decision \in OperatorDecisions
          /\ answer[t].binding \in Bindings \union {NoBinding}
      BY <2>1, <2>4 DEF Provenance, TypeOK
    <3>2. Effective(t, answer[t].decision, answer[t].binding) \in Allowing
      BY <2>4 DEF Answered
    <3> QED BY <3>1, <3>2, AllowedFits
  <2> QED BY <2>1, <2>2, <2>3, <2>4 DEF Provenance
<1> QED BY <1>1, InductiveInvariant, PTL

\* An accepted answer the timer did not overtake is the one the handler gets,
\* for any traffic on the table and any eviction of its record.
THEOREM AcceptedAnswerStands == Spec => []AnswerStands
<1>1. IInv => AnswerStands
  <2> SUFFICES ASSUME IInv, NEW t \in Tasks, Exclusive(t), pc[t] = "returned",
                      t \notin timer
               PROVE  /\ answer[t] # NoAnswer
                      /\ result[t].decision =
                           Effective(t, answer[t].decision, answer[t].binding)
    BY DEF AnswerStands
  <2>1. t \in event /\ result[t].decision = Answered(t).decision
    BY DEF IInv, Provenance
  <2>2. answer[t].decision \in OperatorDecisions
    BY <2>1 DEF IInv, Provenance
  <2>3. answer[t] # NoAnswer
    <3>1. NoAnswer.decision = "" /\ answer[t].decision # ""
      BY <2>2 DEF NoAnswer, OperatorDecisions
    <3> QED BY <3>1
  <2> QED BY <2>1, <2>3 DEF Answered
<1> QED BY <1>1, InductiveInvariant, PTL

\* The record read after the wait agrees with what the wait returned.
THEOREM ReportsAgree == Spec => []ReportAgrees
<1>1. IInv => ReportAgrees
  <2> SUFFICES ASSUME IInv, NEW t \in Tasks, Exclusive(t), pc[t] = "returned",
                      result[t].report # NotFound
               PROVE  /\ result[t].report.decision = result[t].decision
                      /\ result[t].report.state = "timeout" => t \in timer
                      /\ result[t].report.state = "resolved" =>
                           /\ t \in event
                           /\ result[t].report.payload = answer[t].payload
    BY DEF ReportAgrees
  <2>1. \/ /\ t \in event
           /\ result[t].decision = Answered(t).decision
           /\ result[t].report = Answered(t)
        \/ /\ t \in timer
           /\ result[t].decision = TimeoutAction
           /\ result[t].report = Expired(t)
    BY DEF IInv, Provenance
  <2> QED BY <2>1 DEF Answered, Expired
<1> QED BY <1>1, InductiveInvariant, PTL

\* At most one operator is told "ok" for one wait.
THEOREM AtMostOneAnswer == Spec => OneAnswer
<1>1. IInv /\ [Next]_vars =>
        [\A t \in Tasks : answer[t] # NoAnswer => answer'[t] = answer[t]]_vars
  <2> SUFFICES ASSUME IInv, Next
               PROVE  \A t \in Tasks : answer[t] # NoAnswer => answer'[t] = answer[t]
    OBVIOUS
  <2>1. CASE Operator
    BY <2>1, ResolveStep DEF Operator
  <2>2. CASE UNCHANGED answer
    BY <2>2
  <2>3. ASSUME NEW t \in Tasks, Handler(t) PROVE UNCHANGED answer
    BY <2>3 DEF Handler, Register, Refuse, TimerFires, WakeResolved, WakeTimeout,
                Cancel, Leave
  <2> QED BY <2>1, <2>2, <2>3 DEF Next, Served, vars
<1> QED BY <1>1, InductiveInvariant, PTL DEF OneAnswer, Spec

-----------------------------------------------------------------------------
(* The table implements the contract of the approval bridge. *)

LEMMA Phases ==
  /\ PhaseOf("idle") = "new" /\ PhaseOf("refused") = "refused"
  /\ PhaseOf("waiting") = "open" /\ PhaseOf("returned") = "closed"
  /\ PhaseOf("cancelled") = "dropped"
BY DEF PhaseOf

LEMMA InitContract == Init => Contract!Init
<1> SUFFICES ASSUME Init PROVE Contract!Init
  OBVIOUS
<1>1. ContractPhase = [t \in Own |-> "new"]
  BY Phases DEF Init, ContractPhase, Own
<1>2. ContractSaid = [t \in Own |-> "none"]
  BY DEF Init, ContractSaid, Own
<1>3. ContractVerdict = [t \in Own |-> "none"]
  BY DEF Init, ContractVerdict, Own
<1> QED BY <1>1, <1>2, <1>3 DEF Contract!Init, Init

\* The abstract phase moves with the pc of the handler that moves.
LEMMA PhaseStep ==
  ASSUME TypeOK, NEW t \in Own, NEW q, pc' = [pc EXCEPT ![t] = q]
  PROVE  /\ ContractPhase[t] = PhaseOf(pc[t])
         /\ ContractPhase' = [ContractPhase EXCEPT ![t] = PhaseOf(q)]
<1>1. pc'[t] = q /\ \A u \in Own \ {t} : pc'[u] = pc[u]
  BY DEF TypeOK, Own
<1>2. ContractPhase'[t] = PhaseOf(q)
  BY <1>1 DEF ContractPhase, PhaseOf
<1>3. \A u \in Own \ {t} : ContractPhase'[u] = ContractPhase[u]
  BY <1>1 DEF ContractPhase, PhaseOf
<1> QED BY <1>2, <1>3 DEF ContractPhase

LEMMA SaidStays ==
  ASSUME UNCHANGED <<event, answer>> PROVE UNCHANGED ContractSaid
BY DEF ContractSaid

LEMMA VerdictStays ==
  ASSUME TypeOK, NEW t \in Own, pc[t] # "returned", UNCHANGED result,
         NEW q, q # "returned", pc' = [pc EXCEPT ![t] = q]
  PROVE  UNCHANGED ContractVerdict
BY DEF ContractVerdict, TypeOK, Own

\* The contract sees nothing of a handler that shares its id.
LEMMA OthersUnseen ==
  ASSUME NEW t \in Tasks, t \notin Own,
         \A u \in Tasks \ {t} :
           /\ pc'[u] = pc[u] /\ result'[u] = result[u] /\ answer'[u] = answer[u]
           /\ u \in event' <=> u \in event
           /\ u \in timer' <=> u \in timer
  PROVE  UNCHANGED Contract!cvars
<1>1. Own \subseteq Tasks \ {t}
  BY DEF Own
<1>2. \A u \in Own : /\ PhaseOf(pc'[u]) = PhaseOf(pc[u])
                     /\ Effective(u, answer'[u].decision, answer'[u].binding)
                          = Effective(u, answer[u].decision, answer[u].binding)
  BY <1>1
<1>3. UNCHANGED ContractPhase
  BY <1>2 DEF ContractPhase
<1>4. UNCHANGED ContractSaid
  BY <1>1, <1>2 DEF ContractSaid
<1>5. UNCHANGED ContractVerdict
  BY <1>1 DEF ContractVerdict
<1>6. UNCHANGED (timer \intersect Own)
  BY <1>1
<1> QED  BY <1>3, <1>4, <1>5, <1>6 DEF Contract!cvars

LEMMA HandlerUnseen ==
  ASSUME TypeOK, NEW t \in Tasks, t \notin Own, Handler(t)
  PROVE  UNCHANGED Contract!cvars
<1> USE DEF TypeOK
<1>1. \A u \in Tasks \ {t} :
        /\ pc'[u] = pc[u] /\ result'[u] = result[u] /\ answer'[u] = answer[u]
        /\ u \in event' <=> u \in event
        /\ u \in timer' <=> u \in timer
  <2>1. CASE Register(t)
    BY <2>1 DEF Register
  <2>2. CASE Refuse(t)
    BY <2>2 DEF Refuse
  <2>3. CASE TimerFires(t)
    BY <2>3 DEF TimerFires
  <2>4. CASE WakeResolved(t) \/ WakeTimeout(t)
    BY <2>4 DEF WakeResolved, WakeTimeout, Leave
  <2>5. CASE Cancel(t)
    BY <2>5 DEF Cancel
  <2> QED  BY <2>1, <2>2, <2>3, <2>4, <2>5 DEF Handler
<1> QED  BY <1>1, OthersUnseen

LEMMA StepContract ==
  ASSUME IInv, IInv', [Next]_vars
  PROVE  [Contract!Next]_(Contract!cvars)
<1> USE DEF IInv
<1>0. Own \subseteq Tasks /\ \A t \in Own : Exclusive(t)
  BY DEF Own
<1>1. ASSUME NEW t \in Own, Register(t) PROVE Contract!Open(t)
  <2>1. ContractPhase[t] = "new" /\ ContractPhase' = [ContractPhase EXCEPT ![t] = "open"]
    BY <1>1, PhaseStep, Phases DEF Register
  <2>2. UNCHANGED <<ContractSaid, ContractVerdict, timer>>
    BY <1>1, SaidStays, VerdictStays DEF Register
  <2> QED BY <2>1, <2>2 DEF Contract!Open
<1>2. ASSUME NEW t \in Own, Refuse(t) PROVE Contract!TurnAway(t)
  <2>1. ContractPhase[t] = "new" /\ ContractPhase' = [ContractPhase EXCEPT ![t] = "refused"]
    BY <1>2, PhaseStep, Phases DEF Refuse
  <2>2. UNCHANGED <<ContractSaid, ContractVerdict, timer>>
    BY <1>2, SaidStays, VerdictStays DEF Refuse
  <2> QED BY <2>1, <2>2 DEF Contract!TurnAway
<1>3. ASSUME NEW t \in Own, Cancel(t) PROVE Contract!Drop(t)
  <2>1. ContractPhase[t] = "open" /\ ContractPhase' = [ContractPhase EXCEPT ![t] = "dropped"]
    BY <1>3, PhaseStep, Phases DEF Cancel
  <2>2. UNCHANGED <<ContractSaid, ContractVerdict, timer>>
    BY <1>3, SaidStays, VerdictStays DEF Cancel
  <2> QED BY <2>1, <2>2 DEF Contract!Drop
<1>4. ASSUME NEW t \in Own, TimerFires(t) PROVE Contract!Expire(t)
  <2>1. ContractPhase[t] = "open" /\ UNCHANGED ContractPhase
    BY <1>4, Phases DEF TimerFires, ContractPhase
  <2>2. UNCHANGED <<ContractSaid, ContractVerdict>>
    BY <1>4 DEF TimerFires, ContractSaid, ContractVerdict
  <2>3. /\ t \notin timer \intersect Own
        /\ (timer \intersect Own)' = (timer \intersect Own) \union {t}
    BY <1>4 DEF TimerFires
  <2> QED BY <2>1, <2>2, <2>3 DEF Contract!Expire
<1>5. ASSUME NEW t \in Own, WakeResolved(t) \/ WakeTimeout(t)
      PROVE  Contract!Close(t)
  <2>1. /\ pc[t] = "waiting" /\ pc' = [pc EXCEPT ![t] = "returned"]
        /\ UNCHANGED <<event, timer, answer>>
        /\ \A u \in Tasks \ {t} : result'[u] = result[u]
    BY <1>0, <1>5 DEF WakeResolved, WakeTimeout, Leave, TypeOK
  <2>2. ContractPhase[t] = "open" /\ ContractPhase' = [ContractPhase EXCEPT ![t] = "closed"]
    BY <2>1, PhaseStep, Phases
  <2>3. UNCHANGED ContractSaid
    BY <2>1, SaidStays
  <2>4. ContractVerdict' = [ContractVerdict EXCEPT ![t] = result'[t].decision]
    BY <1>0, <2>1 DEF ContractVerdict, TypeOK
  <2>5. \/ t \in event /\ result'[t].decision = Answered(t).decision
        \/ t \in timer /\ result'[t].decision = TimeoutAction
    <3>1. Provenance(t)' /\ Exclusive(t) /\ pc'[t] = "returned"
      BY <1>0, <2>1 DEF TypeOK
    <3>2. Answered(t)' = Answered(t)
      BY <2>1 DEF Answered
    <3> QED BY <3>1, <3>2, <2>1 DEF Provenance, Exclusive
  <2>6. CASE t \in event /\ result'[t].decision = Answered(t).decision
    <3>1. ContractSaid[t] = Answered(t).decision
      BY <2>6 DEF ContractSaid, Answered
    <3>2. ContractSaid[t] # "none"
      <4>1. answer[t].decision \in OperatorDecisions
        BY <1>0, <2>6 DEF Provenance
      <4>2. Answered(t).decision \in Outcomes
        BY <1>0, <4>1, EffectiveIsOutcome DEF Answered
      <4> QED BY <3>1, <4>2 DEF Outcomes, OperatorDecisions
    <3> QED BY <2>1, <2>2, <2>3, <2>4, <2>6, <3>1, <3>2 DEF Contract!Close
  <2>7. CASE t \in timer /\ result'[t].decision = TimeoutAction
    <3>1. t \in timer \intersect Own /\ UNCHANGED (timer \intersect Own)
      BY <2>1, <2>7
    <3> QED BY <2>2, <2>3, <2>4, <2>7, <3>1 DEF Contract!Close
  <2> QED BY <2>5, <2>6, <2>7
<1>6. ASSUME NEW id \in Ids, NEW d \in OperatorDecisions,
             NEW b \in Bindings \union {NoBinding}, NEW p \in Replacements,
             Resolve(id, d, b, p)
      PROVE  \/ \E t \in Own, a \in Outcomes : Contract!Say(t, a)
             \/ UNCHANGED Contract!cvars
  <2>1. pending[id] # NoTask /\ id \in PendingIds
    BY <1>6 DEF Resolve, PendingIds
  <2>2. PICK t \in Tasks : t = pending[id] /\ pc[t] = "waiting" /\ t \notin event
    <3>1. pending[id] \in Tasks
      BY <2>1 DEF TypeOK
    <3>2. pc[pending[id]] = "waiting" /\ pending[id] \notin event
      BY <2>1 DEF NoOrphans
    <3> QED BY <3>1, <3>2
  <2>3. /\ event' = event \union {t}
        /\ answer' = [answer EXCEPT ![t] =
                      [decision |-> d, binding |-> b, payload |-> p]]
        /\ UNCHANGED <<timer, pc, result>>
    BY <1>6, <2>2 DEF Resolve
  <2>4. answer'[t] = [decision |-> d, binding |-> b, payload |-> p]
        /\ \A u \in Tasks \ {t} : answer'[u] = answer[u]
    BY <2>3 DEF TypeOK
  <2>5. CASE t \notin Own
    <3>1. \A u \in Tasks \ {t} :
            /\ pc'[u] = pc[u] /\ result'[u] = result[u] /\ answer'[u] = answer[u]
            /\ u \in event' <=> u \in event
            /\ u \in timer' <=> u \in timer
      BY <2>3, <2>4
    <3> QED BY <2>5, <3>1, OthersUnseen
  <2>6. CASE t \in Own
    <3>1. ContractPhase[t] = "open" /\ ContractSaid[t] = "none"
      BY <2>2, <2>6, Phases DEF ContractPhase, ContractSaid
    <3>2. ContractSaid' = [ContractSaid EXCEPT ![t] = Effective(t, d, b)]
      <4>1. ContractSaid'[t] = Effective(t, d, b)
        BY <2>3, <2>4, <2>6 DEF ContractSaid
      <4>2. \A u \in Own \ {t} : ContractSaid'[u] = ContractSaid[u]
        BY <1>0, <2>3, <2>4 DEF ContractSaid
      <4> QED BY <4>1, <4>2 DEF ContractSaid
    <3>3. UNCHANGED <<ContractPhase, ContractVerdict, timer>>
      BY <2>3 DEF ContractPhase, ContractVerdict
    <3>4. Effective(t, d, b) \in Outcomes
      BY EffectiveIsOutcome
    <3> QED BY <2>6, <3>1, <3>2, <3>3, <3>4 DEF Contract!Say
  <2> QED BY <2>5, <2>6
<1>7. ASSUME UNCHANGED vars PROVE UNCHANGED Contract!cvars
  BY <1>7 DEF vars, Contract!cvars, ContractPhase, ContractSaid, ContractVerdict
<1>8. CASE Operator
  <2>1. \/ \E t \in Own, a \in Outcomes : Contract!Say(t, a)
        \/ UNCHANGED Contract!cvars
    BY <1>6, <1>8 DEF Operator
  <2> QED BY <2>1 DEF Contract!Next, Contract!Step
<1>9. ASSUME NEW t \in Own, Handler(t) PROVE Contract!Next
  BY <1>1, <1>2, <1>3, <1>4, <1>5, <1>9 DEF Handler, Contract!Next, Contract!Step
<1>10. ASSUME NEW t \in Tasks, t \notin Own, Handler(t) PROVE UNCHANGED Contract!cvars
  BY <1>10, HandlerUnseen
<1> QED BY <1>7, <1>8, <1>9, <1>10 DEF Next, Served

\* The table with its queue, its evictions and its timers implements the
\* contract for every handler with an id of its own, whatever handlers that
\* share an id do.
THEOREM ImplementsContract == Spec => ContractSafety
<1>1. IInv /\ IInv' /\ [Next]_vars => [Contract!Next]_(Contract!cvars)
  BY StepContract
<1> QED BY <1>1, InitContract, InductiveInvariant, PTL DEF Spec, ContractSafety
=============================================================================
