--------------------------- MODULE SessionGuardProofs ---------------------------
(***************************************************************************)
(* What holds of the session lock, the quarantine and their tables for any *)
(* number of sessions and requests and any configuration.                  *)
(*                                                                         *)
(* The registry and the lock table are tables of the same shape: marks     *)
(* under sessions, and the order the oldest is evicted by.  What inserting,*)
(* removing and renewing do to such a table is stated once, and every      *)
(* operation of the two is one of these.                                   *)
(***************************************************************************)
EXTENDS SessionGuard, FiniteSetTheorems, SequenceTheorems, WellFoundedInduction,
        TLAPS

-----------------------------------------------------------------------------
(* Orders: sequences that name sessions, each once. *)

Distinct(o) == \A i, j \in 1..Len(o) : o[i] = o[j] => i = j

Names(o, K) ==
  /\ o \in Seq(Sessions)
  /\ Distinct(o)
  /\ {o[i] : i \in 1..Len(o)} = K

\* A new name at the end.
LEMMA AppendNames ==
  ASSUME NEW o, NEW K, Names(o, K), NEW s \in Sessions \ K
  PROVE  Names(Append(o, s), K \union {s}) /\ Len(Append(o, s)) = Len(o) + 1
<1> DEFINE n == Append(o, s)
<1>1. /\ n \in Seq(Sessions) /\ Len(n) = Len(o) + 1 /\ Len(o) \in Nat
      /\ n[Len(o) + 1] = s
      /\ \A i \in 1..Len(o) : n[i] = o[i]
  BY AppendProperties DEF Names
<1> HIDE DEF n
<1>2. \A i \in 1..Len(o) : o[i] \in K
  BY DEF Names
<1>3. Distinct(n)
  BY <1>1, <1>2 DEF Distinct, Names
<1>4. {n[i] : i \in 1..Len(n)} = K \union {s}
  <2>1. \A i \in 1..Len(n) : n[i] \in K \union {s}
    BY <1>1, <1>2
  <2>2. ASSUME NEW k \in K PROVE \E i \in 1..Len(n) : n[i] = k
    <3>1. PICK i \in 1..Len(o) : o[i] = k
      BY DEF Names
    <3> QED  BY <3>1, <1>1
  <2>3. Len(o) + 1 \in 1..Len(n)
    BY <1>1
  <2> QED  BY <2>1, <2>2, <2>3, <1>1
<1> QED  BY <1>1, <1>3, <1>4 DEF Names, n

\* Without the first name.
LEMMA TailNames ==
  ASSUME NEW o, NEW K, Names(o, K), o # <<>>
  PROVE  /\ Head(o) \in K
         /\ Names(Tail(o), K \ {Head(o)})
         /\ Len(Tail(o)) = Len(o) - 1
<1> DEFINE n == Tail(o)
<1>1. /\ n \in Seq(Sessions) /\ Len(n) = Len(o) - 1 /\ Len(o) \in Nat \ {0}
      /\ Head(o) = o[1]
      /\ \A i \in 1..Len(n) : n[i] = o[i + 1]
  BY HeadTailProperties, EmptySeq, LenProperties DEF Names
<1> HIDE DEF n
<1>2. Head(o) \in K
  BY <1>1 DEF Names
<1>3. Distinct(n)
  <2> SUFFICES ASSUME NEW i \in 1..Len(n), NEW j \in 1..Len(n), n[i] = n[j]
               PROVE  i = j
    BY DEF Distinct
  <2>1. i + 1 \in 1..Len(o) /\ j + 1 \in 1..Len(o) /\ o[i + 1] = o[j + 1]
    BY <1>1
  <2>2. i + 1 = j + 1
    BY <2>1 DEF Names, Distinct
  <2> QED  BY <2>2, <1>1
<1>4. {n[i] : i \in 1..Len(n)} = K \ {Head(o)}
  <2>1. ASSUME NEW i \in 1..Len(n) PROVE n[i] \in K \ {Head(o)}
    <3>1. i + 1 \in 1..Len(o) /\ 1 \in 1..Len(o) /\ i + 1 # 1 /\ n[i] = o[i + 1]
      BY <1>1
    <3> QED  BY <3>1, <1>1 DEF Names, Distinct
  <2>2. ASSUME NEW k \in K \ {Head(o)} PROVE \E i \in 1..Len(n) : n[i] = k
    <3>1. PICK i \in 1..Len(o) : o[i] = k
      BY DEF Names
    <3>2. i # 1
      BY <3>1, <1>1
    <3>3. i - 1 \in 1..Len(n) /\ (i - 1) + 1 = i
      BY <3>2, <1>1
    <3>4. n[i - 1] = o[i]
      BY <3>3, <1>1
    <3> QED  BY <3>1, <3>3, <3>4
  <2> QED  BY <2>1, <2>2
<1> QED  BY <1>1, <1>2, <1>3, <1>4 DEF Names, n

\* Without one name.
LEMMA RemoveNames ==
  ASSUME NEW o, NEW K, Names(o, K), NEW s
  PROVE  /\ Names(RemoveFirst(o, s), K \ {s})
         /\ Len(RemoveFirst(o, s)) = IF s \in K THEN Len(o) - 1 ELSE Len(o)
<1>0. o \in Seq(Sessions) /\ Len(o) \in Nat
  BY LenProperties DEF Names
<1>1. CASE s \notin K
  <2>1. ~ \E i \in 1..Len(o) : o[i] = s
    BY <1>1 DEF Names
  <2>2. RemoveFirst(o, s) = o
    BY <2>1 DEF RemoveFirst
  <2>3. K \ {s} = K
    BY <1>1
  <2> QED  BY <1>1, <2>2, <2>3
<1>2. CASE s \in K
  <2>1. PICK k \in 1..Len(o) : o[k] = s
    BY <1>2 DEF Names
  <2>2. {i \in 1..Len(o) : o[i] = s} = {k}
    BY <2>1 DEF Names, Distinct
  <2>3. Min({k}) = k
    BY DEF Min
  <2>4. SelectInSeq(o, LAMBDA v : v = s) = k
    BY <2>2, <2>3 DEF SelectInSeq
  <2> DEFINE a == SubSeq(o, 1, k - 1)
             b == SubSeq(o, k + 1, Len(o))
             n == a \o b
  <2>5. RemoveFirst(o, s) = n
    BY <2>1, <2>4 DEF RemoveFirst, RemoveAt
  <2>6. /\ a \in Seq(Sessions) /\ Len(a) = k - 1
        /\ \A i \in 1..(k - 1) : a[i] = o[i]
    BY <1>0, SubSeqProperties, ElementOfSeq
  <2>7. /\ b \in Seq(Sessions) /\ Len(b) = Len(o) - k
        /\ \A i \in 1..(Len(o) - k) : b[i] = o[k + i]
    BY <1>0, SubSeqProperties, ElementOfSeq
  <2> HIDE DEF a, b
  <2>8. /\ n \in Seq(Sessions) /\ Len(n) = Len(o) - 1
        /\ \A i \in 1..(Len(o) - 1) : n[i] = IF i < k THEN o[i] ELSE o[i + 1]
    <3>1. /\ n \in Seq(Sessions) /\ Len(n) = Len(a) + Len(b)
          /\ \A i \in 1..(Len(a) + Len(b)) :
               n[i] = IF i <= Len(a) THEN a[i] ELSE b[i - Len(a)]
      BY <2>6, <2>7, ConcatProperties
    <3>2. ASSUME NEW i \in 1..(Len(o) - 1), i < k PROVE n[i] = o[i]
      BY <1>0, <3>1, <3>2, <2>6, <2>7
    <3>3. ASSUME NEW i \in 1..(Len(o) - 1), ~(i < k) PROVE n[i] = o[i + 1]
      <4>1. i - (k - 1) \in 1..(Len(o) - k)
        BY <1>0, <3>3
      <4>2. n[i] = b[i - (k - 1)]
        BY <1>0, <3>1, <3>3, <2>6, <2>7
      <4> QED  BY <4>1, <4>2, <2>7, <1>0
    <3> QED  BY <1>0, <3>1, <3>2, <3>3, <2>6, <2>7
  <2> HIDE DEF n
  <2>9. Distinct(n)
    BY <1>0, <2>8 DEF Distinct, Names
  <2>10. {n[i] : i \in 1..Len(n)} = K \ {s}
    <3>1. ASSUME NEW i \in 1..Len(n) PROVE n[i] \in K \ {s}
      BY <1>0, <2>1, <2>8 DEF Distinct, Names
    <3>2. ASSUME NEW x \in K \ {s} PROVE \E i \in 1..Len(n) : n[i] = x
      <4>1. PICK i \in 1..Len(o) : o[i] = x
        BY DEF Names
      <4>2. CASE i < k
        BY <1>0, <2>8, <4>1, <4>2
      <4>3. CASE i > k
        <5>1. i - 1 \in 1..(Len(o) - 1) /\ ~(i - 1 < k) /\ (i - 1) + 1 = i
          BY <1>0, <4>3
        <5> QED  BY <5>1, <2>8, <4>1
      <4> QED  BY <4>1, <4>2, <4>3, <2>1
    <3> QED  BY <3>1, <3>2
  <2> QED  BY <1>2, <2>5, <2>8, <2>9, <2>10 DEF Names
<1> QED  BY <1>1, <1>2

-----------------------------------------------------------------------------
(* Tables: a mark or none under each session, and the order. *)

IsTable(t, none, M, max) ==
  /\ t = [by |-> t.by, order |-> t.order]
  /\ t.by \in [Sessions -> {none} \union M]
  /\ Names(t.order, {s \in Sessions : t.by[s] # none})
  /\ Len(t.order) <= max

Inserted(t, none, max, s, m) ==
  LET by    == [t.by EXCEPT ![s] = m]
      order == IF t.by[s] = none THEN Append(t.order, s) ELSE t.order
  IN  IF Len(order) > max
      THEN [by |-> [by EXCEPT ![Head(order)] = none], order |-> Tail(order)]
      ELSE [by |-> by, order |-> order]

Removed(t, none, s) ==
  [by |-> [t.by EXCEPT ![s] = none], order |-> RemoveFirst(t.order, s)]

\* A mark is there after it was put, and another session loses its own only if
\* the table was full and this one had none.
LEMMA InsertedIsTable ==
  ASSUME NEW M, NEW none, none \notin M, NEW max \in Nat \ {0},
         NEW t, IsTable(t, none, M, max), NEW s \in Sessions, NEW m \in M
  PROVE  LET n == Inserted(t, none, max, s, m)
         IN  /\ IsTable(n, none, M, max)
             /\ n.by[s] = m
             /\ \A u \in Sessions \ {s} :
                  \/ n.by[u] = t.by[u]
                  \/ n.by[u] = none /\ t.by[s] = none /\ Len(t.order) = max
<1> DEFINE K == {u \in Sessions : t.by[u] # none}
           by == [t.by EXCEPT ![s] = m]
           order == IF t.by[s] = none THEN Append(t.order, s) ELSE t.order
           n == Inserted(t, none, max, s, m)
<1>0. max \in Nat
  OBVIOUS
<1>1. /\ t.by \in [Sessions -> {none} \union M] /\ Names(t.order, K)
      /\ Len(t.order) <= max /\ Len(t.order) \in Nat
  BY LenProperties DEF IsTable, Names
<1>2. /\ by \in [Sessions -> {none} \union M] /\ by[s] = m
      /\ \A u \in Sessions \ {s} : by[u] = t.by[u]
  BY <1>1
<1>3. {u \in Sessions : by[u] # none} = K \union {s}
  BY <1>2
<1>4. /\ Names(order, K \union {s})
      /\ Len(order) = IF t.by[s] = none THEN Len(t.order) + 1 ELSE Len(t.order)
  <2>1. CASE t.by[s] = none
    <3>1. s \in Sessions \ K
      BY <2>1
    <3> HIDE DEF K
    <3> QED  BY <3>1, <2>1, <1>1, AppendNames
  <2>2. CASE t.by[s] # none
    <3>1. K \union {s} = K
      BY <2>2
    <3> HIDE DEF K
    <3> QED  BY <3>1, <2>2, <1>1
  <2> QED  BY <2>1, <2>2
<1>5. CASE Len(order) > max
  <2>1. n = [by |-> [by EXCEPT ![Head(order)] = none], order |-> Tail(order)]
    BY <1>5 DEF Inserted
  <2>2. t.by[s] = none /\ Len(t.order) = max
    BY <1>1, <1>4, <1>5
  <2>3. Len(order) = max + 1 /\ order = Append(t.order, s)
    BY <2>2, <1>4
  <2>4. t.order \in Seq(Sessions) /\ t.order # <<>>
    BY <2>2, <1>1, EmptySeq DEF Names
  <2>5. Head(order) = t.order[1] /\ order # <<>>
    BY <2>3, <2>4, <2>2, AppendProperties, HeadTailProperties, EmptySeq
  <2>6. t.order[1] \in K
    BY <2>2, <1>1 DEF Names
  <2> HIDE DEF K, by, order, n
  <2>7. Head(order) # s /\ Head(order) \in Sessions
    BY <2>2, <2>5, <2>6 DEF K
  <2>8. /\ Names(Tail(order), (K \union {s}) \ {Head(order)})
        /\ Len(Tail(order)) = max
    <3>1. Names(order, K \union {s}) /\ order # <<>>
      BY <2>5, <1>4
    <3>2. /\ Names(Tail(order), (K \union {s}) \ {Head(order)})
          /\ Len(Tail(order)) = Len(order) - 1
      BY <3>1, TailNames
    <3>3. Len(order) = max + 1
      BY <2>3
    <3> QED  BY <3>2, <3>3, <1>0
  <2>9. /\ n.by = [by EXCEPT ![Head(order)] = none] /\ n.order = Tail(order)
        /\ n = [by |-> n.by, order |-> n.order]
    BY <2>1
  <2>10. /\ n.by \in [Sessions -> {none} \union M]
         /\ n.by[Head(order)] = none
         /\ \A u \in Sessions \ {Head(order)} : n.by[u] = by[u]
    BY <2>9, <1>2, <2>7
  <2>11. {u \in Sessions : n.by[u] # none} = (K \union {s}) \ {Head(order)}
    BY <2>10, <1>3
  <2>12. IsTable(n, none, M, max)
    <3>1. n.order = Tail(order)
      BY <2>9
    <3>2. Names(n.order, (K \union {s}) \ {Head(order)}) /\ Len(n.order) <= max
      BY <3>1, <2>8, <1>0
    <3>3. Names(n.order, {u \in Sessions : n.by[u] # none})
      BY <3>2, <2>11
    <3> QED  BY <3>2, <3>3, <2>9, <2>10 DEF IsTable
  <2>13. n.by[s] = m
    BY <2>10, <2>7, <1>2
  <2>14. \A u \in Sessions \ {s} :
           \/ n.by[u] = t.by[u]
           \/ n.by[u] = none /\ t.by[s] = none /\ Len(t.order) = max
    BY <2>10, <2>2, <1>2
  <2> QED  BY <2>12, <2>13, <2>14 DEF n
<1>6. CASE ~(Len(order) > max)
  <2>1. n = [by |-> by, order |-> order]
    BY <1>6 DEF Inserted
  <2> HIDE DEF K, by, order, n
  <2>2. Len(order) <= max
    BY <1>6, <1>4, <1>1
  <2>3. IsTable(n, none, M, max)
    BY <2>1, <2>2, <1>2, <1>3, <1>4 DEF IsTable
  <2> QED  BY <2>1, <2>3, <1>2 DEF n
<1> QED  BY <1>5, <1>6

\* Taking a mark away makes room if there was one.
LEMMA RemovedIsTable ==
  ASSUME NEW M, NEW none, none \notin M, NEW max \in Nat \ {0},
         NEW t, IsTable(t, none, M, max), NEW s \in Sessions
  PROVE  LET n == Removed(t, none, s)
         IN  /\ IsTable(n, none, M, max)
             /\ n.by[s] = none
             /\ \A u \in Sessions \ {s} : n.by[u] = t.by[u]
             /\ Len(n.order) = IF t.by[s] = none THEN Len(t.order)
                               ELSE Len(t.order) - 1
<1> DEFINE K == {u \in Sessions : t.by[u] # none}
           n == Removed(t, none, s)
<1>1. /\ t.by \in [Sessions -> {none} \union M] /\ Names(t.order, K)
      /\ Len(t.order) <= max /\ Len(t.order) \in Nat
  BY LenProperties DEF IsTable, Names
<1>2. /\ n.by = [t.by EXCEPT ![s] = none] /\ n.order = RemoveFirst(t.order, s)
      /\ n = [by |-> n.by, order |-> n.order]
  BY DEF Removed
<1> HIDE DEF n
<1>3. /\ n.by \in [Sessions -> {none} \union M] /\ n.by[s] = none
      /\ \A u \in Sessions \ {s} : n.by[u] = t.by[u]
  BY <1>1, <1>2
<1>4. {u \in Sessions : n.by[u] # none} = K \ {s} /\ (s \in K <=> t.by[s] # none)
  BY <1>3
<1> HIDE DEF K
<1>5. /\ Names(n.order, K \ {s})
      /\ Len(n.order) = IF s \in K THEN Len(t.order) - 1 ELSE Len(t.order)
  BY <1>1, <1>2, RemoveNames
<1>6. Len(n.order) <= max
  BY <1>1, <1>5
<1>7. IsTable(n, none, M, max)
  BY <1>2, <1>3, <1>4, <1>5, <1>6 DEF IsTable
<1> QED  BY <1>3, <1>4, <1>5, <1>7 DEF n

\* Renewing a mark evicts another session only if this one had none.
LEMMA RenewedIsTable ==
  ASSUME NEW M, NEW none, none \notin M, NEW max \in Nat \ {0},
         NEW t, IsTable(t, none, M, max), NEW s \in Sessions, NEW m \in M
  PROVE  LET n == Inserted(Removed(t, none, s), none, max, s, m)
         IN  /\ IsTable(n, none, M, max)
             /\ n.by[s] = m
             /\ \A u \in Sessions \ {s} :
                  \/ n.by[u] = t.by[u]
                  \/ n.by[u] = none /\ t.by[s] = none /\ Len(t.order) = max
<1> DEFINE r == Removed(t, none, s)
           n == Inserted(r, none, max, s, m)
<1>1. /\ IsTable(r, none, M, max) /\ r.by[s] = none
      /\ \A u \in Sessions \ {s} : r.by[u] = t.by[u]
      /\ Len(r.order) = IF t.by[s] = none THEN Len(t.order) ELSE Len(t.order) - 1
  BY RemovedIsTable
<1> HIDE DEF r
<1>2. /\ IsTable(n, none, M, max) /\ n.by[s] = m
      /\ \A u \in Sessions \ {s} :
           \/ n.by[u] = r.by[u]
           \/ n.by[u] = none /\ Len(r.order) = max
  BY <1>1, InsertedIsTable
<1> HIDE DEF n
<1>3. Len(t.order) <= max /\ Len(t.order) \in Nat
  BY LenProperties DEF IsTable, Names
<1>4. Len(r.order) = max => t.by[s] = none /\ Len(t.order) = max
  BY <1>1, <1>3
<1>5. \A u \in Sessions \ {s} :
        \/ n.by[u] = t.by[u]
        \/ n.by[u] = none /\ t.by[s] = none /\ Len(t.order) = max
  BY <1>1, <1>2, <1>4
<1> QED  BY <1>2, <1>5 DEF n, r

\* Writing over a mark that is there moves nothing.
LEMMA RewrittenIsTable ==
  ASSUME NEW M, NEW none, none \notin M, NEW max \in Nat \ {0},
         NEW t, IsTable(t, none, M, max),
         NEW f \in [Sessions -> {none} \union M],
         \A u \in Sessions : f[u] = none <=> t.by[u] = none
  PROVE  IsTable([by |-> f, order |-> t.order], none, M, max)
<1>1. {u \in Sessions : f[u] # none} = {u \in Sessions : t.by[u] # none}
  OBVIOUS
<1> QED  BY <1>1 DEF IsTable
-----------------------------------------------------------------------------
(* The operations of the registry. *)

RegistryOK(reg) == IsTable(reg, Absent, Registry!Records, MaxSessions)

\* Putting a session's record evicts another session only if this one is new.
RegistryMoves(reg, new, s, rec) ==
  /\ RegistryOK(new)
  /\ new.by[s] = rec
  /\ rec \in Registry!Records
  /\ \A u \in Sessions \ {s} :
       \/ new.by[u] = reg.by[u]
       \/ new.by[u] = Absent /\ reg.by[s] = Absent /\ Len(reg.order) = MaxSessions

\* Two extensions of SequencesExt define the same removal.
LEMMA RegistryRemoves == \A o, s : Registry!RemoveFirst(o, s) = RemoveFirst(o, s)
BY DEF RemoveFirst, RemoveAt, SelectInSeq, Min,
       Registry!RemoveFirst, Registry!RemoveAt, Registry!SelectInSeq, Registry!Min

\* A session's record is put under its name, as the newest entry of the table.
LEMMA KeptMoves ==
  ASSUME NEW reg, RegistryOK(reg), NEW s \in Sessions, NEW rec \in Registry!Records
  PROVE  RegistryMoves(reg, Registry!Kept(reg, s, rec), s, rec)
<1>1. Registry!Kept(reg, s, rec) = Inserted(reg, Absent, MaxSessions, s, rec)
  BY DEF Registry!Kept, Inserted
<1>2. Absent \notin Registry!Records /\ MaxSessions \in Nat \ {0}
  BY MarkAssumption, RegistryAssumption
<1> QED  BY <1>1, <1>2, InsertedIsTable DEF RegistryMoves, RegistryOK

\* A session's record is taken out of the table and put back as its newest.
LEMMA RenewedMoves ==
  ASSUME NEW reg, RegistryOK(reg), NEW s \in Sessions, NEW rec \in Registry!Records
  PROVE  RegistryMoves(reg, Registry!Renewed(reg, s, rec), s, rec)
<1>1. Registry!Renewed(reg, s, rec)
        = Inserted(Removed(reg, Absent, s), Absent, MaxSessions, s, rec)
  BY RegistryRemoves DEF Registry!Renewed, Registry!Kept, Inserted, Removed
<1>2. Absent \notin Registry!Records /\ MaxSessions \in Nat \ {0}
  BY MarkAssumption, RegistryAssumption
<1> QED  BY <1>1, <1>2, RenewedIsTable DEF RegistryMoves, RegistryOK

\* What a session has before anything is recorded of it.
LEMMA BlankIsRecord == Registry!Blank \in Registry!Records
<1>1. <<>> \in Seq(Registry!Entries)
  OBVIOUS
<1> QED  BY <1>1 DEF Registry!Blank, Registry!Records

\* What the table says of a session is always a record.
LEMMA OfIsRecord ==
  ASSUME NEW reg, RegistryOK(reg), NEW s \in Sessions
  PROVE  Registry!Of(reg, s) \in Registry!Records
BY BlankIsRecord DEF Registry!Of, RegistryOK, IsTable

\* A set of numbers up to n has a greatest one.
LEMMA GreatestOf ==
  ASSUME NEW n \in Nat, NEW T \in SUBSET (0..n), T # {}
  PROVE  \E i \in T : \A j \in T : j <= i
<1> DEFINE D == {n - i : i \in T}
<1>1. D \subseteq Nat /\ D # {}
  <2>1. PICK i \in T : TRUE
    OBVIOUS
  <2>2. n - i \in D
    OBVIOUS
  <2>3. \A j \in T : n - j \in Nat
    OBVIOUS
  <2> QED  BY <2>2, <2>3
<1> DEFINE R == OpToRel(<, Nat)
<1>2. IsWellFoundedOn(R, Nat)
  BY NatLessThanWellFounded
<1>3. \A x, y \in Nat : <<y, x>> \in R <=> y < x
  BY DEF OpToRel
<1> HIDE DEF R, D
<1>4. PICK x \in D : \A y \in D : ~ (<<y, x>> \in R)
  BY <1>1, <1>2, WFMin
<1>5. \A y \in D : ~ (y < x)
  BY <1>1, <1>3, <1>4
<1>6. PICK i \in T : x = n - i
  BY DEF D
<1>7. ASSUME NEW j \in T PROVE j <= i
  <2>1. n - j \in D
    BY DEF D
  <2>2. ~ (n - j < n - i)
    BY <2>1, <1>5, <1>6
  <2> QED  BY <2>2
<1> QED  BY <1>7

\* The newest entry of an event.
LEMMA MatchNewest ==
  ASSUME NEW t \in Seq(Registry!Entries), NEW e
  PROVE  LET at == Registry!Match(t, e)
         IN  /\ at \in 0..Len(t)
             /\ at = 0 => \A i \in 1..Len(t) : t[i].event # e
             /\ at # 0 => /\ t[at].event = e
                          /\ \A i \in 1..Len(t) : t[i].event = e => i <= at
<1> DEFINE hits == {i \in 1..Len(t) : t[i].event = e}
           at == Registry!Match(t, e)
<1>0. Len(t) \in Nat
  BY LenProperties
<1>1. CASE hits = {}
  <2>1. at = 0
    BY <1>1 DEF Registry!Match
  <2> QED  BY <1>0, <1>1, <2>1
<1>2. CASE hits # {}
  <2>1. at = CHOOSE i \in hits : \A j \in hits : i >= j
    BY <1>2 DEF Registry!Match
  <2>2. \E i \in hits : \A j \in hits : i >= j
    <3>1. hits \in SUBSET (0..Len(t))
      BY <1>0
    <3> HIDE DEF hits
    <3>2. PICK i \in hits : \A j \in hits : j <= i
      BY <1>0, <1>2, <3>1, GreatestOf
    <3>3. \A j \in hits : i >= j
      BY <1>0, <3>1, <3>2
    <3> QED  BY <3>3
  <2> HIDE DEF hits
  <2>3. at \in hits /\ \A j \in hits : at >= j
    BY <2>1, <2>2
  <2> QED  BY <2>3, <1>0 DEF hits
<1> QED  BY <1>1, <1>2

\* What record makes of a session's record is one.
LEMMA GrownIsRecord ==
  ASSUME NEW old \in Registry!Records, NEW e \in Registry!Entries,
         NEW scoped \in BOOLEAN
  PROVE  Registry!Grown(old, e, scoped) \in Registry!Records
<1> DEFINE t == old.timeline
           at == IF e.resolves THEN Registry!Match(t, e.event) ELSE 0
           prev == t[at]
           back == IF at = 0 THEN old
                   ELSE [old EXCEPT
                           !.dist[prev.verdict] = IF @ > 0 THEN @ - 1 ELSE 0,
                           !.high = IF prev.high /\ @ > 0 THEN @ - 1 ELSE @]
           new == Registry!Grown(old, e, scoped)
<1>1. /\ old.events \in Nat /\ old.high \in Nat /\ old.dist \in [Registry!Verdicts -> Nat]
      /\ t \in Seq(Registry!Entries) /\ old.scrolled \in BOOLEAN
      /\ old.quarantine \in {"none", "quarantined", "released"}
  BY DEF Registry!Records
<1>2. /\ e.verdict \in Registry!Verdicts /\ e.high \in BOOLEAN /\ e.resolves \in BOOLEAN
  BY DEF Registry!Entries
<1>3. new = [events     |-> old.events + Registry!One(~e.resolves),
             high       |-> back.high + Registry!One(e.high),
             dist       |-> [back.dist EXCEPT ![e.verdict] = @ + 1],
             timeline   |-> Registry!Extended(t, e),
             quarantine |-> IF scoped THEN "quarantined" ELSE old.quarantine,
             scrolled   |-> old.scrolled \/ Len(t) = MaxTimeline]
  BY DEF Registry!Grown
<1>4. \A c : Registry!One(c) \in Nat
  BY DEF Registry!One
<1>5. back.high \in Nat /\ back.dist \in [Registry!Verdicts -> Nat]
  <2>1. back.high = IF at # 0 /\ prev.high /\ old.high > 0
                    THEN old.high - 1 ELSE old.high
    BY DEF Registry!Records
  <2>2. back.dist = IF at = 0 THEN old.dist
                    ELSE [old.dist EXCEPT ![prev.verdict] = IF @ > 0 THEN @ - 1 ELSE 0]
    BY DEF Registry!Records
  <2>3. ASSUME NEW d \in [Registry!Verdicts -> Nat], NEW v \in Registry!Verdicts
        PROVE  [d EXCEPT ![v] = IF @ > 0 THEN @ - 1 ELSE 0] \in [Registry!Verdicts -> Nat]
    OBVIOUS
  <2>4. at # 0 => prev.verdict \in Registry!Verdicts
    <3>1. at # 0 => at \in 1..Len(t)
      BY <1>1, MatchNewest
    <3>2. at # 0 => prev \in Registry!Entries
      BY <1>1, <3>1, ElementOfSeq
    <3> HIDE DEF at, prev
    <3> QED  BY <3>2 DEF Registry!Entries
  <2> HIDE DEF back, at, prev
  <2>5. back.high \in Nat
    BY <1>1, <2>1
  <2>6. back.dist \in [Registry!Verdicts -> Nat]
    <3>1. CASE at = 0
      BY <3>1, <2>2, <1>1
    <3>2. CASE at # 0
      BY <3>2, <2>2, <2>3, <2>4, <1>1
    <3> QED  BY <3>1, <3>2
  <2> QED  BY <2>5, <2>6
<1>6. Registry!Extended(t, e) \in Seq(Registry!Entries)
  <2>1. Len(t) = MaxTimeline => t # <<>>
    BY <1>1, EmptySeq, RegistryAssumption
  <2>2. Len(t) = MaxTimeline => Tail(t) \in Seq(Registry!Entries)
    BY <2>1, <1>1, HeadTailProperties
  <2> QED  BY <2>2, <1>1, AppendProperties DEF Registry!Extended
<1> HIDE DEF new, back, t
<1>7. new.dist \in [Registry!Verdicts -> Nat]
  BY <1>2, <1>3, <1>5
<1>8. new.events \in Nat /\ new.high \in Nat
  BY <1>1, <1>3, <1>4, <1>5
<1>9. /\ new.timeline \in Seq(Registry!Entries)
      /\ new.quarantine \in {"none", "quarantined", "released"}
      /\ new.scrolled \in BOOLEAN
  BY <1>1, <1>3, <1>6
<1>10. new = [events |-> new.events, high |-> new.high, dist |-> new.dist,
              timeline |-> new.timeline, quarantine |-> new.quarantine,
              scrolled |-> new.scrolled]
  BY <1>3
<1>11. new \in Registry!Records
  BY <1>7, <1>8, <1>9, <1>10 DEF Registry!Records
<1> QED  BY <1>11 DEF new

\* The timeline entry of a request, in the fields the proofs read.
LEMMA EntryIsEntry ==
  ASSUME NEW r \in Requests, NEW v \in Registry!Verdicts, NEW level,
         NEW resolves \in BOOLEAN
  PROVE  /\ Registry!Entry(r, v, level, resolves) \in Registry!Entries
         /\ Registry!Entry(r, v, level, resolves).event = EventOf[r]
         /\ Registry!Entry(r, v, level, resolves).high = (level = "high")
         /\ Registry!Entry(r, v, level, resolves).resolves = resolves
BY DEF Registry!Entry, Registry!Entries

\* Recording an entry changes the record of its session alone.
LEMMA RecordedMoves ==
  ASSUME NEW reg, RegistryOK(reg), NEW s \in Sessions,
         NEW e \in Registry!Entries, NEW scoped \in BOOLEAN
  PROVE  RegistryMoves(reg, Registry!Recorded(reg, s, e, scoped), s,
                       Registry!Grown(Registry!Of(reg, s), e, scoped))
<1>1. Registry!Grown(Registry!Of(reg, s), e, scoped) \in Registry!Records
  BY OfIsRecord, GrownIsRecord
<1> QED  BY <1>1, RenewedMoves DEF Registry!Recorded

\* Looking a session up renews its place and nothing else.
LEMMA TouchedMoves ==
  ASSUME NEW reg, RegistryOK(reg), NEW s \in Sessions
  PROVE  RegistryMoves(reg, Registry!Touched(reg, s), s, Registry!Of(reg, s))
BY OfIsRecord, KeptMoves DEF Registry!Touched

\* Releasing a quarantine changes the record of its session alone.
LEMMA UnquarantinedMoves ==
  ASSUME NEW reg, RegistryOK(reg), NEW s \in Sessions, Registry!Quarantined(reg, s)
  PROVE  LET new == Registry!Unquarantined(reg, s)
             rec == [reg.by[s] EXCEPT !.quarantine = "released"]
         IN  RegistryMoves(reg, new, s, rec) /\ reg.by[s] \in Registry!Records
<1> DEFINE f == [reg.by EXCEPT ![s].quarantine = "released"]
           rec == [reg.by[s] EXCEPT !.quarantine = "released"]
           new == [by |-> f, order |-> reg.order]
<1>1. /\ reg = [by |-> reg.by, order |-> reg.order]
      /\ reg.by \in [Sessions -> {Absent} \union Registry!Records]
  BY DEF RegistryOK, IsTable
<1>2. reg.by[s] \in Registry!Records
  BY <1>1 DEF Registry!Quarantined
<1>3. rec \in Registry!Records
  BY <1>2 DEF Registry!Records
<1>4. Registry!Unquarantined(reg, s) = new
  <2>1. Registry!Unquarantined(reg, s) = [reg EXCEPT !.by[s].quarantine = "released"]
    BY DEF Registry!Unquarantined
  <2>2. \A b, o, g : [[by |-> b, order |-> o] EXCEPT !.by = g] = [by |-> g, order |-> o]
    OBVIOUS
  <2> QED  BY <1>1, <2>1, <2>2
<1>5. f = [reg.by EXCEPT ![s] = rec]
  OBVIOUS
<1> HIDE DEF rec, f
<1>6. /\ f \in [Sessions -> {Absent} \union Registry!Records] /\ f[s] = rec
      /\ \A u \in Sessions \ {s} : f[u] = reg.by[u]
  BY <1>1, <1>3, <1>5
<1>7. rec # Absent /\ reg.by[s] # Absent /\ Absent \notin Registry!Records
  BY <1>2, <1>3, MarkAssumption
<1>8. \A u \in Sessions : f[u] = Absent <=> reg.by[u] = Absent
  BY <1>6, <1>7
<1>9. RegistryOK(new)
  BY <1>6, <1>7, <1>8, RewrittenIsTable, RegistryAssumption DEF RegistryOK
<1> HIDE DEF new
<1>10. new.by = f
  BY DEF new
<1>11. RegistryMoves(reg, new, s, rec)
  BY <1>3, <1>6, <1>9, <1>10 DEF RegistryMoves
<1> QED  BY <1>2, <1>4, <1>11 DEF rec
-----------------------------------------------------------------------------
(* The operations of the lock table. *)

PolicyOK(p) == IsTable(p, Unlocked, Lock!Locks, MaxTracked)

\* Locking a session leaves its own lock in place, gives no other session one,
\* and takes one only when the table was full and this session had none.
LockMoves(p, new, s) ==
  /\ PolicyOK(new)
  /\ Lock!Locked(p, s) => Lock!Locked(new, s)
  /\ \A u \in Sessions \ {s} :
       /\ Lock!Locked(new, u) => Lock!Locked(p, u)
       /\ Lock!Locked(p, u) /\ ~Lock!Locked(new, u) =>
            /\ Len(p.order) = MaxTracked
            /\ ~Lock!Locked(p, s) /\ Lock!Locked(new, s)

\* Dropping the lock of a session touches no other.
DropMoves(p, new, s) ==
  /\ PolicyOK(new)
  /\ ~Lock!Locked(new, s)
  /\ \A u \in Sessions \ {s} : Lock!Locked(new, u) <=> Lock!Locked(p, u)
  /\ Len(new.order) < Len(p.order)

\* Two extensions of SequencesExt define the same removal.
LEMMA LockRemoves == \A o, s : Lock!RemoveFirst(o, s) = RemoveFirst(o, s)
BY DEF RemoveFirst, RemoveAt, SelectInSeq, Min,
       Lock!RemoveFirst, Lock!RemoveAt, Lock!SelectInSeq, Lock!Min

\* A step that leaves the table alone moves no lock.
LEMMA SameLocks ==
  ASSUME NEW p, PolicyOK(p), NEW s
  PROVE  LockMoves(p, p, s)
BY DEF LockMoves

\* A lock is put on one session, for the oldest one's place if need be.
LEMMA PutMoves ==
  ASSUME NEW p, PolicyOK(p), NEW s \in Sessions, NEW action \in Lock!LockActions
  PROVE  LET new == Lock!Put(p, s, [action |-> action, age |-> 0])
         IN  LockMoves(p, new, s)
<1> DEFINE lock == [action |-> action, age |-> 0]
           new == Lock!Put(p, s, lock)
<1>1. lock \in Lock!Locks
  BY LockAssumption DEF Lock!Locks
<1>2. Unlocked \notin Lock!Locks /\ MaxTracked \in Nat \ {0}
  BY MarkAssumption, LockAssumption
<1> HIDE DEF lock
<1>3. new = Inserted(p, Unlocked, MaxTracked, s, lock)
  BY DEF Lock!Put, Lock!Locked, Inserted
<1>4. /\ IsTable(new, Unlocked, Lock!Locks, MaxTracked)
      /\ new.by[s] = lock
      /\ \A u \in Sessions \ {s} :
           \/ new.by[u] = p.by[u]
           \/ new.by[u] = Unlocked /\ p.by[s] = Unlocked /\ Len(p.order) = MaxTracked
  BY <1>1, <1>2, <1>3, InsertedIsTable DEF PolicyOK
<1> HIDE DEF new
<1>5. LockMoves(p, new, s)
  BY <1>1, <1>2, <1>4 DEF LockMoves, PolicyOK, Lock!Locked
<1> QED  BY <1>5 DEF new, lock

\* Unlocking takes one session out, key and place in the order.
LEMMA UnlockMoves ==
  ASSUME NEW p, PolicyOK(p), NEW s \in Sessions, Lock!Locked(p, s)
  PROVE  DropMoves(p, Lock!Unlock(p, s), s)
<1> DEFINE new == Lock!Unlock(p, s)
<1>1. Unlocked \notin Lock!Locks /\ MaxTracked \in Nat \ {0}
  BY MarkAssumption, LockAssumption
<1>2. new = Removed(p, Unlocked, s)
  BY LockRemoves DEF Lock!Unlock, Removed
<1>3. /\ IsTable(new, Unlocked, Lock!Locks, MaxTracked)
      /\ new.by[s] = Unlocked
      /\ \A u \in Sessions \ {s} : new.by[u] = p.by[u]
      /\ Len(new.order) = Len(p.order) - 1
  BY <1>1, <1>2, RemovedIsTable DEF PolicyOK, Lock!Locked
<1> HIDE DEF new
<1>4. Len(p.order) \in Nat
  BY LenProperties DEF PolicyOK, IsTable, Names
<1>5. DropMoves(p, new, s)
  BY <1>3, <1>4 DEF DropMoves, PolicyOK, Lock!Locked
<1> QED  BY <1>5 DEF new

\* Looking a lock up drops it if it has expired, and no other.
LEMMA CheckedMoves ==
  ASSUME NEW p, PolicyOK(p), NEW s \in Sessions
  PROVE  \/ Lock!Checked(p, s) = p
         \/ Lock!Expired(p, s) /\ DropMoves(p, Lock!Checked(p, s), s)
BY UnlockMoves DEF Lock!Checked, Lock!Expired

\* The evaluation after a record touches the lock of that session alone.
LEMMA EvaluatedMoves ==
  ASSUME NEW p, PolicyOK(p), NEW s \in Sessions, NEW count \in Nat
  PROVE  LET new == Lock!Evaluated(p, s, count)
         IN  /\ LockMoves(p, new, s)
             /\ Lock!Locked(new, s) /\ ~Lock!Locked(p, s) => count >= Threshold
<1> DEFINE new == Lock!Evaluated(p, s, count)
<1>1. CASE ~Enabled \/ count < Threshold
  <2>1. new = p
    BY <1>1 DEF Lock!Evaluated
  <2> QED  BY <2>1, SameLocks
<1>2. CASE Enabled /\ ~(count < Threshold)
  <2>1. count >= Threshold
    BY <1>2, LockAssumption
  <2>2. CASE Lock!Locked(p, s)
    <3> DEFINE f == [p.by EXCEPT ![s].age = 0]
               n == [by |-> f, order |-> p.order]
    <3>1. /\ p = [by |-> p.by, order |-> p.order]
          /\ p.by \in [Sessions -> {Unlocked} \union Lock!Locks]
      BY DEF PolicyOK, IsTable
    <3>2. p.by[s] \in Lock!Locks
      BY <2>2, <3>1 DEF Lock!Locked
    <3>3. [p.by[s] EXCEPT !.age = 0] \in Lock!Locks
      BY <3>2, LockAssumption DEF Lock!Locks
    <3>4. new = n
      <4>1. new = [p EXCEPT !.by[s].age = 0]
        BY <1>2, <2>2 DEF Lock!Evaluated
      <4>2. \A b, o, g : [[by |-> b, order |-> o] EXCEPT !.by = g] = [by |-> g, order |-> o]
        OBVIOUS
      <4> QED  BY <3>1, <4>1, <4>2
    <3>5. /\ f \in [Sessions -> {Unlocked} \union Lock!Locks]
          /\ f[s] \in Lock!Locks
          /\ \A u \in Sessions \ {s} : f[u] = p.by[u]
      BY <3>1, <3>3
    <3> HIDE DEF f
    <3>6. Unlocked \notin Lock!Locks /\ MaxTracked \in Nat \ {0}
      BY MarkAssumption, LockAssumption
    <3>7. \A u \in Sessions : f[u] = Unlocked <=> p.by[u] = Unlocked
      BY <3>2, <3>5, <3>6
    <3>8. PolicyOK(n)
      BY <3>5, <3>6, <3>7, RewrittenIsTable DEF PolicyOK
    <3> HIDE DEF n
    <3>9. n.by = f
      BY DEF n
    <3>10. LockMoves(p, n, s)
      BY <3>7, <3>8, <3>9 DEF LockMoves, Lock!Locked
    <3> QED  BY <2>1, <3>4, <3>10
  <2>3. CASE ~Lock!Locked(p, s)
    <3>1. new = Lock!Put(p, s, [action |-> LockAction, age |-> 0])
      BY <1>2, <2>3 DEF Lock!Evaluated
    <3>2. LockAction \in Lock!LockActions
      BY LockAssumption DEF Lock!LockActions
    <3> QED  BY <2>1, <3>1, <3>2, PutMoves
  <2> QED  BY <2>2, <2>3
<1> QED  BY <1>1, <1>2

\* Time ages the locks and neither puts nor drops one.
LEMMA OlderMoves ==
  ASSUME NEW p, PolicyOK(p)
  PROVE  /\ PolicyOK(Lock!Older(p))
         /\ \A u \in Sessions : Lock!Locked(Lock!Older(p), u) <=> Lock!Locked(p, u)
<1> DEFINE f == [s \in Sessions |->
                   IF Lock!Locked(p, s) /\ p.by[s].age < Cooldown
                   THEN [p.by[s] EXCEPT !.age = @ + 1] ELSE p.by[s]]
           n == [by |-> f, order |-> p.order]
<1>1. /\ p = [by |-> p.by, order |-> p.order]
      /\ p.by \in [Sessions -> {Unlocked} \union Lock!Locks]
  BY DEF PolicyOK, IsTable
<1>2. Lock!Older(p) = n
  <2>1. Lock!Older(p) = [p EXCEPT !.by = f]
    BY DEF Lock!Older
  <2> HIDE DEF f
  <2>2. \A b, o, g : [[by |-> b, order |-> o] EXCEPT !.by = g] = [by |-> g, order |-> o]
    OBVIOUS
  <2> QED  BY <1>1, <2>1, <2>2
<1>3. ASSUME NEW s \in Sessions
      PROVE  IF Lock!Locked(p, s) THEN f[s] \in Lock!Locks ELSE f[s] = p.by[s]
  <2>1. CASE Lock!Locked(p, s)
    <3>1. p.by[s] \in Lock!Locks
      BY <1>1, <2>1 DEF Lock!Locked
    <3>2. p.by[s].age < Cooldown => [p.by[s] EXCEPT !.age = @ + 1] \in Lock!Locks
      BY <3>1, LockAssumption DEF Lock!Locks
    <3> QED  BY <2>1, <3>1, <3>2
  <2>2. CASE ~Lock!Locked(p, s)
    BY <2>2
  <2> QED  BY <2>1, <2>2
<1>4. DOMAIN f = Sessions /\ f = [s \in Sessions |-> f[s]]
  OBVIOUS
<1> HIDE DEF f
<1>5. Unlocked \notin Lock!Locks /\ MaxTracked \in Nat \ {0}
  BY MarkAssumption, LockAssumption
<1>6. \A u \in Sessions : f[u] = Unlocked <=> p.by[u] = Unlocked
  BY <1>1, <1>3, <1>5 DEF Lock!Locked
<1>7. f \in [Sessions -> {Unlocked} \union Lock!Locks]
  BY <1>1, <1>3, <1>4 DEF Lock!Locked
<1>8. PolicyOK(n)
  BY <1>5, <1>6, <1>7, RewrittenIsTable DEF PolicyOK
<1>9. n.by = f
  OBVIOUS
<1> HIDE DEF n
<1> QED  BY <1>2, <1>6, <1>8, <1>9 DEF Lock!Locked
-----------------------------------------------------------------------------
(* The kinds of step. *)

\* A request that has not been recorded yet is, with what its path has made of
\* the lock table, and may be put to an operator.
Concludes(r) ==
  /\ stage[r] \in {"new", "recognising"}
  /\ \E p \in {policy, Table(r)}, v \in Registry!Verdicts, level \in Levels,
        scoped, ask \in BOOLEAN : Conclude(r, p, v, level, scoped, ask)

\* A request moves on or ends without being recorded.
Passes(r) ==
  /\ stage[r] \in {"new", "recognising"}
  /\ policy' \in {policy, Table(r)}
  /\ \E g \in {"recognising", "done"} : stage' = [stage EXCEPT ![r] = g]
  /\ UNCHANGED <<registry, risk, analysing, found>>

\* What a wait comes to is one of the verdicts.
LEMMA SettledIsVerdict ==
  ASSUME NEW r \in Requests, NEW v \in Registry!Verdicts
  PROVE  Settled(r, v) \in Registry!Verdicts
BY GuardAssumption DEF Settled, Registry!Verdicts

\* A request that is judged is recorded, or passes with nothing recorded.
LEMMA JudgeConcludes ==
  ASSUME NEW r \in Requests, NEW p \in {policy, Table(r)}, Judge(r, p),
         stage[r] \in {"new", "recognising"}
  PROVE  Concludes(r)
<1>1. PICK v \in Registry!Verdicts, level \in Levels :
        \E ask \in {FALSE} \union {v = "defer" /\ PreAction(r)} :
          Conclude(r, p, v, level, FALSE, ask \/ r \in Confirms)
  BY DEF Judge
<1>2. PICK ask \in {FALSE} \union {v = "defer" /\ PreAction(r)} :
        Conclude(r, p, v, level, FALSE, ask \/ r \in Confirms)
  BY <1>1
<1>3. (ask \/ r \in Confirms) \in BOOLEAN
  OBVIOUS
<1> QED  BY <1>2, <1>3 DEF Concludes

\* A request held by a mark is recorded, or passes with nothing recorded.
LEMMA HoldConcludes ==
  ASSUME NEW r \in Requests, NEW v \in Registry!Verdicts, NEW effect, Hold(r, v, effect),
         stage[r] \in {"new", "recognising"}
  PROVE  Concludes(r)
<1>1. PICK level \in Levels :
        Conclude(r, Table(r), Settled(r, v), level,
                 effect /\ Scope[r] = "neutral", r \in Confirms)
  BY DEF Hold
<1>2. (effect /\ Scope[r] = "neutral") \in BOOLEAN /\ (r \in Confirms) \in BOOLEAN
  OBVIOUS
<1> QED  BY <1>1, <1>2, SettledIsVerdict DEF Concludes

\* A step of a request's handler records it or lets it pass.
LEMMA HandlerSteps ==
  ASSUME NEW r \in Requests, Handler(r)
  PROVE  Concludes(r) \/ Passes(r) \/ Resume(r)
<1>0. /\ "block" \in Registry!Verdicts /\ "defer" \in Registry!Verdicts
      /\ Observed(r, "block") \in Registry!Verdicts
  BY DEF Registry!Verdicts, Observed
<1>1. CASE Quarantine(r)
  <2>1. stage[r] = "new" /\ \E v \in Registry!Verdicts : \E effect : Hold(r, v, effect)
    BY <1>0, <1>1 DEF Quarantine, Arrives
  <2> QED  BY <2>1, HoldConcludes
<1>2. CASE Enforce(r)
  <2>1. stage[r] = "new"
    BY <1>2 DEF Enforce, Arrives
  <2>2. \/ \E v \in Registry!Verdicts : \E effect : Hold(r, v, effect)
        \/ Judge(r, Table(r))
    BY <1>0, <1>2 DEF Enforce
  <2> QED  BY <2>1, <2>2, HoldConcludes, JudgeConcludes
<1>3. CASE Evaluate(r)
  BY <1>3, JudgeConcludes DEF Evaluate, Arrives
<1>4. CASE Suspend(r)
  BY <1>4 DEF Suspend, Arrives, Passes
<1>5. CASE Continue(r)
  BY <1>5, JudgeConcludes DEF Continue
<1>6. CASE EngineFails(r)
  BY <1>6 DEF EngineFails, Arrives, Passes
<1> QED  BY <1>1, <1>2, <1>3, <1>4, <1>5, <1>6 DEF Handler

\* Every step is of one of these kinds, or an operator's, or the clock's.
LEMMA NextSteps ==
  ASSUME [Next]_vars
  PROVE  \/ \E r \in Requests : \/ Concludes(r) \/ Passes(r) \/ Resume(r)
                                \/ Analyse(r) \/ AnalysisFails(r)
         \/ \E s \in Sessions :
              ReleaseLock(s) \/ ReleaseQuarantine(s) \/ Query(s) \/ EffectResult(s)
         \/ Tick
         \/ UNCHANGED vars
BY HandlerSteps DEF Next, Background
-----------------------------------------------------------------------------
(* The tables. *)

TablesInv ==
  /\ RegistryOK(registry)
  /\ PolicyOK(policy)

\* Empty tables are tables.
LEMMA InitTables == Init => TablesInv
<1> SUFFICES ASSUME Init PROVE TablesInv
  OBVIOUS
<1> DEFINE Empty(none) == [by |-> [s \in Sessions |-> none], order |-> <<>>]
<1>1. ASSUME NEW none, NEW M, NEW max \in Nat PROVE IsTable(Empty(none), none, M, max)
  <2>1. Names(<<>>, {})
    BY DEF Names, Distinct
  <2>2. {s \in Sessions : Empty(none).by[s] # none} = {}
    OBVIOUS
  <2> QED  BY <2>1, <2>2 DEF IsTable
<1>2. registry = Empty(Absent) /\ policy = Empty(Unlocked)
  BY DEF Init, Registry!NoSession, Lock!NoLocks
<1> HIDE DEF Empty
<1>3. MaxSessions \in Nat /\ MaxTracked \in Nat
  BY RegistryAssumption, LockAssumption
<1> QED  BY <1>1, <1>2, <1>3 DEF TablesInv, RegistryOK, PolicyOK

\* The tables a request leaves to those behind it: whether its session has a
\* lock that has expired is found out on the way.
LEMMA TableMoves ==
  ASSUME TablesInv, NEW r \in Requests
  PROVE  LET s == SessionOf[r]
         IN  /\ s \in Sessions
             /\ PolicyOK(Table(r))
             /\ \/ Table(r) = policy
                \/ Lock!Expired(policy, s) /\ DropMoves(policy, Table(r), s)
<1>1. SessionOf[r] \in Sessions
  BY RegistryAssumption
<1>2. PolicyOK(policy)
  BY DEF TablesInv
<1> QED  BY <1>1, <1>2, CheckedMoves DEF Table, DropMoves

\* The entry of a request, what it makes of its session's record, and the lock
\* that may follow.
LEMMA ConcludesMoves ==
  ASSUME TablesInv, NEW r \in Requests, Concludes(r)
  PROVE  \E v \in Registry!Verdicts, level \in Levels, scoped, ask \in BOOLEAN :
           LET s == SessionOf[r]
               e == Registry!Entry(r, v, level, FALSE)
           IN  /\ e \in Registry!Entries
               /\ registry' = Registry!Recorded(registry, s, e, scoped)
               /\ RegistryMoves(registry, registry', s,
                    Registry!Grown(Registry!Of(registry, s), e, scoped))
               /\ risk' = [risk EXCEPT ![r] = level]
               /\ stage' = [stage EXCEPT ![r] = IF ask THEN "waiting" ELSE "done"]
               /\ analysing' = IF r \in Outputs THEN analysing \union {r} ELSE analysing
               /\ found' = found
               /\ \E p \in {policy, Table(r)} :
                    /\ LockMoves(p, policy', s)
                    /\ Lock!Locked(policy', s) /\ ~Lock!Locked(p, s)
                         => registry'.by[s].high >= Threshold
<1>1. PICK p \in {policy, Table(r)}, v \in Registry!Verdicts, level \in Levels,
           scoped \in BOOLEAN, ask \in BOOLEAN : Conclude(r, p, v, level, scoped, ask)
  BY DEF Concludes
<1> DEFINE s == SessionOf[r]
           e == Registry!Entry(r, v, level, FALSE)
           rec == Registry!Grown(Registry!Of(registry, s), e, scoped)
<1>2. /\ registry' = Registry!Recorded(registry, s, e, scoped)
      /\ risk' = [risk EXCEPT ![r] = level]
      /\ policy' = Lock!Evaluated(p, s, registry'.by[s].high)
      /\ analysing' = IF r \in Outputs THEN analysing \union {r} ELSE analysing
      /\ stage' = [stage EXCEPT ![r] = IF ask THEN "waiting" ELSE "done"]
      /\ found' = found
  BY <1>1 DEF Conclude
<1>3. s \in Sessions /\ PolicyOK(Table(r)) /\ PolicyOK(policy) /\ RegistryOK(registry)
  BY TableMoves DEF TablesInv
<1>4. e \in Registry!Entries
  BY EntryIsEntry
<1> HIDE DEF s, e, rec
<1>5. RegistryMoves(registry, registry', s, rec)
  BY <1>2, <1>3, <1>4, RecordedMoves DEF rec
<1>6. registry'.by[s].high \in Nat
  BY <1>5 DEF RegistryMoves, Registry!Records
<1>7. PolicyOK(p)
  BY <1>1, <1>3
<1>8. /\ LockMoves(p, policy', s)
      /\ Lock!Locked(policy', s) /\ ~Lock!Locked(p, s)
           => registry'.by[s].high >= Threshold
  BY <1>2, <1>3, <1>6, <1>7, EvaluatedMoves
<1> QED  BY <1>1, <1>2, <1>4, <1>5, <1>8 DEF s, e, rec

\* What a request that passes unrecorded may do to the lock table.
LEMMA PassesMoves ==
  ASSUME TablesInv, NEW r \in Requests, Passes(r)
  PROVE  UNCHANGED registry /\ policy' \in {policy, Table(r)}
BY DEF Passes

\* What resolving a deferred request does to its session's record.
LEMMA ResumeMoves ==
  ASSUME TablesInv, NEW r \in Requests, Resume(r)
  PROVE  \E v \in Registry!Verdicts :
           LET s == SessionOf[r]
               e == Registry!Entry(r, v, risk[r], TRUE)
           IN  /\ e \in Registry!Entries
               /\ registry' = Registry!Recorded(registry, s, e, FALSE)
               /\ RegistryMoves(registry, registry', s,
                    Registry!Grown(Registry!Of(registry, s), e, FALSE))
               /\ stage[r] = "waiting"
               /\ stage' = [stage EXCEPT ![r] = "done"]
               /\ UNCHANGED <<policy, risk, analysing, found>>
<1>1. PICK v \in {"allow", "block"} :
        registry' = Registry!Recorded(registry, SessionOf[r],
                      Registry!Entry(r, v, risk[r], TRUE), FALSE)
  BY DEF Resume
<1>2. v \in Registry!Verdicts
  BY DEF Registry!Verdicts
<1>3. SessionOf[r] \in Sessions /\ RegistryOK(registry)
  BY RegistryAssumption DEF TablesInv
<1>4. Registry!Entry(r, v, risk[r], TRUE) \in Registry!Entries
  BY <1>2, EntryIsEntry
<1>5. RegistryMoves(registry, registry', SessionOf[r],
        Registry!Grown(Registry!Of(registry, SessionOf[r]),
                       Registry!Entry(r, v, risk[r], TRUE), FALSE))
  BY <1>1, <1>3, <1>4, RecordedMoves
<1> QED  BY <1>1, <1>2, <1>4, <1>5 DEF Resume

\* An output's analysis may lock its session, for a finding.
LEMMA AnalyseMoves ==
  ASSUME TablesInv, NEW r \in Requests, Analyse(r)
  PROVE  LET s == SessionOf[r]
         IN  /\ RegistryMoves(registry, registry', s, Registry!Of(registry, s))
             /\ LockMoves(policy, policy', s)
             /\ policy' # policy => found' = found \union {r}
<1>1. SessionOf[r] \in Sessions /\ RegistryOK(registry) /\ PolicyOK(policy)
  BY RegistryAssumption DEF TablesInv
<1>2. RegistryMoves(registry, registry', SessionOf[r],
                    Registry!Of(registry, SessionOf[r]))
  BY <1>1, TouchedMoves DEF Analyse
<1>3. CASE policy' = policy
  BY <1>1, <1>2, <1>3, SameLocks
<1>4. CASE policy' # policy
  <2>1. /\ found' = found \union {r}
        /\ FindingAction # "broadcast"
        /\ policy' = Lock!Forced(policy, SessionOf[r], FindingAction)
    BY <1>4 DEF Analyse
  <2>2. FindingAction \in Lock!LockActions
    BY <2>1, GuardAssumption DEF Lock!LockActions
  <2>3. LockMoves(policy, policy', SessionOf[r])
    BY <1>1, <2>1, <2>2, PutMoves DEF Lock!Forced
  <2> QED  BY <1>2, <2>1, <2>3
<1> QED  BY <1>3, <1>4

\* Operators and adapters.
LEMMA OtherMoves ==
  ASSUME TablesInv, NEW s \in Sessions
  PROVE  /\ ReleaseLock(s) => UNCHANGED registry /\ DropMoves(policy, policy', s)
         /\ Query(s) => /\ UNCHANGED registry
                        /\ Lock!Expired(policy, s) /\ DropMoves(policy, policy', s)
         /\ ReleaseQuarantine(s) =>
              /\ UNCHANGED policy
              /\ registry.by[s] \in Registry!Records
              /\ RegistryMoves(registry, registry', s,
                   [registry.by[s] EXCEPT !.quarantine = "released"])
         /\ EffectResult(s) =>
              /\ UNCHANGED policy
              /\ RegistryMoves(registry, registry', s, Registry!Of(registry, s))
<1>0. RegistryOK(registry) /\ PolicyOK(policy)
  BY DEF TablesInv
<1>1. ReleaseLock(s) => UNCHANGED registry /\ DropMoves(policy, policy', s)
  BY <1>0, UnlockMoves DEF ReleaseLock, Lock!Released
<1>2. Query(s) => /\ UNCHANGED registry
                  /\ Lock!Expired(policy, s) /\ DropMoves(policy, policy', s)
  BY <1>0, UnlockMoves DEF Query, Lock!Checked, Lock!Expired
<1>3. ReleaseQuarantine(s) =>
        /\ UNCHANGED policy
        /\ registry.by[s] \in Registry!Records
        /\ RegistryMoves(registry, registry', s,
             [registry.by[s] EXCEPT !.quarantine = "released"])
  BY <1>0, UnquarantinedMoves DEF ReleaseQuarantine
<1>4. EffectResult(s) =>
        /\ UNCHANGED policy
        /\ RegistryMoves(registry, registry', s, Registry!Of(registry, s))
  BY <1>0, TouchedMoves DEF EffectResult
<1> QED  BY <1>1, <1>2, <1>3, <1>4

\* Every step leaves tables behind it.
LEMMA NextTables == TablesInv /\ [Next]_vars => TablesInv'
<1> SUFFICES ASSUME TablesInv, [Next]_vars PROVE RegistryOK(registry') /\ PolicyOK(policy')
  BY DEF TablesInv, RegistryOK, PolicyOK, IsTable, Names, Distinct
<1>0. RegistryOK(registry) /\ PolicyOK(policy)
  BY DEF TablesInv
<1>1. ASSUME NEW r \in Requests, Concludes(r)
      PROVE  RegistryOK(registry') /\ PolicyOK(policy')
  BY <1>1, ConcludesMoves DEF RegistryMoves, LockMoves
<1>2. ASSUME NEW r \in Requests, Passes(r)
      PROVE  RegistryOK(registry') /\ PolicyOK(policy')
  BY <1>0, <1>2, PassesMoves, TableMoves
<1>3. ASSUME NEW r \in Requests, Resume(r)
      PROVE  RegistryOK(registry') /\ PolicyOK(policy')
  BY <1>0, <1>3, ResumeMoves DEF RegistryMoves
<1>4. ASSUME NEW r \in Requests, Analyse(r)
      PROVE  RegistryOK(registry') /\ PolicyOK(policy')
  BY <1>4, AnalyseMoves DEF RegistryMoves, LockMoves
<1>5. ASSUME NEW s \in Sessions,
             ReleaseLock(s) \/ ReleaseQuarantine(s) \/ Query(s) \/ EffectResult(s)
      PROVE  RegistryOK(registry') /\ PolicyOK(policy')
  BY <1>0, <1>5, OtherMoves DEF RegistryMoves, DropMoves
<1>6. CASE Tick
  BY <1>0, <1>6, OlderMoves DEF Tick
<1>7. CASE UNCHANGED <<registry, policy>>
  BY <1>0, <1>7
<1>8. ASSUME NEW r \in Requests, AnalysisFails(r)
      PROVE  RegistryOK(registry') /\ PolicyOK(policy')
  BY <1>0, <1>8 DEF AnalysisFails
<1> QED
  BY <1>1, <1>2, <1>3, <1>4, <1>5, <1>6, <1>7, <1>8, NextSteps DEF vars

\* The tables are tables in every state.
LEMMA TablesStay == Spec => []TablesInv
BY InitTables, NextTables, PTL DEF Spec

\* The registry and the lock table never exceed their capacities, and the order
\* each evicts by names every session it knows exactly once.
THEOREM TablesStayBounded == Spec => []TablesBounded
<1>1. ASSUME NEW o, NEW K, Names(o, K)
      PROVE  /\ Registry!ToSet(o) = K /\ Registry!IsInjective(o)
             /\ Lock!ToSet(o) = K /\ Lock!IsInjective(o)
  BY <1>1 DEF Names, Distinct, Registry!ToSet, Registry!IsInjective,
     Lock!ToSet, Lock!IsInjective
<1>2. TablesInv => TablesBounded
  <2> SUFFICES ASSUME TablesInv PROVE TablesBounded
    OBVIOUS
  <2>1. Registry!RegistryBounded
    BY <1>1 DEF TablesInv, RegistryOK, IsTable, Registry!RegistryBounded, Registry!Known
  <2>2. Lock!IsLockTable(policy)
    BY <1>1 DEF TablesInv, PolicyOK, IsTable, Lock!IsLockTable, Lock!Locked
  <2> QED  BY <2>1, <2>2 DEF TablesBounded
<1> QED  BY <1>2, TablesStay, PTL
-----------------------------------------------------------------------------
(* What ends a lock or a quarantine. *)

\* LocksEndByRule, of one step.
LockEndsByRule(s) ==
  Lock!Locked(policy, s) /\ ~Lock!Locked(policy', s) =>
    \/ Lock!Expired(policy, s)
    \/ \E u \in Sessions \ {s} :
         Len(policy.order) = MaxTracked /\ ~Lock!Locked(policy, u)
           /\ Lock!Locked(policy', u)
    \/ UNCHANGED <<registry, stage, risk, reply, analysing>>

\* A table that one session's locks were moved in, after an expired lock of it
\* had been dropped or not.
LEMMA MovesEndByRule ==
  ASSUME TablesInv, NEW t \in Sessions, NEW s \in Sessions, NEW p,
         \/ p = policy
         \/ Lock!Expired(policy, t) /\ DropMoves(policy, p, t),
         LockMoves(p, policy', t) \/ policy' = p
  PROVE  LockEndsByRule(s)
<1> SUFFICES ASSUME Lock!Locked(policy, s), ~Lock!Locked(policy', s),
                    ~Lock!Expired(policy, s)
             PROVE  \E u \in Sessions \ {s} :
                      /\ Len(policy.order) = MaxTracked
                      /\ ~Lock!Locked(policy, u) /\ Lock!Locked(policy', u)
  BY DEF LockEndsByRule
<1>1. Lock!Locked(p, s)
  BY DEF DropMoves
<1>2. LockMoves(p, policy', t) /\ s # t
  BY <1>1 DEF LockMoves
<1>3. Len(p.order) = MaxTracked /\ ~Lock!Locked(p, t) /\ Lock!Locked(policy', t)
  BY <1>1, <1>2 DEF LockMoves
<1>4. Len(policy.order) <= MaxTracked /\ Len(policy.order) \in Nat
  BY LenProperties DEF TablesInv, PolicyOK, IsTable, Names
<1>5. p = policy
  <2> SUFFICES ASSUME DropMoves(policy, p, t) PROVE FALSE
    OBVIOUS
  <2>1. Len(p.order) < Len(policy.order)
    BY DEF DropMoves
  <2> QED  BY <2>1, <1>3, <1>4, LockAssumption
<1> QED  BY <1>2, <1>3, <1>5

\* LocksEndByRule, of one step.
LEMMA NextLocksEnd ==
  ASSUME TablesInv, [Next]_vars, NEW s \in Sessions
  PROVE  LockEndsByRule(s)
<1>1. ASSUME NEW r \in Requests, Concludes(r) PROVE LockEndsByRule(s)
  <2>1. PICK p \in {policy, Table(r)} : LockMoves(p, policy', SessionOf[r])
    BY <1>1, ConcludesMoves
  <2> QED  BY <2>1, TableMoves, MovesEndByRule
<1>2. ASSUME NEW r \in Requests, Passes(r) PROVE LockEndsByRule(s)
  <2>1. policy' \in {policy, Table(r)}
    BY <1>2, PassesMoves
  <2> QED  BY <2>1, TableMoves, MovesEndByRule
<1>3. CASE UNCHANGED policy
  BY <1>3 DEF LockEndsByRule
<1>4. ASSUME NEW r \in Requests, Resume(r) PROVE LockEndsByRule(s)
  BY <1>3, <1>4 DEF Resume
<1>5. ASSUME NEW r \in Requests, Analyse(r) PROVE LockEndsByRule(s)
  <2>1. SessionOf[r] \in Sessions /\ LockMoves(policy, policy', SessionOf[r])
    BY <1>5, AnalyseMoves, TableMoves
  <2> QED  BY <2>1, MovesEndByRule
<1>6. ASSUME NEW t \in Sessions, ReleaseLock(t) PROVE LockEndsByRule(s)
  BY <1>6 DEF ReleaseLock, LockEndsByRule
<1>7. ASSUME NEW t \in Sessions, Query(t) PROVE LockEndsByRule(s)
  BY <1>7, OtherMoves, MovesEndByRule
<1>8. CASE Tick
  <2>1. Lock!Locked(policy', s) <=> Lock!Locked(policy, s)
    BY <1>8, OlderMoves DEF Tick, TablesInv
  <2> QED  BY <2>1 DEF LockEndsByRule
<1>9. ASSUME NEW t \in Sessions, ReleaseQuarantine(t) \/ EffectResult(t)
      PROVE  LockEndsByRule(s)
  BY <1>3, <1>9 DEF ReleaseQuarantine, EffectResult
<1>10. ASSUME NEW r \in Requests, AnalysisFails(r) PROVE LockEndsByRule(s)
  BY <1>3, <1>10 DEF AnalysisFails
<1> QED
  BY <1>1, <1>2, <1>3, <1>4, <1>5, <1>6, <1>7, <1>8, <1>9, <1>10, NextSteps DEF vars

\* A lock goes away only when it has expired, when an operator releases it and
\* does nothing else, or when the table was full and another session got one.
THEOREM LocksEnd == Spec => LocksEndByRule
<1>1. TablesInv /\ [Next]_vars =>
        [\A s \in Sessions :
           Lock!Locked(policy, s) /\ ~Lock!Locked(policy', s) =>
             \/ Lock!Expired(policy, s)
             \/ \E u \in Sessions \ {s} :
                  Len(policy.order) = MaxTracked /\ ~Lock!Locked(policy, u)
                    /\ Lock!Locked(policy', u)
             \/ UNCHANGED <<registry, stage, risk, reply, analysing>>]_policy
  BY NextLocksEnd DEF LockEndsByRule
<1> QED  BY <1>1, TablesStay, PTL DEF Spec, LocksEndByRule

\* QuarantineStands, of one step.
Stands(s) ==
  Registry!Quarantined(registry, s) =>
    \/ Registry!Quarantined(registry', s)
    \/ registry'.by[s] # Absent /\ registry'.by[s].quarantine = "released"
    \/ /\ Len(registry.order) = MaxSessions
       /\ \E u \in Sessions \ {s} :
            registry.by[u] = Absent /\ registry'.by[u] # Absent

\* A quarantine stands when a session's record is put that keeps its own.
LEMMA MovesStand ==
  ASSUME TablesInv, NEW t \in Sessions, NEW rec, NEW s \in Sessions,
         RegistryMoves(registry, registry', t, rec),
         Registry!Quarantined(registry, t) => rec.quarantine \in {"quarantined", "released"}
  PROVE  Stands(s)
<1>1. rec # Absent /\ registry'.by[t] = rec
  BY MarkAssumption DEF RegistryMoves
<1>2. CASE s = t
  BY <1>1, <1>2 DEF Stands, Registry!Quarantined
<1>3. CASE s # t
  <2>1. CASE registry'.by[s] = registry.by[s]
    BY <2>1 DEF Stands, Registry!Quarantined
  <2>2. CASE registry.by[t] = Absent /\ Len(registry.order) = MaxSessions
    BY <1>1, <1>3, <2>2 DEF Stands
  <2> QED  BY <1>3, <2>1, <2>2 DEF RegistryMoves
<1> QED  BY <1>2, <1>3

\* Recording an entry releases no quarantine.
LEMMA GrownStands ==
  ASSUME NEW s \in Sessions, NEW e, NEW scoped \in BOOLEAN,
         Registry!Quarantined(registry, s)
  PROVE  Registry!Grown(Registry!Of(registry, s), e, scoped).quarantine = "quarantined"
BY DEF Registry!Quarantined, Registry!Of, Registry!Grown

\* QuarantineStands, of one step and one session.
LEMMA NextStands ==
  ASSUME TablesInv, [Next]_vars, NEW s \in Sessions
  PROVE  Stands(s)
<1>1. ASSUME NEW r \in Requests, Concludes(r) PROVE Stands(s)
  <2> DEFINE t == SessionOf[r]
  <2>1. PICK e \in Registry!Entries, scoped \in BOOLEAN :
          RegistryMoves(registry, registry', t,
            Registry!Grown(Registry!Of(registry, t), e, scoped))
    BY <1>1, ConcludesMoves
  <2>2. t \in Sessions
    BY TableMoves
  <2> HIDE DEF t
  <2>3. Registry!Quarantined(registry, t) =>
          Registry!Grown(Registry!Of(registry, t), e, scoped).quarantine
            \in {"quarantined", "released"}
    BY <2>2, GrownStands
  <2> QED  BY <2>1, <2>2, <2>3, MovesStand
<1>2. CASE UNCHANGED registry
  BY <1>2 DEF Stands, Registry!Quarantined
<1>3. ASSUME NEW r \in Requests, Passes(r) PROVE Stands(s)
  BY <1>2, <1>3 DEF Passes
<1>4. ASSUME NEW r \in Requests, Resume(r) PROVE Stands(s)
  BY <1>4, ResumeMoves, TableMoves, GrownStands, MovesStand
<1>5. ASSUME NEW t \in Sessions,
             RegistryMoves(registry, registry', t, Registry!Of(registry, t))
      PROVE  Stands(s)
  BY <1>5, MovesStand DEF Registry!Of, Registry!Quarantined
<1>6. ASSUME NEW r \in Requests, Analyse(r) PROVE Stands(s)
  BY <1>5, <1>6, AnalyseMoves, TableMoves
<1>7. ASSUME NEW t \in Sessions, ReleaseQuarantine(t) PROVE Stands(s)
  <2>1. /\ registry.by[t] \in Registry!Records
        /\ RegistryMoves(registry, registry', t,
             [registry.by[t] EXCEPT !.quarantine = "released"])
    BY <1>7, OtherMoves
  <2>2. [registry.by[t] EXCEPT !.quarantine = "released"].quarantine = "released"
    BY <2>1 DEF Registry!Records
  <2> QED  BY <2>1, <2>2, MovesStand
<1>8. ASSUME NEW t \in Sessions, EffectResult(t) PROVE Stands(s)
  BY <1>5, <1>8, OtherMoves
<1>9. ASSUME NEW t \in Sessions, ReleaseLock(t) \/ Query(t) PROVE Stands(s)
  BY <1>2, <1>9 DEF ReleaseLock, Query
<1>10. ASSUME NEW r \in Requests, AnalysisFails(r) PROVE Stands(s)
  BY <1>2, <1>10 DEF AnalysisFails
<1>11. CASE Tick
  BY <1>2, <1>11 DEF Tick
<1> QED
  BY <1>1, <1>2, <1>3, <1>4, <1>6, <1>7, <1>8, <1>9, <1>10, <1>11, NextSteps DEF vars

\* A quarantine ends only by an operator's release, or by an eviction in favour of
\* a session the full registry did not know.
THEOREM QuarantinesStand == Spec => QuarantineStands
<1>1. TablesInv /\ [Next]_vars =>
        [\A s \in Sessions :
           Registry!Quarantined(registry, s) =>
             \/ Registry!Quarantined(registry', s)
             \/ registry'.by[s] # Absent /\ registry'.by[s].quarantine = "released"
             \/ /\ Len(registry.order) = MaxSessions
                /\ \E u \in Sessions \ {s} :
                     registry.by[u] = Absent /\ registry'.by[u] # Absent]_registry
  BY NextStands DEF Stands
<1> QED  BY <1>1, TablesStay, PTL DEF Spec, QuarantineStands, Registry!QuarantineStands
-----------------------------------------------------------------------------
(* What the counters of a session count. *)

\* One more entry, with the oldest leaving a full timeline.
LEMMA ExtendedEntries ==
  ASSUME NEW t \in Seq(Registry!Entries), NEW e \in Registry!Entries
  PROVE  LET n == Registry!Extended(t, e)
         IN  /\ \A i \in 1..Len(n) : n[i] = e \/ \E j \in 1..Len(t) : n[i] = t[j]
             /\ Len(t) # MaxTimeline => n = Append(t, e)
<1> DEFINE u == IF Len(t) = MaxTimeline THEN Tail(t) ELSE t
           n == Registry!Extended(t, e)
<1>1. Len(t) = MaxTimeline => t # <<>>
  BY EmptySeq, RegistryAssumption
<1>2. u \in Seq(Registry!Entries) /\ \A i \in 1..Len(u) : \E j \in 1..Len(t) : u[i] = t[j]
  <2>1. CASE Len(t) = MaxTimeline
    <3>1. /\ Tail(t) \in Seq(Registry!Entries) /\ Len(Tail(t)) = Len(t) - 1
          /\ \A i \in 1..Len(Tail(t)) : Tail(t)[i] = t[i + 1]
      BY <1>1, <2>1, HeadTailProperties
    <3>2. Len(t) \in Nat
      BY LenProperties
    <3>3. \A i \in 1..Len(Tail(t)) : i + 1 \in 1..Len(t) /\ Tail(t)[i] = t[i + 1]
      BY <3>1, <3>2
    <3> QED  BY <2>1, <3>1, <3>3
  <2>2. CASE Len(t) # MaxTimeline
    BY <2>2
  <2> QED  BY <2>1, <2>2
<1>3. n = Append(u, e)
  BY DEF Registry!Extended
<1> HIDE DEF u, n
<1>4. /\ Len(n) = Len(u) + 1 /\ Len(u) \in Nat /\ n[Len(u) + 1] = e
      /\ \A i \in 1..Len(u) : n[i] = u[i]
  BY <1>2, <1>3, AppendProperties, LenProperties
<1>5. \A i \in 1..Len(n) : n[i] = e \/ \E j \in 1..Len(t) : n[i] = t[j]
  <2> SUFFICES ASSUME NEW i \in 1..Len(n), n[i] # e
               PROVE  \E j \in 1..Len(t) : n[i] = t[j]
    OBVIOUS
  <2>1. i \in 1..Len(u)
    BY <1>4
  <2> QED  BY <2>1, <1>2, <1>4
<1>6. Len(t) # MaxTimeline => n = Append(t, e)
  BY <1>3 DEF u
<1> QED  BY <1>5, <1>6 DEF n

\* The entry that record takes back, if any.
Superseded(t, e) == IF e.resolves THEN Registry!Match(t, e.event) ELSE 0

\* What record does to the counters.
LEMMA GrownCounters ==
  ASSUME NEW old \in Registry!Records, NEW e \in Registry!Entries,
         NEW scoped \in BOOLEAN
  PROVE  LET new == Registry!Grown(old, e, scoped)
             at == Superseded(old.timeline, e)
         IN  /\ new.timeline = Registry!Extended(old.timeline, e)
             /\ ~new.scrolled => ~old.scrolled /\ Len(old.timeline) # MaxTimeline
             /\ new.high = (IF at # 0 /\ old.timeline[at].high /\ old.high > 0
                            THEN old.high - 1 ELSE old.high)
                           + (IF e.high THEN 1 ELSE 0)
             /\ \A v \in Registry!Verdicts :
                  new.dist[v] = (IF at # 0 /\ old.timeline[at].verdict = v
                                       /\ old.dist[v] > 0
                                 THEN old.dist[v] - 1 ELSE old.dist[v])
                                + (IF e.verdict = v THEN 1 ELSE 0)
<1> DEFINE t == old.timeline
           at == Superseded(t, e)
           prev == t[at]
           back == IF at = 0 THEN old
                   ELSE [old EXCEPT
                           !.dist[prev.verdict] = IF @ > 0 THEN @ - 1 ELSE 0,
                           !.high = IF prev.high /\ @ > 0 THEN @ - 1 ELSE @]
           new == Registry!Grown(old, e, scoped)
<1>1. /\ old.high \in Nat /\ old.dist \in [Registry!Verdicts -> Nat]
      /\ t \in Seq(Registry!Entries)
  BY DEF Registry!Records
<1>2. e.verdict \in Registry!Verdicts /\ e.high \in BOOLEAN
  BY DEF Registry!Entries
<1>3. new = [events     |-> old.events + Registry!One(~e.resolves),
             high       |-> back.high + Registry!One(e.high),
             dist       |-> [back.dist EXCEPT ![e.verdict] = @ + 1],
             timeline   |-> Registry!Extended(t, e),
             quarantine |-> IF scoped THEN "quarantined" ELSE old.quarantine,
             scrolled   |-> old.scrolled \/ Len(t) = MaxTimeline]
  BY DEF Registry!Grown, Superseded
<1>4. at # 0 => prev.verdict \in Registry!Verdicts
  <2>1. at # 0 => at \in 1..Len(t)
    BY <1>1, MatchNewest DEF Superseded
  <2>2. at # 0 => prev \in Registry!Entries
    BY <1>1, <2>1, ElementOfSeq
  <2> HIDE DEF at, prev
  <2> QED  BY <2>2 DEF Registry!Entries
<1>5. back.high = IF at # 0 /\ prev.high /\ old.high > 0 THEN old.high - 1 ELSE old.high
  BY DEF Registry!Records
<1>6. /\ back.dist \in [Registry!Verdicts -> Nat]
      /\ \A v \in Registry!Verdicts :
           back.dist[v] = IF at # 0 /\ prev.verdict = v /\ old.dist[v] > 0
                          THEN old.dist[v] - 1 ELSE old.dist[v]
  <2>1. back.dist = IF at = 0 THEN old.dist
                    ELSE [old.dist EXCEPT ![prev.verdict] = IF @ > 0 THEN @ - 1 ELSE 0]
    BY DEF Registry!Records
  <2>2. ASSUME NEW d \in [Registry!Verdicts -> Nat], NEW w \in Registry!Verdicts
        PROVE  LET n == [d EXCEPT ![w] = IF @ > 0 THEN @ - 1 ELSE 0]
               IN  /\ n \in [Registry!Verdicts -> Nat]
                   /\ \A v \in Registry!Verdicts :
                        n[v] = IF w = v /\ d[v] > 0 THEN d[v] - 1 ELSE d[v]
    OBVIOUS
  <2> HIDE DEF back, at, prev
  <2>3. CASE at = 0
    BY <2>1, <2>3, <1>1
  <2>4. CASE at # 0
    BY <2>1, <2>2, <2>4, <1>1, <1>4
  <2> QED  BY <2>3, <2>4
<1> HIDE DEF back, at, prev, new
<1>7. new.high = back.high + (IF e.high THEN 1 ELSE 0)
  BY <1>3 DEF Registry!One
<1>8. \A v \in Registry!Verdicts : new.dist[v] = back.dist[v] + (IF e.verdict = v THEN 1 ELSE 0)
  BY <1>2, <1>3, <1>6
<1>9. /\ new.timeline = Registry!Extended(t, e)
      /\ ~new.scrolled => ~old.scrolled /\ Len(t) # MaxTimeline
  BY <1>3
<1> QED  BY <1>5, <1>6, <1>7, <1>8, <1>9 DEF at, prev, new

-----------------------------------------------------------------------------
(* The counters against the timeline. *)

\* The entries of the timeline that count and are of one kind.
Counting(t, T) == {i \in 1..Len(t) : Registry!Counts(t, i) /\ t[i] \in T}

\* A timeline has finitely many entries to count.
LEMMA CountingIsFinite ==
  ASSUME NEW t \in Seq(Registry!Entries), NEW T
  PROVE  IsFiniteSet(Counting(t, T)) /\ Cardinality(Counting(t, T)) \in Nat
<1>1. Len(t) \in Nat
  BY LenProperties
<1>2. IsFiniteSet(1..Len(t))
  BY <1>1, FS_Interval
<1>3. Counting(t, T) \subseteq 1..Len(t)
  BY DEF Counting
<1> QED  BY <1>2, <1>3, FS_Subset, FS_CardinalityType

\* A new entry counts, and takes the place of the one it supersedes.
LEMMA CountingAppend ==
  ASSUME NEW t \in Seq(Registry!Entries), NEW e \in Registry!Entries, NEW T
  PROVE  LET n  == Append(t, e)
             at == Superseded(t, e)
             c  == Cardinality(Counting(t, T))
         IN  /\ at # 0 /\ t[at] \in T => c > 0
             /\ Cardinality(Counting(n, T))
                  = (IF at # 0 /\ t[at] \in T THEN c - 1 ELSE c)
                    + (IF e \in T THEN 1 ELSE 0)
<1> DEFINE n == Append(t, e)
           at == Superseded(t, e)
           A == Counting(t, T)
           B == Counting(n, T)
           last == Len(t) + 1
           kept == IF at # 0 /\ t[at] \in T THEN A \ {at} ELSE A
<1>1. /\ Len(n) = last /\ Len(t) \in Nat /\ n[last] = e
      /\ \A i \in 1..Len(t) : n[i] = t[i]
  BY AppendProperties, LenProperties
<1>2. /\ at \in 0..Len(t)
      /\ at # 0 => /\ e.resolves /\ t[at].event = e.event
                   /\ \A i \in 1..Len(t) : t[i].event = e.event => i <= at
      /\ at = 0 /\ e.resolves => \A i \in 1..Len(t) : t[i].event # e.event
  BY <1>1, MatchNewest DEF Superseded
<1> HIDE DEF n, at
<1>3. Registry!Counts(n, last)
  BY <1>1 DEF Registry!Counts
<1>4. ASSUME NEW i \in 1..Len(t), i # at
      PROVE  Registry!Counts(n, i) <=> Registry!Counts(t, i)
  <2>1. ASSUME NEW j \in (i + 1)..Len(n)
        PROVE  (/\ n[j].event = n[i].event /\ n[j].resolves
                /\ \A k \in (i + 1)..(j - 1) : n[k].event # n[i].event)
               => /\ j \in (i + 1)..Len(t)
                  /\ t[j].event = t[i].event /\ t[j].resolves
                  /\ \A k \in (i + 1)..(j - 1) : t[k].event # t[i].event
    <3> SUFFICES ASSUME n[j].event = n[i].event, n[j].resolves,
                        \A k \in (i + 1)..(j - 1) : n[k].event # n[i].event
                 PROVE  /\ j \in (i + 1)..Len(t)
                        /\ t[j].event = t[i].event /\ t[j].resolves
                        /\ \A k \in (i + 1)..(j - 1) : t[k].event # t[i].event
      OBVIOUS
    <3>1. j # last
      <4> SUFFICES ASSUME j = last PROVE FALSE
        OBVIOUS
      <4>1. e.resolves /\ e.event = t[i].event
        BY <1>1
      <4>2. at # 0 /\ at \in 1..Len(t) /\ t[at].event = t[i].event /\ i <= at
        BY <1>2, <4>1
      <4>3. at \in (i + 1)..(j - 1)
        BY <4>2, <1>1, <1>4
      <4>4. n[at].event # n[i].event
        BY <4>3
      <4> QED  BY <4>2, <4>4, <1>1
    <3>2. j \in (i + 1)..Len(t) /\ j \in 1..Len(t)
      BY <3>1, <1>1
    <3>3. \A k \in (i + 1)..(j - 1) : k \in 1..Len(t)
      BY <3>2, <1>1
    <3> QED  BY <3>2, <3>3, <1>1
  <2>2. ASSUME NEW j \in (i + 1)..Len(t),
               t[j].event = t[i].event, t[j].resolves,
               \A k \in (i + 1)..(j - 1) : t[k].event # t[i].event
        PROVE  /\ j \in (i + 1)..Len(n)
               /\ n[j].event = n[i].event /\ n[j].resolves
               /\ \A k \in (i + 1)..(j - 1) : n[k].event # n[i].event
    <3>1. j \in (i + 1)..Len(n) /\ j \in 1..Len(t)
      BY <1>1
    <3>2. \A k \in (i + 1)..(j - 1) : k \in 1..Len(t)
      BY <3>1, <1>1
    <3> QED  BY <2>2, <3>1, <3>2, <1>1
  <2> QED  BY <2>1, <2>2 DEF Registry!Counts
<1>5. at # 0 => ~Registry!Counts(n, at) /\ Registry!Counts(t, at)
  <2> SUFFICES ASSUME at # 0
               PROVE  ~Registry!Counts(n, at) /\ Registry!Counts(t, at)
    OBVIOUS
  <2>1. at \in 1..Len(t) /\ last \in (at + 1)..Len(n)
    BY <1>1, <1>2
  <2>2. n[last].event = n[at].event /\ n[last].resolves
    BY <2>1, <1>1, <1>2
  <2>3. ASSUME NEW k \in (at + 1)..(last - 1) PROVE n[k].event # n[at].event
    <3>1. k \in 1..Len(t) /\ ~(k <= at)
      BY <2>1, <1>1
    <3> QED  BY <2>1, <3>1, <1>1, <1>2
  <2>4. ~Registry!Counts(n, at)
    BY <2>1, <2>2, <2>3 DEF Registry!Counts
  <2>5. ASSUME NEW j \in (at + 1)..Len(t) PROVE t[j].event # t[at].event
    <3>1. j \in 1..Len(t) /\ ~(j <= at)
      BY <2>1, <1>1
    <3> QED  BY <3>1, <1>2
  <2>6. Registry!Counts(t, at)
    BY <2>5 DEF Registry!Counts
  <2> QED  BY <2>4, <2>6
<1>6. at # 0 /\ t[at] \in T => at \in A
  BY <1>2, <1>5 DEF Counting
<1>7. B = IF e \in T THEN kept \union {last} ELSE kept
  <2>1. \A i \in 1..Len(t) : i \in B <=> i \in kept
    BY <1>1, <1>2, <1>4, <1>5 DEF Counting
  <2>2. last \in B <=> e \in T
    BY <1>1, <1>3 DEF Counting
  <2>3. B \subseteq 1..last /\ kept \subseteq 1..Len(t)
    BY <1>1 DEF Counting
  <2>4. 1..last = (1..Len(t)) \union {last}
    BY <1>1
  <2>5. last \notin kept
    BY <2>3, <1>1
  <2> HIDE DEF A, B, kept, last
  <2>6. \A x : x \in B <=> x \in kept \/ (x = last /\ e \in T)
    BY <2>1, <2>2, <2>3, <2>4, <2>5
  <2>7. CASE e \in T
    BY <2>6, <2>7
  <2>8. CASE e \notin T
    BY <2>6, <2>8
  <2> QED  BY <2>7, <2>8
<1>8. IsFiniteSet(A) /\ Cardinality(A) \in Nat
  BY CountingIsFinite
<1>9. last \notin A /\ last \notin kept
  BY <1>1 DEF Counting
<1> HIDE DEF A, B, last
<1>10. /\ IsFiniteSet(kept)
       /\ Cardinality(kept) = IF at # 0 /\ t[at] \in T THEN Cardinality(A) - 1
                              ELSE Cardinality(A)
  BY <1>6, <1>8, FS_RemoveElement
<1>11. at # 0 /\ t[at] \in T => Cardinality(A) > 0
  BY <1>6, <1>8, FS_EmptySet
<1> HIDE DEF kept
<1>12. Cardinality(B) = Cardinality(kept) + (IF e \in T THEN 1 ELSE 0)
  <2>1. Cardinality(kept) \in Nat
    BY <1>10, FS_CardinalityType
  <2>2. IsFiniteSet(kept) /\ last \notin kept
    BY <1>9, <1>10
  <2>3. Cardinality(kept \union {last}) = Cardinality(kept) + 1
    BY <2>2, FS_AddElement
  <2> QED  BY <1>7, <2>1, <2>3
<1> QED  BY <1>10, <1>11, <1>12 DEF A, B, n, at
\* A session's record after a step that put a record somewhere.
LEMMA OfMoves ==
  ASSUME NEW s \in Sessions, NEW rec, RegistryMoves(registry, registry', s, rec)
  PROVE  /\ Registry!Of(registry', s) = rec
         /\ \A u \in Sessions \ {s} :
              Registry!Of(registry', u) \in {Registry!Of(registry, u), Registry!Blank}
<1>1. rec # Absent /\ registry'.by[s] = rec
  BY MarkAssumption DEF RegistryMoves
<1> QED  BY <1>1 DEF RegistryMoves, Registry!Of

SameCounters(old, new) ==
  /\ new.high = old.high /\ new.dist = old.dist
  /\ new.timeline = old.timeline /\ new.scrolled = old.scrolled

\* What a step that is not a request's own does to the record of any session.
Undisturbed(u) ==
  \/ SameCounters(Registry!Of(registry, u), Registry!Of(registry', u))
  \/ Registry!Of(registry', u) = Registry!Blank

\* What is done to one session's record leaves another's, or evicts it.
LEMMA MovesUndisturbed ==
  ASSUME NEW s \in Sessions, NEW u \in Sessions, NEW rec,
         RegistryMoves(registry, registry', s, rec),
         u = s => SameCounters(Registry!Of(registry, s), rec)
  PROVE  Undisturbed(u)
BY OfMoves DEF Undisturbed, SameCounters

\* The steps that record nothing leave every session's counters alone.
LEMMA OthersUndisturbed ==
  ASSUME TablesInv, NEW u \in Sessions,
         \/ \E r \in Requests : Passes(r) \/ Analyse(r) \/ AnalysisFails(r)
         \/ \E s \in Sessions :
              ReleaseLock(s) \/ ReleaseQuarantine(s) \/ Query(s) \/ EffectResult(s)
         \/ Tick
         \/ UNCHANGED vars
  PROVE  Undisturbed(u)
<1>1. CASE UNCHANGED registry
  BY <1>1 DEF Undisturbed, SameCounters, Registry!Of
<1>2. ASSUME NEW r \in Requests, Analyse(r) PROVE Undisturbed(u)
  BY <1>2, AnalyseMoves, TableMoves, MovesUndisturbed DEF SameCounters
<1>3. ASSUME NEW s \in Sessions, EffectResult(s) PROVE Undisturbed(u)
  BY <1>3, OtherMoves, MovesUndisturbed DEF SameCounters
<1>4. ASSUME NEW s \in Sessions, ReleaseQuarantine(s) PROVE Undisturbed(u)
  <2> DEFINE old == registry.by[s]
             new == [old EXCEPT !.quarantine = "released"]
  <2>1. old \in Registry!Records /\ RegistryMoves(registry, registry', s, new)
    BY <1>4, OtherMoves
  <2>2. Registry!Of(registry, s) = old
    BY <2>1, MarkAssumption DEF Registry!Of
  <2>3. SameCounters(old, new)
    BY <2>1 DEF Registry!Records, SameCounters
  <2> HIDE DEF old, new
  <2> QED  BY <2>1, <2>2, <2>3, MovesUndisturbed
<1> QED
  BY <1>1, <1>2, <1>3, <1>4
  DEF Passes, AnalysisFails, ReleaseLock, Query, Tick, vars

\* The counters of a record are what counting its timeline gives.
RecountOK(rec) ==
  ~rec.scrolled =>
    /\ rec.high = Cardinality(Counting(rec.timeline, {e \in Registry!Entries : e.high}))
    /\ \A v \in Registry!Verdicts :
         rec.dist[v] = Cardinality(Counting(rec.timeline,
                                     {e \in Registry!Entries : e.verdict = v}))

RecountInv == \A s \in Sessions : RecountOK(Registry!Of(registry, s))

\* Nothing recorded counts as nothing.
LEMMA BlankRecounts == RecountOK(Registry!Blank)
<1>1. \A T : Counting(<<>>, T) = {}
  BY DEF Counting
<1>2. Cardinality({}) = 0
  BY FS_EmptySet
<1> QED  BY <1>1, <1>2 DEF RecountOK, Registry!Blank

\* An entry is added, the one it supersedes taken back: the counters follow.
LEMMA GrownRecounts ==
  ASSUME NEW old \in Registry!Records, RecountOK(old),
         NEW e \in Registry!Entries, NEW scoped \in BOOLEAN
  PROVE  RecountOK(Registry!Grown(old, e, scoped))
<1> DEFINE new == Registry!Grown(old, e, scoped)
           t == old.timeline
           at == Superseded(t, e)
           High1 == {x \in Registry!Entries : x.high}
           Of1(v) == {x \in Registry!Entries : x.verdict = v}
<1> SUFFICES ASSUME ~new.scrolled
             PROVE  /\ new.high = Cardinality(Counting(new.timeline, High1))
                    /\ \A v \in Registry!Verdicts :
                         new.dist[v] = Cardinality(Counting(new.timeline, Of1(v)))
  BY DEF RecountOK
<1>1. /\ t \in Seq(Registry!Entries)
      /\ old.high \in Nat /\ old.dist \in [Registry!Verdicts -> Nat]
  BY DEF Registry!Records
<1>2. /\ ~old.scrolled /\ Len(t) # MaxTimeline
      /\ new.timeline = Registry!Extended(t, e)
      /\ new.high = (IF at # 0 /\ t[at].high /\ old.high > 0
                     THEN old.high - 1 ELSE old.high)
                    + (IF e.high THEN 1 ELSE 0)
      /\ \A v \in Registry!Verdicts :
           new.dist[v] = (IF at # 0 /\ t[at].verdict = v /\ old.dist[v] > 0
                          THEN old.dist[v] - 1 ELSE old.dist[v])
                         + (IF e.verdict = v THEN 1 ELSE 0)
  BY GrownCounters
<1>3. new.timeline = Append(t, e)
  BY <1>1, <1>2, ExtendedEntries
<1>4. /\ old.high = Cardinality(Counting(t, High1))
      /\ \A v \in Registry!Verdicts : old.dist[v] = Cardinality(Counting(t, Of1(v)))
  BY <1>2 DEF RecountOK
<1>5. at # 0 => t[at] \in Registry!Entries
  BY <1>1, MatchNewest, ElementOfSeq DEF Superseded
<1>6. /\ e \in High1 <=> e.high
      /\ at # 0 => (t[at] \in High1 <=> t[at].high)
      /\ \A v : e \in Of1(v) <=> e.verdict = v
      /\ \A v : at # 0 => (t[at] \in Of1(v) <=> t[at].verdict = v)
  BY <1>5
<1> HIDE DEF new, t, at, High1, Of1
<1>7. ASSUME NEW T
      PROVE  LET c == Cardinality(Counting(t, T))
             IN  /\ at # 0 /\ t[at] \in T => c > 0
                 /\ Cardinality(Counting(Append(t, e), T))
                      = (IF at # 0 /\ t[at] \in T THEN c - 1 ELSE c)
                        + (IF e \in T THEN 1 ELSE 0)
  BY <1>1, CountingAppend DEF at
<1>8. new.high = Cardinality(Counting(new.timeline, High1))
  <2> DEFINE c == Cardinality(Counting(t, High1))
  <2>1. /\ at # 0 /\ t[at] \in High1 => c > 0
        /\ Cardinality(Counting(Append(t, e), High1))
             = (IF at # 0 /\ t[at] \in High1 THEN c - 1 ELSE c)
               + (IF e \in High1 THEN 1 ELSE 0)
    BY <1>7
  <2> HIDE DEF c
  <2>2. c = old.high
    BY <1>4 DEF c
  <2> QED  BY <2>1, <2>2, <1>2, <1>3, <1>6
<1>9. ASSUME NEW v \in Registry!Verdicts
      PROVE  new.dist[v] = Cardinality(Counting(new.timeline, Of1(v)))
  <2> DEFINE c == Cardinality(Counting(t, Of1(v)))
  <2>1. /\ at # 0 /\ t[at] \in Of1(v) => c > 0
        /\ Cardinality(Counting(Append(t, e), Of1(v)))
             = (IF at # 0 /\ t[at] \in Of1(v) THEN c - 1 ELSE c)
               + (IF e \in Of1(v) THEN 1 ELSE 0)
    BY <1>7
  <2> HIDE DEF c
  <2>2. c = old.dist[v]
    BY <1>4 DEF c
  <2> QED  BY <2>1, <2>2, <1>2, <1>3, <1>6
<1> QED  BY <1>8, <1>9

\* Every step keeps the counters equal to a recount of the timeline.
LEMMA NextRecount ==
  ASSUME TablesInv, RecountInv, [Next]_vars, NEW u \in Sessions
  PROVE  RecountOK(Registry!Of(registry', u))
<1>0. RecountOK(Registry!Of(registry, u)) /\ RegistryOK(registry)
  BY DEF RecountInv, TablesInv
<1>1. ASSUME NEW s \in Sessions, NEW e \in Registry!Entries, NEW scoped \in BOOLEAN,
             RegistryMoves(registry, registry', s,
               Registry!Grown(Registry!Of(registry, s), e, scoped))
      PROVE  RecountOK(Registry!Of(registry', u))
  <2>1. CASE u = s
    BY <1>0, <1>1, <2>1, OfMoves, OfIsRecord, GrownRecounts
  <2>2. CASE u # s
    BY <1>0, <1>1, <2>2, OfMoves, BlankRecounts
  <2> QED  BY <2>1, <2>2
<1>2. CASE Undisturbed(u)
  BY <1>0, <1>2, BlankRecounts DEF Undisturbed, SameCounters, RecountOK
<1>3. ASSUME NEW r \in Requests, Concludes(r)
      PROVE  RecountOK(Registry!Of(registry', u))
  BY <1>1, <1>3, ConcludesMoves, TableMoves
<1>4. ASSUME NEW r \in Requests, Resume(r)
      PROVE  RecountOK(Registry!Of(registry', u))
  BY <1>1, <1>4, ResumeMoves, TableMoves
<1> QED  BY <1>2, <1>3, <1>4, NextSteps, OthersUndisturbed

\* The counters that lock a session, kept step by step, are what counting its
\* timeline gives, as long as nothing has scrolled out of it: whatever retries of
\* an event meet each other's entries.
THEOREM CountersRecount == Spec => []CountersMatchTimeline
<1>1. Init => RecountInv
  BY BlankRecounts DEF Init, RecountInv, Registry!NoSession, Registry!Of
<1>2. TablesInv /\ RecountInv /\ [Next]_vars => RecountInv'
  BY NextRecount DEF RecountInv
<1>3. TablesInv /\ RecountInv => CountersMatchTimeline
  <2>1. \A S : Registry!Cardinality(S) = Cardinality(S)
    BY DEF Registry!Cardinality, Cardinality
  <2> SUFFICES ASSUME TablesInv, RecountInv, NEW s \in Sessions,
                      registry.by[s] # Absent, ~registry.by[s].scrolled
               PROVE  LET rec == registry.by[s]
                      IN  /\ rec.high = Registry!Recount(rec.timeline, LAMBDA e : e.high)
                          /\ \A v \in Registry!Verdicts :
                               rec.dist[v] = Registry!Recount(rec.timeline,
                                               LAMBDA e : e.verdict = v)
    BY DEF CountersMatchTimeline, Registry!CountersMatchTimeline, Registry!Known
  <2> DEFINE rec == registry.by[s]
             t == rec.timeline
  <2>2. rec = Registry!Of(registry, s) /\ rec \in Registry!Records
    BY DEF Registry!Of, TablesInv, RegistryOK, IsTable
  <2>3. RecountOK(rec) /\ t \in Seq(Registry!Entries)
    BY <2>2 DEF RecountInv, Registry!Records
  <2>4. \A i \in 1..Len(t) : t[i] \in Registry!Entries
    BY <2>3, ElementOfSeq
  <2>5. Registry!Recount(t, LAMBDA e : e.high)
          = Cardinality(Counting(t, {e \in Registry!Entries : e.high}))
    <3>1. {i \in 1..Len(t) : Registry!Counts(t, i) /\ t[i].high}
            = Counting(t, {e \in Registry!Entries : e.high})
      BY <2>4 DEF Counting
    <3> QED  BY <3>1, <2>1 DEF Registry!Recount
  <2>6. ASSUME NEW v \in Registry!Verdicts
        PROVE  Registry!Recount(t, LAMBDA e : e.verdict = v)
                 = Cardinality(Counting(t, {e \in Registry!Entries : e.verdict = v}))
    <3>1. {i \in 1..Len(t) : Registry!Counts(t, i) /\ t[i].verdict = v}
            = Counting(t, {e \in Registry!Entries : e.verdict = v})
      BY <2>4 DEF Counting
    <3> QED  BY <3>1, <2>1 DEF Registry!Recount
  <2> QED  BY <2>3, <2>5, <2>6 DEF RecountOK
<1> QED  BY <1>1, <1>2, <1>3, TablesStay, PTL DEF Spec
-----------------------------------------------------------------------------
(* Who a lock is due to. *)

Started(r) == stage[r] \notin {"new", "recognising"}

\* A request that has not been recorded has no risk and no output in work, and an
\* output is in work or found, never both.
PhaseInv ==
  /\ stage \in [Requests -> {"new", "recognising", "waiting", "done"}]
  /\ risk \in [Requests -> Levels \union {"unknown"}]
  /\ \A r \in Requests :
       /\ ~Started(r) => risk[r] = "unknown"
       /\ stage[r] = "waiting" => risk[r] # "unknown"
       /\ r \in analysing \union found => Started(r)
  /\ analysing \intersect found = {}

\* Every step keeps a request's risk and output in line with its stage.
LEMMA NextPhase ==
  ASSUME TablesInv, PhaseInv, [Next]_vars
  PROVE  PhaseInv'
<1>1. ASSUME NEW r \in Requests, Concludes(r) PROVE PhaseInv'
  <2>1. PICK level \in Levels, ask \in BOOLEAN :
          /\ risk' = [risk EXCEPT ![r] = level]
          /\ stage' = [stage EXCEPT ![r] = IF ask THEN "waiting" ELSE "done"]
          /\ analysing' = IF r \in Outputs THEN analysing \union {r} ELSE analysing
          /\ found' = found
    BY <1>1, ConcludesMoves
  <2>2. ~Started(r)
    BY <1>1 DEF Concludes, Started
  <2> QED  BY <2>1, <2>2 DEF PhaseInv, Started, Levels
<1>2. ASSUME NEW r \in Requests, Passes(r) PROVE PhaseInv'
  BY <1>2 DEF Passes, PhaseInv, Started
<1>3. ASSUME NEW r \in Requests, Resume(r) PROVE PhaseInv'
  BY <1>3 DEF Resume, PhaseInv, Started
<1>4. ASSUME NEW r \in Requests, Analyse(r) PROVE PhaseInv'
  BY <1>4 DEF Analyse, PhaseInv, Started
<1>5. ASSUME NEW r \in Requests, AnalysisFails(r) PROVE PhaseInv'
  BY <1>5 DEF AnalysisFails, PhaseInv, Started
<1>6. CASE UNCHANGED <<stage, risk, analysing, found>>
  BY <1>6 DEF PhaseInv, Started
<1> QED
  BY <1>1, <1>2, <1>3, <1>4, <1>5, <1>6, NextSteps
  DEF ReleaseLock, ReleaseQuarantine, Query, EffectResult, Tick, vars

\* The following are about given risks f, stages g and a timeline t: the requests
\* of a session with a high risk, those whose event was tried again, and whom a
\* counter may count once and who, being tried again, twice.
HighOf(f, s) == {r \in Requests : SessionOf[r] = s /\ f[r] = "high"}

TriedAgain(f, r, s) ==
  \E q \in Requests \ {r} :
    SessionOf[q] = s /\ EventOf[q] = EventOf[r] /\ f[q] # "unknown"

Mentions(t, e) == \E i \in 1..Len(t) : t[i].event = e

Once(f, g, t, s) ==
  {r \in HighOf(f, s) :
     g[r] = "waiting" /\ ~TriedAgain(f, r, s) => Mentions(t, EventOf[r])}

Twice(f, g, s) ==
  {r \in HighOf(f, s) : TriedAgain(f, r, s) /\ g[r] # "waiting"}

\* Every entry is of a recorded request of the session, and as high as its risk.
AuthorsOK(f, rec, s) ==
  \A i \in 1..Len(rec.timeline) :
    \E q \in Requests :
      /\ SessionOf[q] = s /\ f[q] # "unknown"
      /\ EventOf[q] = rec.timeline[i].event
      /\ rec.timeline[i].high = (f[q] = "high")

CountOK(f, g, rec, s) ==
  ~rec.scrolled =>
    rec.high <= Cardinality(Once(f, g, rec.timeline, s)) + Cardinality(Twice(f, g, s))

GroundInv ==
  \A s \in Sessions :
    /\ AuthorsOK(risk, Registry!Of(registry, s), s)
    /\ CountOK(risk, stage, Registry!Of(registry, s), s)

\* A set of requests is finite and has a size.
LEMMA RequestSets ==
  ASSUME NEW S, S \subseteq Requests
  PROVE  IsFiniteSet(S) /\ Cardinality(S) \in Nat
BY RegistryAssumption, FS_Subset, FS_CardinalityType

\* The two sets a counter is bounded by have sizes.
LEMMA OnceFinite ==
  ASSUME NEW f, NEW g, NEW t, NEW s
  PROVE  /\ IsFiniteSet(Once(f, g, t, s)) /\ Cardinality(Once(f, g, t, s)) \in Nat
         /\ IsFiniteSet(Twice(f, g, s)) /\ Cardinality(Twice(f, g, s)) \in Nat
<1>1. Once(f, g, t, s) \subseteq Requests /\ Twice(f, g, s) \subseteq Requests
  BY DEF Once, Twice, HighOf
<1> QED  BY <1>1, RequestSets

\* Nothing recorded, nothing counted.
LEMMA BlankGrounded ==
  ASSUME NEW f, NEW g, NEW s
  PROVE  AuthorsOK(f, Registry!Blank, s) /\ CountOK(f, g, Registry!Blank, s)
<1>1. Registry!Blank.high = 0 /\ Registry!Blank.timeline = <<>>
  BY DEF Registry!Blank
<1>2. AuthorsOK(f, Registry!Blank, s)
  BY <1>1 DEF AuthorsOK
<1>3. CountOK(f, g, Registry!Blank, s)
  BY <1>1, OnceFinite DEF CountOK
<1> QED  BY <1>2, <1>3

\* A session none of whose requests was recorded or resumed.
LEMMA SameGrounded ==
  ASSUME NEW f, NEW g, NEW f2, NEW g2, NEW s, NEW rec, NEW rec2,
         AuthorsOK(f, rec, s), CountOK(f, g, rec, s),
         rec2.high = rec.high, rec2.timeline = rec.timeline,
         rec2.scrolled = rec.scrolled,
         \A q \in Requests : SessionOf[q] = s =>
           f2[q] = f[q] /\ (f[q] = "high" => g2[q] = g[q])
  PROVE  AuthorsOK(f2, rec2, s) /\ CountOK(f2, g2, rec2, s)
<1>1. AuthorsOK(f2, rec2, s)
  BY DEF AuthorsOK
<1>2. HighOf(f2, s) = HighOf(f, s)
  BY DEF HighOf
<1>3. \A r : TriedAgain(f2, r, s) <=> TriedAgain(f, r, s)
  BY DEF TriedAgain
<1>4. Once(f2, g2, rec2.timeline, s) = Once(f, g, rec.timeline, s)
  BY <1>2, <1>3 DEF Once, HighOf
<1>5. Twice(f2, g2, s) = Twice(f, g, s)
  BY <1>2, <1>3 DEF Twice, HighOf
<1> QED  BY <1>1, <1>4, <1>5 DEF CountOK

\* Sets that only grow, one of them by a new member.
LEMMA OneMore ==
  ASSUME NEW A \in SUBSET Requests, NEW B \in SUBSET Requests,
         NEW A2 \in SUBSET Requests, NEW B2 \in SUBSET Requests,
         A \subseteq A2, B \subseteq B2
  PROVE  /\ Cardinality(A) + Cardinality(B) <= Cardinality(A2) + Cardinality(B2)
         /\ \A r : r \in (A2 \ A) \union (B2 \ B) =>
              Cardinality(A) + Cardinality(B) + 1 <= Cardinality(A2) + Cardinality(B2)
<1>1. \A S \in SUBSET Requests : IsFiniteSet(S) /\ Cardinality(S) \in Nat
  BY RequestSets
<1>2. \A S, T \in SUBSET Requests : S \subseteq T => Cardinality(S) <= Cardinality(T)
  BY <1>1, FS_Subset
<1>3. ASSUME NEW S \in SUBSET Requests, NEW T \in SUBSET Requests, S \subseteq T,
             NEW r \in T \ S
      PROVE  Cardinality(S) + 1 <= Cardinality(T)
  <2>1. /\ S \union {r} \in SUBSET Requests /\ S \union {r} \subseteq T
        /\ IsFiniteSet(S) /\ r \notin S
    BY <1>1, <1>3
  <2>2. Cardinality(S \union {r}) = Cardinality(S) + 1
    BY <2>1, FS_AddElement
  <2> QED  BY <1>2, <2>1, <2>2
<1>4. /\ Cardinality(A) <= Cardinality(A2) /\ Cardinality(B) <= Cardinality(B2)
      /\ Cardinality(A) \in Nat /\ Cardinality(B) \in Nat
      /\ Cardinality(A2) \in Nat /\ Cardinality(B2) \in Nat
  BY <1>1, <1>2
<1>5. ASSUME NEW r \in (A2 \ A) \union (B2 \ B)
      PROVE  Cardinality(A) + Cardinality(B) + 1 <= Cardinality(A2) + Cardinality(B2)
  <2>1. CASE r \in A2 \ A
    <3>1. Cardinality(A) + 1 <= Cardinality(A2)
      BY <1>3, <2>1
    <3> QED  BY <1>4, <3>1
  <2>2. CASE r \in B2 \ B
    <3>1. Cardinality(B) + 1 <= Cardinality(B2)
      BY <1>3, <2>2
    <3> QED  BY <1>4, <3>1
  <2> QED  BY <1>5, <2>1, <2>2
<1> QED  BY <1>4, <1>5

\* The entries of a grown timeline are those that were there and the new one.
LEMMA GrownAuthors ==
  ASSUME NEW f, NEW f2, NEW s, NEW old \in Registry!Records,
         NEW e \in Registry!Entries, NEW scoped \in BOOLEAN, AuthorsOK(f, old, s),
         \A q \in Requests : f[q] # "unknown" => f2[q] = f[q],
         NEW r \in Requests, SessionOf[r] = s, f2[r] # "unknown",
         e.event = EventOf[r], e.high = (f2[r] = "high")
  PROVE  AuthorsOK(f2, Registry!Grown(old, e, scoped), s)
<1> DEFINE t == old.timeline
           n == Registry!Grown(old, e, scoped).timeline
<1>1. t \in Seq(Registry!Entries)
  BY DEF Registry!Records
<1>2. n = Registry!Extended(t, e)
  BY GrownCounters
<1>3. \A i \in 1..Len(n) : n[i] = e \/ \E j \in 1..Len(t) : n[i] = t[j]
  BY <1>1, <1>2, ExtendedEntries
<1>4. \A j \in 1..Len(t) : \E q \in Requests :
        /\ SessionOf[q] = s /\ f[q] # "unknown"
        /\ EventOf[q] = t[j].event /\ t[j].high = (f[q] = "high")
  BY DEF AuthorsOK
<1> HIDE DEF t, n
<1>5. \A i \in 1..Len(n) : \E q \in Requests :
        /\ SessionOf[q] = s /\ f2[q] # "unknown"
        /\ EventOf[q] = n[i].event /\ n[i].high = (f2[q] = "high")
  <2> SUFFICES ASSUME NEW i \in 1..Len(n)
               PROVE  \E q \in Requests :
                        /\ SessionOf[q] = s /\ f2[q] # "unknown"
                        /\ EventOf[q] = n[i].event /\ n[i].high = (f2[q] = "high")
    OBVIOUS
  <2>1. CASE n[i] = e
    BY <2>1
  <2>2. ASSUME NEW j \in 1..Len(t), n[i] = t[j]
        PROVE  \E q \in Requests :
                 /\ SessionOf[q] = s /\ f2[q] # "unknown"
                 /\ EventOf[q] = n[i].event /\ n[i].high = (f2[q] = "high")
    <3>1. PICK q \in Requests :
            /\ SessionOf[q] = s /\ f[q] # "unknown"
            /\ EventOf[q] = t[j].event /\ t[j].high = (f[q] = "high")
      BY <1>4
    <3>2. f2[q] = f[q]
      BY <3>1
    <3> QED  BY <2>2, <3>1, <3>2
  <2> QED  BY <1>3, <2>1, <2>2
<1> QED  BY <1>5 DEF AuthorsOK, n

\* A request is recorded: it is counted once, if its risk is high.
LEMMA ConcludeGrounded ==
  ASSUME NEW f, NEW g, NEW f2, NEW g2, NEW r \in Requests, NEW s,
         NEW old \in Registry!Records,
         NEW e \in Registry!Entries, NEW scoped \in BOOLEAN,
         CountOK(f, g, old, s), SessionOf[r] = s,
         f[r] = "unknown",
         \A q \in Requests \ {r} : f2[q] = f[q] /\ g2[q] = g[q],
         e.event = EventOf[r], e.high = (f2[r] = "high"), ~e.resolves
  PROVE  CountOK(f2, g2, Registry!Grown(old, e, scoped), s)
<1> DEFINE new == Registry!Grown(old, e, scoped)
           t == old.timeline
           n == new.timeline
           A == Once(f, g, t, s)
           B == Twice(f, g, s)
           A2 == Once(f2, g2, n, s)
           B2 == Twice(f2, g2, s)
<1> SUFFICES ASSUME ~new.scrolled
             PROVE  new.high <= Cardinality(A2) + Cardinality(B2)
  BY DEF CountOK
<1>1. t \in Seq(Registry!Entries) /\ old.high \in Nat
  BY DEF Registry!Records
<1>2. /\ ~old.scrolled /\ n = Append(t, e)
      /\ new.high = old.high + (IF e.high THEN 1 ELSE 0)
  BY <1>1, GrownCounters, ExtendedEntries DEF Superseded
<1>3. /\ Len(n) = Len(t) + 1 /\ Len(t) \in Nat /\ n[Len(t) + 1] = e
      /\ \A i \in 1..Len(t) : n[i] = t[i]
  BY <1>1, <1>2, AppendProperties, LenProperties
<1>4. old.high <= Cardinality(A) + Cardinality(B)
  BY <1>2 DEF CountOK
<1> HIDE DEF new, t, n
<1>5. \A x : Mentions(t, x) => Mentions(n, x)
  <2> SUFFICES ASSUME NEW x, NEW i \in 1..Len(t), t[i].event = x
               PROVE  \E j \in 1..Len(n) : n[j].event = x
    BY DEF Mentions
  <2>1. i \in 1..Len(n)
    BY <1>3
  <2> QED  BY <2>1, <1>3
<1>6. Mentions(n, EventOf[r])
  <2>1. Len(t) + 1 \in 1..Len(n)
    BY <1>3
  <2> QED  BY <2>1, <1>3 DEF Mentions
<1>7. \A q \in Requests : TriedAgain(f, q, s) => TriedAgain(f2, q, s)
  BY DEF TriedAgain
<1>8. \A q \in HighOf(f, s) : q # r /\ q \in HighOf(f2, s) /\ g2[q] = g[q]
  BY DEF HighOf
<1>9. A \subseteq A2
  BY <1>5, <1>7, <1>8 DEF Once, HighOf
<1>10. B \subseteq B2
  BY <1>7, <1>8 DEF Twice, HighOf
<1>11. e.high => r \in A2 \ A
  BY <1>6 DEF Once, HighOf
<1>12. /\ A \in SUBSET Requests /\ B \in SUBSET Requests
       /\ A2 \in SUBSET Requests /\ B2 \in SUBSET Requests
  BY DEF Once, Twice, HighOf
<1>13. /\ Cardinality(A) \in Nat /\ Cardinality(B) \in Nat
       /\ Cardinality(A2) \in Nat /\ Cardinality(B2) \in Nat
  BY <1>12, RequestSets
<1> HIDE DEF A, B, A2, B2
<1>14. /\ Cardinality(A) + Cardinality(B) <= Cardinality(A2) + Cardinality(B2)
       /\ e.high => Cardinality(A) + Cardinality(B) + 1 <= Cardinality(A2) + Cardinality(B2)
  BY <1>9, <1>10, <1>11, <1>12, OneMore
<1>15. CASE e.high
  BY <1>1, <1>2, <1>4, <1>13, <1>14, <1>15
<1>16. CASE ~e.high
  BY <1>1, <1>2, <1>4, <1>13, <1>14, <1>16
<1> QED  BY <1>15, <1>16

\* A deferred request is resolved: it takes its own entry back, unless another try
\* of its event came between, and is counted as before.
LEMMA ResumeGrounded ==
  ASSUME NEW f, NEW g, NEW g2, NEW r \in Requests, NEW s,
         NEW old \in Registry!Records,
         NEW e \in Registry!Entries, NEW scoped \in BOOLEAN,
         AuthorsOK(f, old, s), CountOK(f, g, old, s), SessionOf[r] = s,
         f[r] # "unknown", g[r] = "waiting", g2[r] = "done",
         \A q \in Requests \ {r} : g2[q] = g[q],
         e.event = EventOf[r], e.high = (f[r] = "high"), e.resolves = TRUE
  PROVE  CountOK(f, g2, Registry!Grown(old, e, scoped), s)
<1> DEFINE new == Registry!Grown(old, e, scoped)
           t == old.timeline
           n == new.timeline
           at == Superseded(t, e)
           A == Once(f, g, t, s)
           B == Twice(f, g, s)
           A2 == Once(f, g2, n, s)
           B2 == Twice(f, g2, s)
<1> SUFFICES ASSUME ~new.scrolled
             PROVE  new.high <= Cardinality(A2) + Cardinality(B2)
  BY DEF CountOK
<1>1. t \in Seq(Registry!Entries) /\ old.high \in Nat
  BY DEF Registry!Records
<1>2. /\ ~old.scrolled /\ n = Append(t, e)
      /\ new.high = (IF at # 0 /\ t[at].high /\ old.high > 0
                     THEN old.high - 1 ELSE old.high)
                    + (IF e.high THEN 1 ELSE 0)
  BY <1>1, GrownCounters, ExtendedEntries
<1>3. /\ Len(n) = Len(t) + 1 /\ Len(t) \in Nat
      /\ \A i \in 1..Len(t) : n[i] = t[i]
  BY <1>1, <1>2, AppendProperties, LenProperties
<1>4. old.high <= Cardinality(A) + Cardinality(B)
  BY <1>2 DEF CountOK
<1>5. /\ at \in 0..Len(t)
      /\ at = 0 => ~Mentions(t, EventOf[r])
      /\ at # 0 => t[at].event = EventOf[r]
  BY <1>1, MatchNewest DEF Superseded, Mentions
<1>6. at # 0 => \E q \in Requests :
        /\ SessionOf[q] = s /\ f[q] # "unknown"
        /\ EventOf[q] = EventOf[r] /\ t[at].high = (f[q] = "high")
  <2>1. at # 0 => at \in 1..Len(t)
    BY <1>3, <1>5
  <2> QED  BY <2>1, <1>5 DEF AuthorsOK
<1> HIDE DEF new, t, n, at
<1>7. \A x : Mentions(t, x) => Mentions(n, x)
  <2> SUFFICES ASSUME NEW x, NEW i \in 1..Len(t), t[i].event = x
               PROVE  \E j \in 1..Len(n) : n[j].event = x
    BY DEF Mentions
  <2>1. i \in 1..Len(n)
    BY <1>3
  <2> QED  BY <2>1, <1>3
<1>8. A \subseteq A2
  BY <1>7 DEF Once, HighOf
<1>9. B \subseteq B2
  BY DEF Twice, HighOf
<1>10. /\ A \in SUBSET Requests /\ B \in SUBSET Requests
       /\ A2 \in SUBSET Requests /\ B2 \in SUBSET Requests
  BY DEF Once, Twice, HighOf
<1>11. /\ Cardinality(A) \in Nat /\ Cardinality(B) \in Nat
       /\ Cardinality(A2) \in Nat /\ Cardinality(B2) \in Nat
  BY <1>10, RequestSets
<1>12. e.high /\ TriedAgain(f, r, s) => r \in B2 \ B
  BY DEF Twice, HighOf
<1>13. e.high /\ ~TriedAgain(f, r, s) /\ at = 0 => r \in A2 \ A
  BY <1>5 DEF Once, HighOf
<1>14. e.high => r \in A2
  BY DEF Once, HighOf
<1>15. e.high /\ ~TriedAgain(f, r, s) /\ at # 0 => t[at].high
  <2> SUFFICES ASSUME e.high, ~TriedAgain(f, r, s), at # 0
               PROVE  t[at].high
    OBVIOUS
  <2>1. PICK q \in Requests :
          /\ SessionOf[q] = s /\ f[q] # "unknown"
          /\ EventOf[q] = EventOf[r] /\ t[at].high = (f[q] = "high")
    BY <1>6
  <2>2. q = r
    BY <2>1 DEF TriedAgain
  <2> QED  BY <2>1, <2>2
<1> HIDE DEF A, B, A2, B2
<1>16. Cardinality(A) + Cardinality(B) <= Cardinality(A2) + Cardinality(B2)
  BY <1>8, <1>9, <1>10, OneMore
<1>17. CASE ~e.high
  BY <1>1, <1>2, <1>4, <1>11, <1>16, <1>17
<1>18. CASE e.high /\ r \in (A2 \ A) \union (B2 \ B)
  <2>1. Cardinality(A) + Cardinality(B) + 1 <= Cardinality(A2) + Cardinality(B2)
    BY <1>8, <1>9, <1>10, <1>18, OneMore
  <2> QED  BY <2>1, <1>1, <1>2, <1>4, <1>11, <1>18
<1>19. CASE e.high /\ at # 0 /\ t[at].high
  <2>1. new.high = IF old.high > 0 THEN old.high ELSE 1
    BY <1>1, <1>2, <1>19
  <2>2. Cardinality(A2) >= 1
    <3>1. {r} \subseteq A2 /\ IsFiniteSet(A2) /\ Cardinality({r}) = 1
      BY <1>10, <1>14, <1>19, RequestSets, FS_Singleton
    <3>2. Cardinality({r}) <= Cardinality(A2)
      BY <3>1, FS_Subset
    <3> QED  BY <3>1, <3>2, <1>11
  <2> QED  BY <2>1, <2>2, <1>1, <1>4, <1>11, <1>16
<1> QED  BY <1>12, <1>13, <1>15, <1>17, <1>18, <1>19

\* Every step keeps each counter within the requests that account for it.
LEMMA NextGround ==
  ASSUME TablesInv, PhaseInv, GroundInv, [Next]_vars, NEW u \in Sessions
  PROVE  /\ AuthorsOK(risk', Registry!Of(registry', u), u)
         /\ CountOK(risk', stage', Registry!Of(registry', u), u)
<1> DEFINE old == Registry!Of(registry, u)
           new == Registry!Of(registry', u)
           Goal == AuthorsOK(risk', new, u) /\ CountOK(risk', stage', new, u)
<1>0. AuthorsOK(risk, old, u) /\ CountOK(risk, stage, old, u) /\ old \in Registry!Records
  BY OfIsRecord DEF GroundInv, TablesInv
<1>1. CASE new = Registry!Blank
  BY <1>1, BlankGrounded
<1>2. CASE /\ new.high = old.high /\ new.timeline = old.timeline
           /\ new.scrolled = old.scrolled
           /\ \A q \in Requests : SessionOf[q] = u =>
                risk'[q] = risk[q] /\ (risk[q] = "high" => stage'[q] = stage[q])
  <2> DEFINE f2 == risk'
             g2 == stage'
  <2>1. /\ new.high = old.high /\ new.timeline = old.timeline
        /\ new.scrolled = old.scrolled
        /\ \A q \in Requests : SessionOf[q] = u =>
             f2[q] = risk[q] /\ (risk[q] = "high" => g2[q] = stage[q])
    BY <1>2
  <2>2. AuthorsOK(risk, old, u) /\ CountOK(risk, stage, old, u)
    BY <1>0
  <2> HIDE DEF old, new, f2, g2
  <2>3. AuthorsOK(f2, new, u) /\ CountOK(f2, g2, new, u)
    BY <2>1, <2>2, SameGrounded
  <2> QED  BY <2>3 DEF f2, g2, new
<1>3. ASSUME NEW r \in Requests, Concludes(r) PROVE Goal
  <2> DEFINE s == SessionOf[r]
  <2>1. PICK v \in Registry!Verdicts, level \in Levels, scoped \in BOOLEAN,
             ask \in BOOLEAN :
          LET e == Registry!Entry(r, v, level, FALSE)
          IN  /\ e \in Registry!Entries
              /\ RegistryMoves(registry, registry', s,
                   Registry!Grown(Registry!Of(registry, s), e, scoped))
              /\ risk' = [risk EXCEPT ![r] = level]
              /\ stage' = [stage EXCEPT ![r] = IF ask THEN "waiting" ELSE "done"]
    BY <1>3, ConcludesMoves
  <2> DEFINE e == Registry!Entry(r, v, level, FALSE)
  <2>2. /\ e \in Registry!Entries /\ e.event = EventOf[r]
        /\ e.high = (level = "high") /\ e.resolves = FALSE
    <3>1. e \in Registry!Entries
      BY <2>1
    <3> QED  BY <3>1 DEF Registry!Entry
  <2> DEFINE f2 == risk'
             g2 == stage'
  <2>3. /\ f2[r] = level /\ level # "unknown" /\ risk[r] = "unknown"
        /\ \A q \in Requests \ {r} : f2[q] = risk[q] /\ g2[q] = stage[q]
    <3>1. /\ f2 = [risk EXCEPT ![r] = level]
          /\ g2 = [stage EXCEPT ![r] = IF ask THEN "waiting" ELSE "done"]
      BY <2>1
    <3>2. DOMAIN risk = Requests /\ DOMAIN stage = Requests
      BY DEF PhaseInv
    <3>3. level # "unknown"
      BY DEF Levels
    <3>4. risk[r] = "unknown"
      BY <1>3 DEF Concludes, PhaseInv, Started
    <3> QED  BY <3>1, <3>2, <3>3, <3>4
  <2>4. s \in Sessions
    BY TableMoves
  <2>5. CASE u = s
    <3>1. new = Registry!Grown(old, e, scoped)
      BY <2>1, <2>4, <2>5, OfMoves
    <3>2. /\ AuthorsOK(risk, old, u) /\ CountOK(risk, stage, old, u)
          /\ old \in Registry!Records /\ SessionOf[r] = u
      BY <1>0, <2>5
    <3>3. /\ e.high = (f2[r] = "high") /\ f2[r] # "unknown"
          /\ \A q \in Requests : risk[q] # "unknown" => f2[q] = risk[q]
      BY <2>2, <2>3
    <3> HIDE DEF old, new, e, f2, g2
    <3>4. AuthorsOK(f2, Registry!Grown(old, e, scoped), u)
      BY <2>2, <3>2, <3>3, GrownAuthors
    <3>5. CountOK(f2, g2, Registry!Grown(old, e, scoped), u)
      <4>1. e \in Registry!Entries /\ e.event = EventOf[r] /\ ~e.resolves
        BY <2>2
      <4>2. /\ risk[r] = "unknown"
            /\ \A q \in Requests \ {r} : f2[q] = risk[q] /\ g2[q] = stage[q]
        BY <2>3
      <4>3. e.high = (f2[r] = "high")
        BY <3>3
      <4> QED  BY <3>2, <4>1, <4>2, <4>3, ConcludeGrounded, Z3
    <3> QED  BY <3>1, <3>4, <3>5 DEF f2, g2
  <2>6. CASE u # s
    <3>1. new = old \/ new = Registry!Blank
      BY <2>1, <2>4, <2>6, OfMoves
    <3>2. \A q \in Requests : SessionOf[q] = u => q # r
      BY <2>6
    <3> QED  BY <1>1, <1>2, <2>3, <3>1, <3>2
  <2> QED  BY <2>5, <2>6
<1>4. ASSUME NEW r \in Requests, Resume(r) PROVE Goal
  <2> DEFINE s == SessionOf[r]
  <2>1. PICK v \in Registry!Verdicts :
          LET e == Registry!Entry(r, v, risk[r], TRUE)
          IN  /\ e \in Registry!Entries
              /\ RegistryMoves(registry, registry', s,
                   Registry!Grown(Registry!Of(registry, s), e, FALSE))
              /\ stage[r] = "waiting"
              /\ stage' = [stage EXCEPT ![r] = "done"]
              /\ UNCHANGED risk
    BY <1>4, ResumeMoves
  <2> DEFINE e == Registry!Entry(r, v, risk[r], TRUE)
  <2>2. /\ e \in Registry!Entries /\ e.event = EventOf[r]
        /\ e.high = (risk[r] = "high") /\ e.resolves = TRUE
    <3>1. e \in Registry!Entries
      BY <2>1
    <3> QED  BY <3>1 DEF Registry!Entry
  <2> DEFINE g2 == stage'
  <2>3. /\ risk[r] # "unknown" /\ g2[r] = "done" /\ stage[r] = "waiting"
        /\ \A q \in Requests \ {r} : g2[q] = stage[q]
        /\ risk' = risk
    <3>1. g2 = [stage EXCEPT ![r] = "done"] /\ risk' = risk /\ stage[r] = "waiting"
      BY <2>1
    <3>2. DOMAIN stage = Requests
      BY DEF PhaseInv
    <3>3. risk[r] # "unknown"
      BY <3>1 DEF PhaseInv
    <3> QED  BY <3>1, <3>2, <3>3
  <2>4. s \in Sessions
    BY TableMoves
  <2>5. CASE u = s
    <3>1. new = Registry!Grown(old, e, FALSE)
      BY <2>1, <2>4, <2>5, OfMoves
    <3>2. /\ AuthorsOK(risk, old, u) /\ CountOK(risk, stage, old, u)
          /\ old \in Registry!Records /\ SessionOf[r] = u
      BY <1>0, <2>5
    <3> HIDE DEF old, new, e, g2
    <3>3. AuthorsOK(risk, Registry!Grown(old, e, FALSE), u)
      BY <2>2, <2>3, <3>2, GrownAuthors
    <3>4. CountOK(risk, g2, Registry!Grown(old, e, FALSE), u)
      BY <2>2, <2>3, <3>2, ResumeGrounded
    <3> QED  BY <2>3, <3>1, <3>3, <3>4 DEF g2
  <2>6. CASE u # s
    <3>1. new = old \/ new = Registry!Blank
      BY <2>1, <2>4, <2>6, OfMoves
    <3>2. \A q \in Requests : SessionOf[q] = u => q # r
      BY <2>6
    <3> QED  BY <1>1, <1>2, <2>3, <3>1, <3>2
  <2> QED  BY <2>5, <2>6
<1>5. ASSUME Undisturbed(u), risk' = risk,
             \A q \in Requests : risk[q] = "high" => stage'[q] = stage[q]
      PROVE  Goal
  BY <1>1, <1>2, <1>5 DEF Undisturbed, SameCounters
<1>6. ASSUME NEW r \in Requests, Passes(r) PROVE Goal
  <2>1. Undisturbed(u)
    BY <1>6, OthersUndisturbed
  <2>2. /\ risk' = risk
        /\ \A q \in Requests : risk[q] = "high" => stage'[q] = stage[q]
    BY <1>6 DEF Passes, PhaseInv, Started
  <2> QED  BY <1>5, <2>1, <2>2
<1>7. ASSUME Undisturbed(u), UNCHANGED <<risk, stage>> PROVE Goal
  BY <1>5, <1>7
<1>8. ASSUME NEW r \in Requests, Analyse(r) \/ AnalysisFails(r) PROVE Goal
  BY <1>7, <1>8, OthersUndisturbed DEF Analyse, AnalysisFails
<1>9. ASSUME NEW s \in Sessions,
             ReleaseLock(s) \/ ReleaseQuarantine(s) \/ Query(s) \/ EffectResult(s)
      PROVE  Goal
  BY <1>7, <1>9, OthersUndisturbed
  DEF ReleaseLock, ReleaseQuarantine, Query, EffectResult
<1>10. CASE Tick \/ UNCHANGED vars
  BY <1>7, <1>10, OthersUndisturbed DEF Tick, vars
<1> QED  BY <1>3, <1>4, <1>6, <1>8, <1>9, <1>10, NextSteps

\* LockGrounded, of one step.
Grounded(s) ==
  ~Lock!Locked(policy, s) /\ Lock!Locked(policy', s) =>
    \/ \E r \in found' \ found : SessionOf[r] = s
    \/ registry'.by[s].scrolled
    \/ Cardinality(High(s)') + Cardinality(Retried(s)') >= Threshold

\* A session whose counter has come to the threshold has the requests for it.
LEMMA ThresholdGrounded ==
  ASSUME NEW s \in Sessions, TablesInv', GroundInv',
         registry'.by[s] # Absent, registry'.by[s].high >= Threshold
  PROVE  \/ registry'.by[s].scrolled
         \/ Cardinality(High(s)') + Cardinality(Retried(s)') >= Threshold
<1> SUFFICES ASSUME ~registry'.by[s].scrolled
             PROVE  Cardinality(High(s)') + Cardinality(Retried(s)') >= Threshold
  OBVIOUS
<1> DEFINE rec == registry'.by[s]
           A == Once(risk', stage', rec.timeline, s)
           B == Twice(risk', stage', s)
<1>1. rec = Registry!Of(registry', s) /\ rec \in Registry!Records
  BY DEF Registry!Of, TablesInv, RegistryOK, IsTable
<1>2. rec.high <= Cardinality(A) + Cardinality(B) /\ rec.high \in Nat
  BY <1>1 DEF GroundInv, CountOK, Registry!Records
<1>3. A \subseteq High(s)' /\ B \subseteq Retried(s)'
  BY DEF Once, Twice, HighOf, TriedAgain, High, Retried
<1>4. High(s)' \subseteq Requests /\ Retried(s)' \subseteq Requests
  BY DEF High, Retried
<1>5. A \subseteq Requests /\ B \subseteq Requests
  BY <1>3, <1>4
<1> HIDE DEF A, B, rec
<1>6. /\ Cardinality(A) + Cardinality(B)
           <= Cardinality(High(s)') + Cardinality(Retried(s)')
  BY <1>3, <1>4, <1>5, OneMore
<1>7. /\ Cardinality(A) \in Nat /\ Cardinality(B) \in Nat
      /\ Cardinality(High(s)') \in Nat /\ Cardinality(Retried(s)') \in Nat
  BY <1>4, <1>5, RequestSets
<1> QED  BY <1>2, <1>6, <1>7, LockAssumption DEF rec

\* LockGrounded, of one step and one session.
LEMMA NextGrounded ==
  ASSUME TablesInv, PhaseInv, TablesInv', GroundInv', [Next]_vars, NEW s \in Sessions
  PROVE  Grounded(s)
<1>1. ASSUME NEW r \in Requests, Concludes(r) PROVE Grounded(s)
  <2> SUFFICES ASSUME ~Lock!Locked(policy, s), Lock!Locked(policy', s)
               PROVE  \/ registry'.by[s].scrolled
                      \/ Cardinality(High(s)') + Cardinality(Retried(s)') >= Threshold
    BY DEF Grounded
  <2> DEFINE t == SessionOf[r]
  <2>1. PICK v \in Registry!Verdicts, level \in Levels, scoped \in BOOLEAN,
             p \in {policy, Table(r)} :
          LET e == Registry!Entry(r, v, level, FALSE)
          IN  /\ e \in Registry!Entries
              /\ RegistryMoves(registry, registry', t,
                   Registry!Grown(Registry!Of(registry, t), e, scoped))
              /\ LockMoves(p, policy', t)
              /\ Lock!Locked(policy', t) /\ ~Lock!Locked(p, t)
                   => registry'.by[t].high >= Threshold
    BY <1>1, ConcludesMoves
  <2>2. /\ t \in Sessions
        /\ Lock!Locked(Table(r), s) => Lock!Locked(policy, s)
    BY TableMoves DEF DropMoves
  <2>3. ~Lock!Locked(p, s)
    BY <2>1, <2>2
  <2>4. s = t
    BY <2>1, <2>3 DEF LockMoves
  <2>5. registry'.by[s] # Absent /\ registry'.by[s].high >= Threshold
    BY <2>1, <2>3, <2>4, MarkAssumption DEF RegistryMoves
  <2> QED  BY <2>5, ThresholdGrounded
<1>2. ASSUME NEW r \in Requests, Passes(r) PROVE Grounded(s)
  BY <1>2, PassesMoves, TableMoves DEF DropMoves, Grounded
<1>3. CASE UNCHANGED policy
  BY <1>3 DEF Grounded
<1>4. ASSUME NEW r \in Requests, Analyse(r) PROVE Grounded(s)
  <2> SUFFICES ASSUME ~Lock!Locked(policy, s), Lock!Locked(policy', s)
               PROVE  \E q \in found' \ found : SessionOf[q] = s
    BY DEF Grounded
  <2>1. /\ LockMoves(policy, policy', SessionOf[r])
        /\ found' = found \union {r}
    BY <1>4, AnalyseMoves
  <2>2. s = SessionOf[r]
    BY <2>1 DEF LockMoves
  <2>3. r \notin found
    BY <1>4 DEF Analyse, PhaseInv
  <2> QED  BY <2>1, <2>2, <2>3
<1>5. ASSUME NEW t \in Sessions, ReleaseLock(t) \/ Query(t) PROVE Grounded(s)
  BY <1>5, OtherMoves DEF DropMoves, Grounded
<1>6. CASE Tick
  BY <1>6, OlderMoves DEF Tick, TablesInv, Grounded
<1>7. ASSUME NEW r \in Requests, Resume(r) \/ AnalysisFails(r) PROVE Grounded(s)
  BY <1>3, <1>7 DEF Resume, AnalysisFails
<1>8. ASSUME NEW t \in Sessions, ReleaseQuarantine(t) \/ EffectResult(t)
      PROVE  Grounded(s)
  BY <1>3, <1>8 DEF ReleaseQuarantine, EffectResult
<1> QED
  BY <1>1, <1>2, <1>3, <1>4, <1>5, <1>6, <1>7, <1>8, NextSteps DEF vars

\* A session is locked for a finding in one of its outputs, or for as many requests
\* of its own, recorded with a high risk, as the threshold says, each counted once:
\* twice only if its event was tried again, or once its timeline has scrolled.
THEOREM LocksAreGrounded == Spec => LockGrounded
<1>1. Init => PhaseInv /\ GroundInv
  <2>1. Init => PhaseInv
    BY DEF Init, PhaseInv, Started
  <2>2. Init => GroundInv
    BY BlankGrounded DEF Init, GroundInv, Registry!NoSession, Registry!Of
  <2> QED  BY <2>1, <2>2
<1>2. TablesInv /\ PhaseInv /\ GroundInv /\ [Next]_vars => PhaseInv' /\ GroundInv'
  BY NextPhase, NextGround DEF GroundInv
<1>3. TablesInv /\ TablesInv' /\ PhaseInv /\ GroundInv' /\ [Next]_vars =>
        [\A s \in Sessions :
           ~Lock!Locked(policy, s) /\ Lock!Locked(policy', s) =>
             \/ \E r \in found' \ found : SessionOf[r] = s
             \/ registry'.by[s].scrolled
             \/ Cardinality(High(s)') + Cardinality(Retried(s)') >= Threshold]_policy
  BY NextGrounded DEF Grounded
<1>4. Spec => [](PhaseInv /\ GroundInv)
  BY <1>1, <1>2, TablesStay, PTL DEF Spec
<1> QED  BY <1>3, <1>4, TablesStay, PTL DEF Spec, LockGrounded
-----------------------------------------------------------------------------
(* What a lock or a quarantine lets through: nothing but what was in flight before
   it, or what it reviews.  The argument needs neither the counters nor the tables,
   only what a handler has read and where it is. *)

\* Marks that let a request pass or have it reviewed.
Cleared(m) == ~m.quarantined /\ m.lock \in {"none", "l3_require"}

\* What an operator is asked about whatever the marks say.
Passable(r, m) == Cleared(m) \/ r \in Confirms

\* What the scope or benchmark mode lets pass whatever the evaluation says.
Excused(r, m) ==
  \/ Scope[r] = "allow"
  \/ ~m.quarantined /\ m.lock = "defer" /\ DeferBecomes = "allow"

\* A handler that is suspended read marks that do not stand in the way, or waits
\* for an operator's answer to a confirmation; one that has let its request
\* through read such marks too, or the request is excused.
HandlerInv ==
  \A r \in Requests : PreAction(r) =>
    /\ stage[r] \in {"recognising", "waiting"} => Passable(r, seen[r])
    /\ reply[r] = "allow" => Passable(r, seen[r]) \/ Excused(r, seen[r])

FlightInv ==
  /\ DOMAIN stage = Requests /\ DOMAIN seen = Requests /\ DOMAIN reply = Requests
  /\ stage = [r \in Requests |-> stage[r]]
  /\ seen = [r \in Requests |-> seen[r]]
  /\ reply = [r \in Requests |-> reply[r]]
  /\ HandlerInv

-----------------------------------------------------------------------------
\* Nothing is in flight at first.
LEMMA InitFlight == Init => FlightInv
  BY DEF Init, FlightInv, HandlerInv, Passable, Cleared

\* One handler moves on, having read marks that do not stand in its way, and
\* the others stay where they are.
LEMMA OneMoves ==
  ASSUME FlightInv, NEW r \in Requests, NEW m, NEW g, NEW v,
         seen' = [seen EXCEPT ![r] = m],
         stage' = [stage EXCEPT ![r] = g],
         reply' = [reply EXCEPT ![r] = v],
         PreAction(r) =>
           /\ g \in {"recognising", "waiting"} => Passable(r, m)
           /\ v = "allow" => Passable(r, m) \/ Excused(r, m)
  PROVE  FlightInv'
<1>1. /\ DOMAIN stage' = Requests /\ DOMAIN seen' = Requests
      /\ DOMAIN reply' = Requests
      /\ stage' = [q \in Requests |-> stage'[q]]
      /\ seen' = [q \in Requests |-> seen'[q]]
      /\ reply' = [q \in Requests |-> reply'[q]]
  BY DEF FlightInv
<1>2. HandlerInv'
  <2> SUFFICES ASSUME NEW q \in Requests, PreAction(q)
               PROVE  /\ stage'[q] \in {"recognising", "waiting"} => Passable(q, seen'[q])
                      /\ reply'[q] = "allow" =>
                           Passable(q, seen'[q]) \/ Excused(q, seen'[q])
    BY DEF HandlerInv, PreAction, Passable, Cleared, Excused
  <2>1. CASE q = r
    <3>1. stage'[r] = g /\ seen'[r] = m /\ reply'[r] = v
      BY DEF FlightInv
    <3> QED  BY <2>1, <3>1
  <2>2. CASE q # r
    <3>1. stage'[q] = stage[q] /\ seen'[q] = seen[q] /\ reply'[q] = reply[q]
      BY <2>2 DEF FlightInv
    <3> QED  BY <3>1 DEF FlightInv, HandlerInv
  <2> QED  BY <2>1, <2>2
<1> QED  BY <1>1, <1>2 DEF FlightInv

\* No handler moves.
LEMMA NoneMoves ==
  ASSUME FlightInv, UNCHANGED <<stage, seen, reply>>
  PROVE  FlightInv'
BY DEF FlightInv, HandlerInv, PreAction, Passable, Cleared, Excused

\* A verdict is only reached, or an operator asked, as Conclude says.
LEMMA JudgeMoves ==
  ASSUME NEW r \in Requests, NEW p, Judge(r, p)
  PROVE  \E g, v : /\ stage' = [stage EXCEPT ![r] = g]
                   /\ reply' = [reply EXCEPT ![r] = v]
BY DEF Judge, Conclude

LEMMA JudgeCleared ==
  ASSUME FlightInv, NEW r \in Requests, NEW p, NEW m, Judge(r, p),
         seen' = [seen EXCEPT ![r] = m],
         PreAction(r) => Passable(r, m)
  PROVE  FlightInv'
<1>1. PICK g, v : /\ stage' = [stage EXCEPT ![r] = g]
                  /\ reply' = [reply EXCEPT ![r] = v]
  BY JudgeMoves
<1> QED  BY <1>1, OneMoves

\* What the scope and benchmark mode can make of a BLOCK and of a DEFER.
LEMMA SettledBlock ==
  ASSUME NEW r PROVE Settled(r, "block") = "allow" => Scope[r] = "allow"
BY DEF Settled

LEMMA SettledDefer ==
  ASSUME NEW r
  PROVE  Settled(r, "defer") = "allow" => Scope[r] = "allow" \/ DeferBecomes = "allow"
BY DEF Settled

\* A held request is answered at once, or it is a confirmation.
LEMMA HoldMoves ==
  ASSUME FlightInv, NEW r \in Requests, NEW m, NEW v, NEW effect,
         Hold(r, v, effect),
         seen' = [seen EXCEPT ![r] = m],
         Settled(r, v) = "allow" => Passable(r, m) \/ Excused(r, m)
  PROVE  FlightInv'
<1>1. CASE r \in Confirms
  <2>1. \E g, w : /\ stage' = [stage EXCEPT ![r] = g]
                  /\ reply' = [reply EXCEPT ![r] = w]
    BY DEF Hold, Conclude
  <2> QED  BY <1>1, <2>1, OneMoves DEF Passable
<1>2. CASE r \notin Confirms
  <2>1. /\ stage' = [stage EXCEPT ![r] = "done"]
        /\ reply' = [reply EXCEPT ![r] = Settled(r, v)]
    BY <1>2 DEF Hold, Conclude
  <2> QED  BY <2>1, OneMoves
<1> QED  BY <1>1, <1>2

\* A BLOCK of a mark is let through only by the scope, or for a confirmation.
LEMMA BlockMoves ==
  ASSUME FlightInv, NEW r \in Requests, NEW m, NEW effect,
         Hold(r, Observed(r, "block"), effect) \/ Hold(r, "block", effect),
         seen' = [seen EXCEPT ![r] = m]
  PROVE  FlightInv'
<1>1. PICK v : /\ Hold(r, v, effect)
               /\ v = "block" \/ r \in Confirms
  BY DEF Observed
<1>2. Settled(r, v) = "allow" => Passable(r, m) \/ Excused(r, m)
  <2>1. Settled(r, "block") = "allow" => Scope[r] = "allow"
    BY SettledBlock
  <2> QED  BY <1>1, <2>1 DEF Passable, Excused
<1> QED  BY <1>1, <1>2, HoldMoves

\* Every step keeps the invariant.
LEMMA NextFlight == FlightInv /\ [Next]_vars => FlightInv'
<1> SUFFICES ASSUME FlightInv, [Next]_vars PROVE FlightInv'
  OBVIOUS
<1>1. ASSUME NEW r \in Requests, Quarantine(r) PROVE FlightInv'
  <2>1. seen' = [seen EXCEPT ![r] = MarksOf(r)]
    BY <1>1 DEF Quarantine, Arrives
  <2>2. \E effect : Hold(r, Observed(r, "block"), effect) \/ Hold(r, "block", effect)
    BY <1>1 DEF Quarantine
  <2> QED  BY <2>1, <2>2, BlockMoves
<1>2. ASSUME NEW r \in Requests, Enforce(r) PROVE FlightInv'
  <2>1. seen' = [seen EXCEPT ![r] = MarksOf(r)] /\ ~MarksOf(r).quarantined
    BY <1>2 DEF Enforce, Arrives
  <2>2. CASE \E effect : Hold(r, Observed(r, "block"), effect)
    BY <2>1, <2>2, BlockMoves
  <2>3. CASE MarksOf(r).lock \in {"defer", "l3_require"} /\ Hold(r, "defer", FALSE)
    <3>1. Settled(r, "defer") = "allow"
            => Scope[r] = "allow" \/ DeferBecomes = "allow"
      BY SettledDefer
    <3>2. Settled(r, "defer") = "allow"
            => Passable(r, MarksOf(r)) \/ Excused(r, MarksOf(r))
      BY <2>1, <2>3, <3>1 DEF Passable, Cleared, Excused
    <3> QED  BY <2>1, <2>3, <3>2, HoldMoves
  <2>4. CASE MarksOf(r).lock = "l3_require" /\ Judge(r, Table(r))
    <3>1. Passable(r, MarksOf(r))
      BY <2>1, <2>4 DEF Passable, Cleared
    <3> QED  BY <2>1, <2>4, <3>1, JudgeCleared
  <2> QED  BY <1>2, <2>2, <2>3, <2>4 DEF Enforce
<1>3. ASSUME NEW r \in Requests, Evaluate(r) PROVE FlightInv'
  <2>1. seen' = [seen EXCEPT ![r] = MarksOf(r)] /\ Judge(r, Table(r))
    BY <1>3 DEF Evaluate, Arrives
  <2>2. PreAction(r) => Passable(r, MarksOf(r))
    BY <1>3 DEF Evaluate, Held, Passable, Cleared
  <2> QED  BY <2>1, <2>2, JudgeCleared
<1>4. ASSUME NEW r \in Requests, Suspend(r) PROVE FlightInv'
  <2>1. /\ seen' = [seen EXCEPT ![r] = MarksOf(r)]
        /\ stage' = [stage EXCEPT ![r] = "recognising"]
        /\ reply' = [reply EXCEPT ![r] = reply[r]]
    BY <1>4 DEF Suspend, Arrives, FlightInv
  <2>2. Passable(r, MarksOf(r))
    BY <1>4 DEF Suspend, Held, Passable, Cleared
  <2> QED  BY <2>1, <2>2, OneMoves
<1>5. ASSUME NEW r \in Requests, Continue(r) PROVE FlightInv'
  <2>1. seen' = [seen EXCEPT ![r] = seen[r]] /\ Judge(r, policy)
    BY <1>5 DEF Continue, FlightInv
  <2>2. PreAction(r) => Passable(r, seen[r])
    BY <1>5 DEF Continue, FlightInv, HandlerInv
  <2> QED  BY <2>1, <2>2, JudgeCleared
<1>6. ASSUME NEW r \in Requests, EngineFails(r) PROVE FlightInv'
  <2>1. /\ stage' = [stage EXCEPT ![r] = "done"]
        /\ reply' = [reply EXCEPT ![r] = "error"]
    BY <1>6 DEF EngineFails
  <2>2. PICK m : seen' = [seen EXCEPT ![r] = m]
    <3>1. CASE Arrives(r)
      BY <3>1 DEF Arrives
    <3>2. CASE UNCHANGED seen
      <4>1. seen' = [seen EXCEPT ![r] = seen[r]]
        BY <3>2 DEF FlightInv
      <4> QED  BY <4>1
    <3> QED  BY <1>6, <3>1, <3>2 DEF EngineFails
  <2> QED  BY <2>1, <2>2, OneMoves
<1>7. ASSUME NEW r \in Requests, Resume(r) PROVE FlightInv'
  <2>1. PICK v : reply' = [reply EXCEPT ![r] = v]
    BY <1>7 DEF Resume
  <2>2. /\ stage' = [stage EXCEPT ![r] = "done"]
        /\ seen' = [seen EXCEPT ![r] = seen[r]]
    BY <1>7 DEF Resume, FlightInv
  <2>3. PreAction(r) => Passable(r, seen[r])
    BY <1>7 DEF Resume, FlightInv, HandlerInv
  <2> QED  BY <2>1, <2>2, <2>3, OneMoves
<1>8. ASSUME NEW r \in Requests, Background(r) PROVE FlightInv'
  BY <1>8, NoneMoves DEF Background, Analyse, AnalysisFails
<1>9. ASSUME NEW s \in Sessions,
             EffectResult(s) \/ ReleaseLock(s) \/ ReleaseQuarantine(s) \/ Query(s)
      PROVE  FlightInv'
  BY <1>9, NoneMoves DEF EffectResult, ReleaseLock, ReleaseQuarantine, Query
<1>10. CASE Tick
  BY <1>10, NoneMoves DEF Tick
<1>11. CASE UNCHANGED vars
  BY <1>11, NoneMoves DEF vars
<1> QED
  BY <1>1, <1>2, <1>3, <1>4, <1>5, <1>6, <1>7, <1>8, <1>9, <1>10, <1>11
  DEF Next, Handler

\* In every behaviour a pre_action is let through only if its handler read no
\* quarantine and no lock, or one that has it reviewed, or its scope or benchmark
\* mode lets it pass, or it is a confirmation, which sync_decision_flow.py:906 puts
\* before an operator: other than by these, the stale marks of a suspended handler
\* are the only way past a lock or a quarantine.
THEOREM SlipsPastNothing == Spec => []NothingSlipsPast
<1>1. FlightInv => NothingSlipsPast
  BY DEF FlightInv, HandlerInv, NothingSlipsPast, Passable, Cleared, Excused
<1> QED  BY <1>1, InitFlight, NextFlight, PTL DEF Spec
=============================================================================
