-------------------------- MODULE DecisionFlowProofs --------------------------
(***************************************************************************)
(* Proofs about the decision flow, for any attempts, requests, approval    *)
(* ids and configuration of the bridges, and any size of the two tables.   *)
(***************************************************************************)
EXTENDS DecisionFlow, FiniteSetTheorems, TLAPS

Entries ==
  [type : {"decision", "resolution"}, verdict : Verdicts, source : Sources]

\* One answer for each attempt, whatever it is.
ReplyOfEach == reply = [t \in Attempts |-> reply[t]]

FlowTypeOK ==
  /\ stage \in [Attempts -> {"new", "evaluating", "waiting", "done", "failed"}]
  /\ records \in [Attempts -> Seq(Entries)]
  /\ ReplyOfEach

\* What has been written and told where an attempt is.
Placed ==
  \A t \in Attempts :
    /\ stage[t] \in {"new", "evaluating"} => records[t] = <<>>
    /\ stage[t] # "done" => reply[t] = NoReply

Last(t) == records[t][Len(records[t])]

\* An attempt that has records and an answer was told the last of them.
LastTold ==
  \A t \in Attempts : reply[t] # NoReply /\ records[t] # <<>> =>
    Last(t).verdict = reply[t].verdict /\ Last(t).source = reply[t].source

\* An answer is that of an attempt that has records: of this one, or of the
\* one whose answer was in the cache.
TwinTold ==
  \A t \in Attempts : reply[t] # NoReply /\ reply[t].status # "error" =>
    \E u \in Attempts :
      /\ RequestOf[u] = RequestOf[t]
      /\ records[t] # <<>> => u = t
      /\ records[u] # <<>> /\ reply[u] # NoReply
      /\ reply[u].verdict = reply[t].verdict /\ reply[u].source = reply[t].source

AuditInv == FlowTypeOK /\ Placed /\ LastTold /\ TwinTold /\ CacheHonest

-----------------------------------------------------------------------------
(* The cache and the audit trail. *)

\* The cache forgets, or learns the response that is put into it.
LEMMA PutFacts ==
  ASSUME NEW k \in Requests, NEW response, Cache!Put(k, response)
  PROVE  \A r \in Requests :
           store'[r] \in {store[r], NoResponse} \/ (r = k /\ store'[r] = response)
<1>1. CASE Cache!Fresh(k)
  BY <1>1 DEF Cache!Put, Cache!cachevars
<1>2. CASE ~Cache!Fresh(k)
  <2>1. \E gone : Cache!Insert(k, response, gone)
    BY <1>2 DEF Cache!Put
  <2>2. PICK gone : Cache!Insert(k, response, gone)
    BY <2>1
  <2>3. store' = [j \in Requests |-> IF j = k THEN response
                    ELSE IF j \in gone THEN NoResponse ELSE store[j]]
    BY <2>2 DEF Cache!Insert
  <2> QED
    BY <2>3
<1> QED
  BY <1>1, <1>2

\* A lookup forgets at most what has expired.
LEMMA GetFacts ==
  ASSUME NEW k \in Requests, Cache!Get(k)
  PROVE  \A r \in Requests : store'[r] \in {store[r], NoResponse}
BY DEF Cache!Get, Cache!Delete, Cache!cachevars

\* So do the clock and the clean-up.
LEMMA AgesFacts ==
  ASSUME CacheAges
  PROVE  \A r \in Requests : store'[r] \in {store[r], NoResponse}
BY DEF CacheAges, Cache!Cleanup, Cache!Expire, Cache!Delete

\* One more entry, or two, at the end of what an attempt has.
LEMMA AppendedFacts ==
  ASSUME NEW s \in Seq(Entries), NEW a \in Entries
  PROVE  /\ Append(s, a) \in Seq(Entries)
         /\ Len(s) \in Nat /\ Len(Append(s, a)) = Len(s) + 1
         /\ Append(s, a)[Len(s) + 1] = a
         /\ \A i \in 1..Len(s) : Append(s, a)[i] = s[i]
OBVIOUS

\* Two entries where there was none.
LEMMA PairFacts ==
  ASSUME NEW a \in Entries, NEW b \in Entries
  PROVE  /\ <<>> \o <<a, b>> \in Seq(Entries)
         /\ Len(<<>> \o <<a, b>>) = 2
         /\ (<<>> \o <<a, b>>)[1] = a /\ (<<>> \o <<a, b>>)[2] = b
OBVIOUS

\* What the constructors of entries and replies make.
LEMMA EntryFacts ==
  /\ \A v \in Verdicts : /\ Decision(v) \in Entries
                         /\ Decision(v).type = "decision"
                         /\ Decision(v).verdict = v
                         /\ Decision(v).source = "policy"
  /\ \A v \in Verdicts, s \in Sources :
       /\ Resolution(v, s) \in Entries
       /\ Resolution(v, s).type = "resolution"
       /\ Resolution(v, s).verdict = v /\ Resolution(v, s).source = s
  /\ \A v, s : \A status \in {"ok", "late", "error"} :
       /\ Reply(status, v, s) # NoReply
       /\ Reply(status, v, s).status = status
       /\ Reply(status, v, s).verdict = v /\ Reply(status, v, s).source = s
BY DEF Decision, Resolution, Reply, NoReply, Entries, Sources

\* The answer of one attempt changes, or does not.
LEMMA ReplyFacts ==
  ASSUME ReplyOfEach, NEW t \in Attempts
  PROVE  /\ DOMAIN reply = Attempts
         /\ reply = [reply EXCEPT ![t] = reply[t]]
         /\ \A m : reply' = [reply EXCEPT ![t] = m] => ReplyOfEach'
BY DEF ReplyOfEach

-----------------------------------------------------------------------------
(* The answers and the audit trail. *)

\* An attempt that is answered with the last of its records.
LEMMA ToldStep ==
  ASSUME AuditInv, NEW t \in Attempts, stage[t] \in {"evaluating", "waiting"},
         NEW v \in Verdicts, NEW s \in Sources,
         NEW n \in Seq(Entries), n # <<>>,
         n[Len(n)].verdict = v, n[Len(n)].source = s,
         records' = [records EXCEPT ![t] = n], Respond(t, v, s)
  PROVE  AuditInv'
<1> DEFINE resp == [verdict |-> v, source |-> s]
<1>1. /\ RequestOf[t] \in Requests
      /\ resp.verdict = v /\ resp.source = s
  BY FlowAssumption
<1>2. PICK status \in {"ok", "late"} :
        /\ reply' = [reply EXCEPT ![t] = Reply(status, v, s)]
        /\ \A r \in Requests :
             \/ store'[r] \in {store[r], NoResponse}
             \/ status = "ok" /\ r = RequestOf[t] /\ store'[r] = resp
  <2>1. CASE /\ reply' = [reply EXCEPT ![t] = Reply("ok", v, s)]
             /\ Cache!Put(RequestOf[t], resp)
    BY <1>1, <2>1, PutFacts
  <2>2. CASE /\ reply' = [reply EXCEPT ![t] = Reply("late", v, s)]
             /\ UNCHANGED cachevars
    BY <2>2 DEF cachevars
  <2> QED
    BY <2>1, <2>2 DEF Respond
<1> HIDE DEF resp
<1>3. /\ stage' = [stage EXCEPT ![t] = "done"]
      /\ stage \in [Attempts -> {"new", "evaluating", "waiting", "done", "failed"}]
      /\ records \in [Attempts -> Seq(Entries)]
      /\ ReplyOfEach
  BY DEF AuditInv, FlowTypeOK, Respond
<1>4. /\ reply'[t] = Reply(status, v, s)
      /\ records'[t] = n
      /\ stage'[t] = "done"
      /\ \A u \in Attempts \ {t} :
           reply'[u] = reply[u] /\ records'[u] = records[u] /\ stage'[u] = stage[u]
  BY <1>2, <1>3, ReplyFacts
<1>5. /\ reply'[t] # NoReply
      /\ reply'[t].status = status
      /\ reply'[t].verdict = v /\ reply'[t].source = s
  BY <1>4, EntryFacts
<1>6. reply[t] = NoReply
  BY DEF AuditInv, Placed
<1>7. FlowTypeOK'
  BY <1>2, <1>3, ReplyFacts DEF FlowTypeOK
<1>8. Placed'
  BY <1>4 DEF AuditInv, Placed
<1>9. LastTold'
  <2> SUFFICES ASSUME NEW u \in Attempts, (reply[u] # NoReply /\ records[u] # <<>>)'
               PROVE  (Last(u).verdict = reply[u].verdict
                         /\ Last(u).source = reply[u].source)'
    BY DEF LastTold
  <2>1. CASE u = t
    BY <1>4, <1>5, <2>1 DEF Last
  <2>2. CASE u # t
    BY <1>4, <2>2 DEF AuditInv, LastTold, Last
  <2> QED
    BY <2>1, <2>2
<1>10. TwinTold'
  <2> SUFFICES ASSUME NEW x \in Attempts,
                      reply'[x] # NoReply, reply'[x].status # "error"
               PROVE  \E u \in Attempts :
                        /\ RequestOf[u] = RequestOf[x]
                        /\ records'[x] # <<>> => u = x
                        /\ records'[u] # <<>> /\ reply'[u] # NoReply
                        /\ reply'[u].verdict = reply'[x].verdict
                        /\ reply'[u].source = reply'[x].source
    BY DEF TwinTold
  <2>1. CASE x = t
    BY <1>4, <1>5, <2>1
  <2>2. CASE x # t
    <3>1. PICK u \in Attempts :
            /\ RequestOf[u] = RequestOf[x]
            /\ records[x] # <<>> => u = x
            /\ records[u] # <<>> /\ reply[u] # NoReply
            /\ reply[u].verdict = reply[x].verdict
            /\ reply[u].source = reply[x].source
      BY <1>4, <2>2 DEF AuditInv, TwinTold
    <3>2. u # t
      BY <1>6, <3>1
    <3> QED
      BY <1>4, <2>2, <3>1, <3>2
  <2> QED
    BY <2>1, <2>2
<1>11. CacheHonest'
  <2> SUFFICES ASSUME NEW r \in Requests, store'[r] # NoResponse
               PROVE  \E u \in Attempts :
                        /\ RequestOf[u] = r
                        /\ records'[u] # <<>>
                        /\ reply'[u] = Reply("ok", store'[r].verdict, store'[r].source)
    BY DEF CacheHonest, Answers
  <2>1. CASE store'[r] = store[r]
    <3>1. PICK u \in Attempts :
            /\ RequestOf[u] = r
            /\ records[u] # <<>>
            /\ reply[u] = Reply("ok", store[r].verdict, store[r].source)
      BY <2>1 DEF AuditInv, CacheHonest, Answers
    <3>2. u # t
      BY <1>6, <3>1, EntryFacts
    <3> QED
      BY <1>4, <2>1, <3>1, <3>2
  <2>2. CASE status = "ok" /\ r = RequestOf[t] /\ store'[r] = resp
    BY <1>1, <1>4, <2>2
  <2> QED
    BY <1>2, <2>1, <2>2
<1> QED
  BY <1>7, <1>8, <1>9, <1>10, <1>11 DEF AuditInv

\* An attempt that is told nothing, an error, or what the twin of it whose
\* answer was cached was told.
LEMMA UntoldStep ==
  ASSUME AuditInv, NEW t \in Attempts, stage[t] # "done",
         NEW g \in {"new", "evaluating", "waiting", "done", "failed"},
         NEW n \in Seq(Entries), NEW m,
         stage' = [stage EXCEPT ![t] = g],
         records' = [records EXCEPT ![t] = n],
         reply' = [reply EXCEPT ![t] = m],
         g \in {"new", "evaluating"} => n = <<>>,
         g # "done" => m = NoReply,
         m # NoReply => n = <<>>,
         m # NoReply /\ m.status # "error" =>
           \E u \in Attempts :
             /\ RequestOf[u] = RequestOf[t]
             /\ records[u] # <<>> /\ reply[u] # NoReply
             /\ reply[u].verdict = m.verdict /\ reply[u].source = m.source,
         \A r \in Requests : store'[r] \in {store[r], NoResponse}
  PROVE  AuditInv'
<1>1. /\ stage \in [Attempts -> {"new", "evaluating", "waiting", "done", "failed"}]
      /\ records \in [Attempts -> Seq(Entries)]
      /\ ReplyOfEach
      /\ reply[t] = NoReply
  BY DEF AuditInv, FlowTypeOK, Placed
<1>2. /\ reply'[t] = m /\ records'[t] = n /\ stage'[t] = g
      /\ \A u \in Attempts \ {t} :
           reply'[u] = reply[u] /\ records'[u] = records[u] /\ stage'[u] = stage[u]
  BY <1>1, ReplyFacts
<1>3. FlowTypeOK'
  BY <1>1, ReplyFacts DEF FlowTypeOK
<1>4. Placed'
  BY <1>2 DEF AuditInv, Placed
<1>5. LastTold'
  <2> SUFFICES ASSUME NEW u \in Attempts, (reply[u] # NoReply /\ records[u] # <<>>)'
               PROVE  (Last(u).verdict = reply[u].verdict
                         /\ Last(u).source = reply[u].source)'
    BY DEF LastTold
  <2>1. u # t
    BY <1>2
  <2> QED
    BY <1>2, <2>1 DEF AuditInv, LastTold, Last
<1>6. TwinTold'
  <2> SUFFICES ASSUME NEW x \in Attempts,
                      reply'[x] # NoReply, reply'[x].status # "error"
               PROVE  \E u \in Attempts :
                        /\ RequestOf[u] = RequestOf[x]
                        /\ records'[x] # <<>> => u = x
                        /\ records'[u] # <<>> /\ reply'[u] # NoReply
                        /\ reply'[u].verdict = reply'[x].verdict
                        /\ reply'[u].source = reply'[x].source
    BY DEF TwinTold
  <2>1. PICK u \in Attempts :
          /\ RequestOf[u] = RequestOf[x]
          /\ records'[x] # <<>> => u = x
          /\ records[u] # <<>> /\ reply[u] # NoReply
          /\ reply[u].verdict = reply'[x].verdict
          /\ reply[u].source = reply'[x].source
    BY <1>2 DEF AuditInv, TwinTold
  <2>2. u # t
    BY <1>1, <2>1
  <2> QED
    BY <1>2, <2>1, <2>2
<1>7. CacheHonest'
  <2> SUFFICES ASSUME NEW r \in Requests, store'[r] # NoResponse
               PROVE  \E u \in Attempts :
                        /\ RequestOf[u] = r
                        /\ records'[u] # <<>>
                        /\ reply'[u] = Reply("ok", store'[r].verdict, store'[r].source)
    BY DEF CacheHonest, Answers
  <2>1. PICK u \in Attempts :
          /\ RequestOf[u] = r
          /\ records[u] # <<>>
          /\ reply[u] = Reply("ok", store[r].verdict, store[r].source)
    BY DEF AuditInv, CacheHonest, Answers
  <2>2. u # t
    BY <1>1, <2>1, EntryFacts
  <2> QED
    BY <1>2, <2>1, <2>2
<1> QED
  BY <1>3, <1>4, <1>5, <1>6, <1>7 DEF AuditInv

\* The table and the cache alone.
LEMMA QuietAudit ==
  ASSUME AuditInv, UNCHANGED flowvars,
         \A r \in Requests : store'[r] \in {store[r], NoResponse}
  PROVE  AuditInv'
<1>1. stage' = stage /\ records' = records /\ reply' = reply
  BY DEF flowvars
<1>2. FlowTypeOK' /\ Placed' /\ LastTold' /\ TwinTold'
  BY <1>1 DEF AuditInv, FlowTypeOK, ReplyOfEach, Placed, LastTold, Last, TwinTold
<1>3. CacheHonest'
  BY <1>1 DEF AuditInv, CacheHonest, Answers
<1> QED
  BY <1>2, <1>3 DEF AuditInv

\* Whatever a wait returned, the flow makes a verdict and a source of it.
LEMMA VerdictFacts ==
  \A res : Verdict(res) \in Verdicts /\ Source(res) \in Sources
BY DEF Verdict, Source, Verdicts, Sources

\* The initial state has no answers and an empty cache.
THEOREM InitAudit == Init => AuditInv
<1> SUFFICES ASSUME Init PROVE AuditInv
  OBVIOUS
<1>1. /\ stage = [t \in Attempts |-> "new"]
      /\ records = [t \in Attempts |-> <<>>]
      /\ reply = [t \in Attempts |-> NoReply]
      /\ store = [r \in Requests |-> NoResponse]
  BY DEF Init, Cache!CacheInit
<1> QED
  BY <1>1 DEF AuditInv, FlowTypeOK, ReplyOfEach, Placed, LastTold, TwinTold,
               CacheHonest

\* An arrival is answered from the cache, or goes to evaluation.
LEMMA ArriveAudit ==
  ASSUME AuditInv, NEW t \in Attempts, Arrive(t)
  PROVE  AuditInv'
<1> DEFINE r == RequestOf[t]
           m == Reply("ok", store[r].verdict, store[r].source)
<1>1. /\ r \in Requests
      /\ \A x \in Requests : store'[x] \in {store[x], NoResponse}
  BY FlowAssumption, GetFacts DEF Arrive
<1>2. /\ stage[t] = "new"
      /\ records' = records
      /\ records \in [Attempts -> Seq(Entries)]
      /\ records[t] = <<>> /\ reply[t] = NoReply
      /\ ReplyOfEach
  BY DEF Arrive, AuditInv, FlowTypeOK, Placed
<1>3. /\ records' = [records EXCEPT ![t] = <<>>]
      /\ <<>> \in Seq(Entries)
  BY <1>2
<1>4. CASE Cache!Fresh(r)
  <2>1. /\ reply' = [reply EXCEPT ![t] = m]
        /\ stage' = [stage EXCEPT ![t] = "done"]
        /\ store[r] # NoResponse
    BY <1>4 DEF Arrive, Cache!Fresh
  <2>2. PICK u \in Attempts :
          /\ RequestOf[u] = r
          /\ records[u] # <<>>
          /\ reply[u] = m
    BY <1>1, <2>1 DEF AuditInv, CacheHonest, Answers
  <2>3. m # NoReply
    BY EntryFacts
  <2> HIDE DEF m
  <2> QED
    BY <1>1, <1>2, <1>3, <2>1, <2>2, <2>3, UntoldStep
<1>5. CASE ~Cache!Fresh(r)
  <2>1. /\ reply' = [reply EXCEPT ![t] = NoReply]
        /\ stage' = [stage EXCEPT ![t] = "evaluating"]
    BY <1>2, <1>5, ReplyFacts DEF Arrive
  <2> QED
    BY <1>1, <1>2, <1>3, <2>1, UntoldStep
<1> QED
  BY <1>4, <1>5

\* The ends of an evaluation and of a wait that leave the caller without an
\* answer, or with an error, and the start of a wait.
LEMMA UnansweredAudit ==
  ASSUME AuditInv, NEW t \in Attempts,
         EngineFails(t) \/ DecideFails(t) \/ Ask(t) \/ ResumeFails(t)
           \/ Interrupt(t)
  PROVE  AuditInv'
<1>1. /\ records \in [Attempts -> Seq(Entries)]
      /\ ReplyOfEach
      /\ stage[t] \in {"new", "evaluating"} => records[t] = <<>>
      /\ stage[t] # "done" => reply[t] = NoReply
  BY DEF AuditInv, FlowTypeOK, Placed
<1>2. store' = store
  BY DEF EngineFails, DecideFails, Ask, ResumeFails, Interrupt, cachevars
<1>3. CASE EngineFails(t)
  <2> DEFINE m == Reply("error", "block", "system")
  <2>1. /\ stage[t] = "evaluating"
        /\ stage' = [stage EXCEPT ![t] = "done"]
        /\ reply' = [reply EXCEPT ![t] = m]
        /\ records' = [records EXCEPT ![t] = <<>>]
        /\ <<>> \in Seq(Entries)
    BY <1>1, <1>3 DEF EngineFails
  <2>2. m.status = "error"
    BY EntryFacts
  <2> HIDE DEF m
  <2> QED
    BY <1>2, <2>1, <2>2, UntoldStep
<1>4. CASE Ask(t)
  <2> DEFINE n == Append(records[t], Decision("defer"))
  <2>1. n \in Seq(Entries)
    BY <1>1, EntryFacts DEF Verdicts
  <2>2. /\ stage[t] = "evaluating"
        /\ stage' = [stage EXCEPT ![t] = "waiting"]
        /\ reply' = [reply EXCEPT ![t] = NoReply]
        /\ records' = [records EXCEPT ![t] = n]
    BY <1>1, <1>4, ReplyFacts DEF Ask
  <2> HIDE DEF n
  <2> QED
    BY <1>2, <2>1, <2>2, UntoldStep
<1>5. CASE DecideFails(t) \/ ResumeFails(t) \/ Interrupt(t)
  <2>1. /\ stage[t] # "done" /\ reply[t] = NoReply
        /\ stage' = [stage EXCEPT ![t] = "failed"]
        /\ reply' = [reply EXCEPT ![t] = NoReply]
        /\ records' = [records EXCEPT ![t] = records[t]]
        /\ records[t] \in Seq(Entries)
    BY <1>1, <1>5, ReplyFacts DEF DecideFails, ResumeFails, Interrupt
  <2> QED
    BY <1>2, <2>1, UntoldStep
<1> QED
  BY <1>3, <1>4, <1>5

\* The four ways to answer.
LEMMA AnsweredAudit ==
  ASSUME AuditInv, NEW t \in Attempts,
         \/ \E v \in {"allow", "block", "defer"} : Decide(t, v)
         \/ NoRoute(t) \/ QueueFull(t) \/ Resume(t)
  PROVE  AuditInv'
<1>1. /\ records[t] \in Seq(Entries)
      /\ stage[t] \in {"new", "evaluating"} => records[t] = <<>>
  BY DEF AuditInv, FlowTypeOK, Placed
<1>2. CASE \E v \in {"allow", "block", "defer"} : Decide(t, v)
  <2>1. PICK v \in {"allow", "block", "defer"} : Decide(t, v)
    BY <1>2
  <2> DEFINE n == Append(records[t], Decision(v))
  <2>2. v \in Verdicts /\ "policy" \in Sources
    BY DEF Verdicts, Sources
  <2>3. /\ n \in Seq(Entries) /\ n # <<>>
        /\ n[Len(n)] = Decision(v)
    BY <1>1, <2>2, EntryFacts, AppendedFacts
  <2>4. n[Len(n)].verdict = v /\ n[Len(n)].source = "policy"
    BY <2>2, <2>3, EntryFacts
  <2>5. /\ stage[t] = "evaluating" /\ Respond(t, v, "policy")
        /\ records' = [records EXCEPT ![t] = n]
    BY <2>1 DEF Decide
  <2> HIDE DEF n
  <2> QED
    BY <2>2, <2>3, <2>4, <2>5, ToldStep
<1>3. CASE NoRoute(t) \/ QueueFull(t)
  <2>1. PICK s \in Sources :
          /\ stage[t] = "evaluating"
          /\ records' = [records EXCEPT ![t] = records[t] \o
                           <<Decision("defer"), Resolution("block", s)>>]
          /\ Respond(t, "block", s)
    BY <1>3 DEF NoRoute, QueueFull, Sources
  <2> DEFINE a == Decision("defer")
             b == Resolution("block", s)
             n == <<>> \o <<a, b>>
  <2>2. /\ "block" \in Verdicts /\ a \in Entries /\ b \in Entries
        /\ b.verdict = "block" /\ b.source = s
    BY EntryFacts DEF Verdicts
  <2>3. records' = [records EXCEPT ![t] = n]
    BY <1>1, <2>1
  <2> HIDE DEF a, b
  <2>4. n \in Seq(Entries) /\ n # <<>> /\ n[Len(n)] = b
    BY <2>2, PairFacts
  <2> HIDE DEF n
  <2> QED
    BY <2>1, <2>2, <2>3, <2>4, ToldStep
<1>4. CASE Resume(t)
  <2> DEFINE v == Verdict(result'[t])
             s == Source(result'[t])
             n == Append(records[t], Resolution(v, s))
  <2>1. /\ stage[t] = "waiting" /\ Respond(t, v, s)
        /\ records' = [records EXCEPT ![t] = n]
    BY <1>4 DEF Resume
  <2>2. v \in Verdicts /\ s \in Sources
    BY VerdictFacts
  <2> HIDE DEF v, s
  <2>3. /\ n \in Seq(Entries) /\ n # <<>>
        /\ n[Len(n)] = Resolution(v, s)
    BY <1>1, <2>2, EntryFacts, AppendedFacts
  <2>4. n[Len(n)].verdict = v /\ n[Len(n)].source = s
    BY <2>2, <2>3, EntryFacts
  <2> HIDE DEF n
  <2> QED
    BY <2>1, <2>2, <2>3, <2>4, ToldStep
<1> QED
  BY <1>2, <1>3, <1>4

\* Every step of the flow, of the operator, of the timers and of the cache.
THEOREM NextAudit == AuditInv /\ [Next]_vars => AuditInv'
<1> SUFFICES ASSUME AuditInv, [Next]_vars PROVE AuditInv'
  OBVIOUS
<1>1. ASSUME NEW t \in Attempts, Arrive(t) PROVE AuditInv'
  BY <1>1, ArriveAudit
<1>2. ASSUME NEW t \in Attempts, Evaluate(t) PROVE AuditInv'
  BY <1>2, UnansweredAudit, AnsweredAudit DEF Evaluate
<1>3. ASSUME NEW t \in Attempts, Finish(t) \/ Interrupt(t) PROVE AuditInv'
  BY <1>3, UnansweredAudit, AnsweredAudit DEF Finish
<1>4. CASE Operator \/ \E t \in Attempts : Timer(t)
  BY <1>4, QuietAudit DEF Operator, Timer, cachevars
<1>5. CASE CacheAges
  <2>1. UNCHANGED flowvars
    BY <1>5 DEF CacheAges
  <2> QED
    BY <1>5, <2>1, AgesFacts, QuietAudit
<1>6. CASE UNCHANGED vars
  BY <1>6, QuietAudit DEF vars, cachevars
<1> QED
  BY <1>1, <1>2, <1>3, <1>4, <1>5, <1>6 DEF Next, Served

\* Whatever a caller is told is the last record of an attempt of its request.
LEMMA AuditGives == AuditInv => AnswersAudited /\ CacheHonest
<1> SUFFICES ASSUME AuditInv, NEW t \in Attempts,
                    reply[t] # NoReply, reply[t].status # "error"
             PROVE  \E u \in Attempts :
                      /\ RequestOf[u] = RequestOf[t]
                      /\ records[t] # <<>> => u = t
                      /\ records[u] # <<>>
                      /\ Last(u).verdict = reply[t].verdict
                      /\ Last(u).source = reply[t].source
  BY DEF AnswersAudited, AuditInv, Last
<1>1. PICK u \in Attempts :
        /\ RequestOf[u] = RequestOf[t]
        /\ records[t] # <<>> => u = t
        /\ records[u] # <<>> /\ reply[u] # NoReply
        /\ reply[u].verdict = reply[t].verdict
        /\ reply[u].source = reply[t].source
  BY DEF AuditInv, TwinTold
<1>2. Last(u).verdict = reply[u].verdict /\ Last(u).source = reply[u].source
  BY <1>1 DEF AuditInv, LastTold
<1> QED
  BY <1>1, <1>2

\* A caller is told nothing the audit trail does not say last about an attempt
\* of its request, however many attempts run at once and whatever the cache
\* forgets in between (_run_sync_decision_flow, _cache_successful_response).
THEOREM AnswersStand == Spec => []AnswersAudited
<1>1. AuditInv => AnswersAudited
  BY AuditGives
<1> QED
  BY <1>1, InitAudit, NextAudit, PTL DEF Spec

\* What the idempotency cache holds was told in time to a caller whose attempt
\* is in the audit trail (_cache_successful_response).
THEOREM CacheTold == Spec => []CacheHonest
<1>1. AuditInv => CacheHonest
  BY AuditGives
<1> QED
  BY <1>1, InitAudit, NextAudit, PTL DEF Spec

-----------------------------------------------------------------------------
(* The gauge. *)

Waits(t) == Asked(t) /\ stage[t] \in {"waiting", "failed"}

\* Where the approval table has an attempt, by where the flow has it.
PcAt(t) ==
  /\ pc[t] \in {"idle", "refused", "waiting", "returned", "cancelled"}
  /\ stage[t] \in {"new", "evaluating"} => pc[t] = "idle"
  /\ stage[t] = "waiting" => pc[t] = "waiting"
  /\ stage[t] = "done" => pc[t] \in {"idle", "refused", "returned"}
  /\ stage[t] = "failed" => pc[t] \in {"idle", "returned", "cancelled"}

\* What the audit trail has of an attempt that asked.
TrailAt(t) ==
  Asked(t) =>
    /\ Len(records[t]) = IF stage[t] = "done" THEN 2 ELSE 1
    /\ records[t][1].type = "decision"
    /\ stage[t] = "done" => records[t][2].type = "resolution"

\* The whole map, so that an update of one attempt is seen to be one.
PcOfEach == pc = [t \in Attempts |-> pc[t]]

GaugeInv ==
  /\ PcOfEach
  /\ gauge = Cardinality({t \in Attempts : Waits(t)})
  /\ \A t \in Attempts : PcAt(t) /\ TrailAt(t)

FlowInv == AuditInv /\ GaugeInv

\* The step of one attempt, which the gauge follows.
LEMMA GaugeStep ==
  ASSUME GaugeInv, NEW t \in Attempts, PcOfEach',
         \A u \in Attempts \ {t} :
           pc'[u] = pc[u] /\ stage'[u] = stage[u] /\ records'[u] = records[u],
         PcAt(t)', TrailAt(t)',
         \/ (Waits(t) <=> Waits(t)') /\ gauge' = gauge
         \/ ~Waits(t) /\ Waits(t)' /\ gauge' = gauge + 1
         \/ Waits(t) /\ ~Waits(t)' /\ gauge' = gauge - 1
  PROVE  GaugeInv'
<1> DEFINE W == {u \in Attempts : Waits(u)}
           N == {u \in Attempts : Waits(u)'}
<1>1. IsFiniteSet(W)
  BY FlowAssumption, FS_Subset
<1>2. Cardinality(W) \in Nat /\ gauge = Cardinality(W)
  BY <1>1, FS_CardinalityType DEF GaugeInv
<1>3. \A u \in Attempts \ {t} : Waits(u)' <=> Waits(u)
  BY DEF Waits, Asked
<1>4. gauge' = Cardinality(N)
  <2>1. CASE (Waits(t) <=> Waits(t)') /\ gauge' = gauge
    <3>1. N = W
      BY <1>3, <2>1
    <3> QED
      BY <1>2, <2>1, <3>1
  <2>2. CASE ~Waits(t) /\ Waits(t)' /\ gauge' = gauge + 1
    <3>1. N = W \union {t} /\ t \notin W
      BY <1>3, <2>2
    <3> HIDE DEF W, N
    <3> QED
      BY <1>1, <1>2, <2>2, <3>1, FS_AddElement
  <2>3. CASE Waits(t) /\ ~Waits(t)' /\ gauge' = gauge - 1
    <3>1. N = W \ {t} /\ t \in W
      BY <1>3, <2>3
    <3> HIDE DEF W, N
    <3> QED
      BY <1>1, <1>2, <2>3, <3>1, FS_RemoveElement
  <2> QED
    BY <2>1, <2>2, <2>3
<1>5. \A u \in Attempts : (PcAt(u) /\ TrailAt(u))'
  <2> SUFFICES ASSUME NEW u \in Attempts \ {t} PROVE (PcAt(u) /\ TrailAt(u))'
    OBVIOUS
  <2>1. PcAt(u) /\ TrailAt(u)
    BY DEF GaugeInv
  <2> QED
    BY <2>1 DEF PcAt, TrailAt, Asked
<1> QED
  BY <1>4, <1>5 DEF GaugeInv

\* Nothing the gauge depends on.
LEMMA QuietGauge ==
  ASSUME GaugeInv, UNCHANGED flowvars, pc' = pc
  PROVE  GaugeInv'
BY DEF GaugeInv, PcOfEach, Waits, PcAt, TrailAt, Asked, flowvars

\* One attempt goes on to another place of the table.
LEMMA PcFacts ==
  ASSUME PcOfEach, NEW t \in Attempts
  PROVE  /\ pc = [pc EXCEPT ![t] = pc[t]]
         /\ \A p : pc' = [pc EXCEPT ![t] = p] =>
              /\ PcOfEach' /\ pc'[t] = p
              /\ \A u \in Attempts \ {t} : pc'[u] = pc[u]
BY DEF PcOfEach

\* What the table does to the place of an attempt.
LEMMA TableFacts ==
  \A t \in Attempts :
    /\ Table!Register(t) => pc[t] = "idle" /\ pc' = [pc EXCEPT ![t] = "waiting"]
    /\ Table!Refuse(t) => pc[t] = "idle" /\ pc' = [pc EXCEPT ![t] = "refused"]
    /\ Table!WakeResolved(t) \/ Table!WakeTimeout(t) =>
         pc[t] = "waiting" /\ pc' = [pc EXCEPT ![t] = "returned"]
    /\ Table!Cancel(t) => pc[t] = "waiting" /\ pc' = [pc EXCEPT ![t] = "cancelled"]
    /\ Table!TimerFires(t) => pc' = pc
BY DEF Table!Register, Table!Refuse, Table!WakeResolved, Table!WakeTimeout,
       Table!Leave, Table!Cancel, Table!TimerFires

\* An answer of an operator wakes nobody by itself.
LEMMA OperatorFacts == Table!Operator => pc' = pc
BY DEF Table!Operator, Table!Resolve

\* The step of one attempt, by the places it goes to and what it has written.
LEMMA GaugeMove ==
  ASSUME FlowInv, NEW t \in Attempts, NEW g, NEW n, NEW p,
         stage' = [stage EXCEPT ![t] = g],
         records' = [records EXCEPT ![t] = n],
         pc' = [pc EXCEPT ![t] = p],
         \/ g = "evaluating" /\ p = "idle"
         \/ g = "waiting" /\ p = "waiting"
         \/ g = "done" /\ p \in {"idle", "refused", "returned"}
         \/ g = "failed" /\ p \in {"idle", "returned", "cancelled"},
         p \in {"waiting", "returned", "cancelled"} =>
           /\ Len(n) = IF g = "done" THEN 2 ELSE 1
           /\ n[1].type = "decision"
           /\ g = "done" => n[2].type = "resolution",
         LET now == p \in {"waiting", "returned", "cancelled"}
                      /\ g \in {"waiting", "failed"}
         IN  \/ (Waits(t) <=> now) /\ gauge' = gauge
             \/ ~Waits(t) /\ now /\ gauge' = gauge + 1
             \/ Waits(t) /\ ~now /\ gauge' = gauge - 1
  PROVE  GaugeInv'
<1>1. /\ stage \in [Attempts -> {"new", "evaluating", "waiting", "done", "failed"}]
      /\ records \in [Attempts -> Seq(Entries)]
      /\ PcOfEach /\ GaugeInv
  BY DEF FlowInv, AuditInv, FlowTypeOK, GaugeInv
<1>2. /\ PcOfEach' /\ pc'[t] = p
      /\ \A u \in Attempts \ {t} : pc'[u] = pc[u]
  BY <1>1, PcFacts
<1>3. /\ stage'[t] = g /\ records'[t] = n
      /\ \A u \in Attempts \ {t} : stage'[u] = stage[u] /\ records'[u] = records[u]
  BY <1>1
<1>4. PcAt(t)' /\ TrailAt(t)'
  BY <1>2, <1>3 DEF PcAt, TrailAt, Asked
<1>5. Waits(t)' <=> /\ p \in {"waiting", "returned", "cancelled"}
                    /\ g \in {"waiting", "failed"}
  BY <1>2, <1>3 DEF Waits, Asked
<1> QED
  BY <1>1, <1>2, <1>3, <1>4, <1>5, GaugeStep

\* An attempt that never asks, or is refused.
LEMMA UnaskedGauge ==
  ASSUME FlowInv, NEW t \in Attempts,
         \/ Arrive(t) \/ EngineFails(t) \/ DecideFails(t) \/ NoRoute(t)
         \/ QueueFull(t) \/ \E v \in {"allow", "block", "defer"} : Decide(t, v)
  PROVE  GaugeInv'
<1>1. /\ records \in [Attempts -> Seq(Entries)]
      /\ PcOfEach /\ PcAt(t)
  BY DEF FlowInv, AuditInv, FlowTypeOK, GaugeInv
<1>2. stage[t] \in {"new", "evaluating"} /\ gauge' = gauge
  BY DEF Arrive, EngineFails, DecideFails, NoRoute, QueueFull, Decide
<1>3. pc[t] = "idle" /\ ~Waits(t)
  BY <1>1, <1>2 DEF PcAt, Waits, Asked
<1>4. PICK p \in {"idle", "refused"} : pc' = [pc EXCEPT ![t] = p]
  BY <1>1, <1>3, PcFacts, TableFacts
     DEF Arrive, EngineFails, DecideFails, NoRoute, QueueFull, Decide, tablevars
<1>5. PICK g \in {"evaluating", "done", "failed"} : stage' = [stage EXCEPT ![t] = g]
  BY DEF Arrive, EngineFails, DecideFails, NoRoute, QueueFull, Decide, Respond
<1>6. PICK n : records' = [records EXCEPT ![t] = n]
  <2>1. records = [records EXCEPT ![t] = records[t]]
    BY <1>1
  <2> QED
    BY <2>1 DEF Arrive, EngineFails, DecideFails, NoRoute, QueueFull, Decide
<1>7. p = "idle" \/ g = "done"
  <2>1. CASE QueueFull(t)
    <3>1. /\ stage \in [Attempts -> {"new", "evaluating", "waiting", "done", "failed"}]
          /\ stage' = [stage EXCEPT ![t] = "done"]
      BY <2>1 DEF QueueFull, Respond, FlowInv, AuditInv, FlowTypeOK
    <3> QED
      BY <1>5, <3>1
  <2>2. CASE ~QueueFull(t)
    <3>1. pc' = pc
      BY <2>2 DEF Arrive, EngineFails, DecideFails, NoRoute, Decide, tablevars
    <3> QED
      BY <1>1, <1>3, <1>4, <3>1, PcFacts
  <2> QED
    BY <2>1, <2>2
<1>8. g = "failed" => p = "idle"
  BY <1>7
<1> QED
  BY <1>2, <1>3, <1>4, <1>5, <1>6, <1>7, <1>8, GaugeMove

\* An attempt that starts to wait is counted, with its decision recorded.
LEMMA AskGauge ==
  ASSUME FlowInv, NEW t \in Attempts, Ask(t)
  PROVE  GaugeInv'
<1> DEFINE n == Append(records[t], Decision("defer"))
<1>1. /\ records[t] = <<>> /\ records[t] \in Seq(Entries)
      /\ pc[t] = "idle"
      /\ pc' = [pc EXCEPT ![t] = "waiting"]
      /\ stage' = [stage EXCEPT ![t] = "waiting"]
      /\ records' = [records EXCEPT ![t] = n]
      /\ gauge' = gauge + 1
  BY TableFacts DEF Ask, FlowInv, AuditInv, FlowTypeOK, Placed
<1>2. ~Waits(t)
  BY <1>1 DEF Waits, Asked
<1>3. Len(n) = 1 /\ n[1].type = "decision"
  BY <1>1, EntryFacts, AppendedFacts DEF Verdicts
<1> HIDE DEF n
<1> QED
  BY <1>1, <1>2, <1>3, GaugeMove

\* A resolution is recorded after the decision, and the gauge goes down.
LEMMA ResumeGauge ==
  ASSUME FlowInv, NEW t \in Attempts, Resume(t)
  PROVE  GaugeInv'
<1> DEFINE a == Resolution(Verdict(result'[t]), Source(result'[t]))
           n == Append(records[t], a)
<1>1. /\ records[t] \in Seq(Entries)
      /\ stage[t] = "waiting" /\ pc[t] = "waiting"
      /\ pc' = [pc EXCEPT ![t] = "returned"]
      /\ stage' = [stage EXCEPT ![t] = "done"]
      /\ records' = [records EXCEPT ![t] = n]
      /\ gauge' = gauge - 1
      /\ TrailAt(t)
  BY TableFacts DEF Resume, Respond, FlowInv, AuditInv, FlowTypeOK, GaugeInv
<1>2. Waits(t) /\ Len(records[t]) = 1 /\ records[t][1].type = "decision"
  BY <1>1 DEF Waits, Asked, TrailAt
<1>3. a \in Entries /\ a.type = "resolution"
  BY VerdictFacts, EntryFacts
<1> HIDE DEF a
<1>4. /\ Len(n) = 2
      /\ n[1].type = "decision" /\ n[2].type = "resolution"
  <2>1. /\ Len(n) = Len(records[t]) + 1
        /\ n[Len(records[t]) + 1] = a
        /\ \A i \in 1..Len(records[t]) : n[i] = records[t][i]
    BY <1>1, <1>3, AppendedFacts
  <2> HIDE DEF n
  <2>2. Len(n) = 2 /\ n[2] = a
    BY <1>2, <2>1
  <2>3. n[1] = records[t][1]
    BY <1>2, <2>1
  <2> QED
    BY <1>2, <1>3, <2>2, <2>3
<1> HIDE DEF n
<1> QED
  BY <1>1, <1>2, <1>4, GaugeMove

\* A wait that ends in no resolution stays counted, with its decision alone;
\* an interrupted evaluation has never been counted.
LEMMA FailedGauge ==
  ASSUME FlowInv, NEW t \in Attempts, ResumeFails(t) \/ Interrupt(t)
  PROVE  GaugeInv'
<1>1. /\ records \in [Attempts -> Seq(Entries)]
      /\ PcOfEach /\ PcAt(t) /\ TrailAt(t)
  BY DEF FlowInv, AuditInv, FlowTypeOK, GaugeInv
<1>2. /\ stage' = [stage EXCEPT ![t] = "failed"]
      /\ records' = [records EXCEPT ![t] = records[t]]
      /\ gauge' = gauge
  BY <1>1 DEF ResumeFails, Interrupt
<1>3. CASE stage[t] = "evaluating"
  <2>1. pc[t] = "idle" /\ pc' = pc /\ ~Waits(t)
    BY <1>1, <1>3 DEF ResumeFails, Interrupt, PcAt, Waits, Asked, tablevars
  <2>2. pc' = [pc EXCEPT ![t] = "idle"]
    BY <1>1, <2>1, PcFacts
  <2> QED
    BY <1>2, <2>1, <2>2, GaugeMove
<1>4. CASE stage[t] = "waiting"
  <2>1. PICK p \in {"returned", "cancelled"} : pc' = [pc EXCEPT ![t] = p]
    BY <1>4, TableFacts DEF ResumeFails, Interrupt
  <2>2. /\ Waits(t) /\ Len(records[t]) = 1
        /\ records[t][1].type = "decision"
    BY <1>1, <1>4 DEF PcAt, TrailAt, Waits, Asked
  <2> QED
    BY <1>2, <2>1, <2>2, GaugeMove
<1> QED
  BY <1>3, <1>4 DEF ResumeFails, Interrupt

\* The gauge follows every step: a wait is counted when it starts and no longer
\* when it ends in a resolution.
THEOREM NextFlow == FlowInv /\ [Next]_vars => FlowInv'
<1> SUFFICES ASSUME FlowInv, [Next]_vars PROVE FlowInv'
  OBVIOUS
<1>1. AuditInv'
  BY NextAudit DEF FlowInv
<1>2. GaugeInv'
  <2>1. ASSUME NEW t \in Attempts, Arrive(t) \/ Evaluate(t) PROVE GaugeInv'
    BY <2>1, UnaskedGauge, AskGauge DEF Evaluate
  <2>2. ASSUME NEW t \in Attempts, Finish(t) \/ Interrupt(t) PROVE GaugeInv'
    BY <2>2, ResumeGauge, FailedGauge DEF Finish
  <2>3. CASE Operator \/ CacheAges \/ UNCHANGED vars \/ \E t \in Attempts : Timer(t)
    <3>1. pc' = pc /\ UNCHANGED flowvars
      BY <2>3, OperatorFacts, TableFacts
         DEF Operator, CacheAges, Timer, vars, tablevars
    <3> QED
      BY <3>1, QuietGauge DEF FlowInv
  <2> QED
    BY <2>1, <2>2, <2>3 DEF Next, Served
<1> QED
  BY <1>1, <1>2 DEF FlowInv

\* Nothing waits at first.
THEOREM InitFlow == Init => FlowInv
<1> SUFFICES ASSUME Init PROVE FlowInv
  OBVIOUS
<1>1. /\ pc = [t \in Attempts |-> "idle"]
      /\ stage = [t \in Attempts |-> "new"]
      /\ gauge = 0
  BY DEF Init, Table!Init
<1>2. {t \in Attempts : Waits(t)} = {}
  BY <1>1 DEF Waits, Asked
<1>3. gauge = Cardinality({t \in Attempts : Waits(t)})
  BY <1>1, <1>2, FS_EmptySet
<1>4. PcOfEach /\ \A t \in Attempts : PcAt(t) /\ TrailAt(t)
  BY <1>1 DEF PcOfEach, PcAt, TrailAt, Asked
<1> QED
  BY <1>3, <1>4, InitAudit DEF FlowInv, GaugeInv

\* The gauge of pending approvals is exactly the number of waits that have not
\* ended in a resolution, and the audit trail has one decision of every attempt
\* that asked, and one resolution after it once its caller was answered
\* (_run_sync_decision_flow).
THEOREM GaugeCounts == Spec => []GaugeExact
<1>1. FlowInv => GaugeExact
  BY DEF FlowInv, GaugeInv, GaugeExact, Waits, TrailAt
<1> QED
  BY <1>1, InitFlow, NextFlow, PTL DEF Spec

-----------------------------------------------------------------------------
(* The flow on top of the proved approval table: every step of the flow is a step
   of the table or leaves it alone, so that what is proved of the table holds in
   the flow, and what the flow tells a caller can be traced to the answer of an
   operator or to a timeout. *)

Approvals == INSTANCE DeferManagerProofs WITH
  Tasks <- Attempts, Ids <- ApprovalIds, IdOf <- ApprovalOf,
  BindingOf <- [t \in Attempts |-> NoBinding], Bindings <- {},
  NoTask <- NoAttempt

-----------------------------------------------------------------------------
(* The table of the flow is the one of the proofs. *)

\* What the proofs of the table assume of its constants.
LEMMA FiniteTables ==
  /\ Approvals!IsFiniteSet(Attempts) /\ Approvals!IsFiniteSet(ApprovalIds)
  /\ DOMAIN [t \in Attempts |-> NoBinding] = Attempts
BY FlowAssumption, ApprovalAssumption DEF Approvals!IsFiniteSet, IsFiniteSet

\* Storing a record, with its eviction.
LEMMA SameRecords ==
  \A id, rec : Table!StoreFinalized(id, rec) => Approvals!StoreFinalized(id, rec)
BY DEF Table!StoreFinalized, Approvals!StoreFinalized, Table!NotFound,
       Approvals!NotFound, Table!NoPayload, Approvals!NoPayload

\* Dropping a record.
LEMMA SameDrops ==
  \A id : Table!DropFinalized(id) => Approvals!DropFinalized(id)
BY DEF Table!DropFinalized, Approvals!DropFinalized, Table!NotFound,
       Approvals!NotFound, Table!NoPayload, Approvals!NoPayload,
       Table!RemoveFirst, Approvals!RemoveFirst, Table!RemoveAt,
       Approvals!RemoveAt, Table!SelectInSeq, Approvals!SelectInSeq,
       Table!Min, Approvals!Min

\* The capacity test.
LEMMA SameCapacity ==
  \A t \in Attempts : Table!CanRegister(t) <=> Approvals!CanRegister(t)
BY DEF Table!CanRegister, Approvals!CanRegister, Table!PendingIds,
       Approvals!PendingIds, Table!Cardinality, Approvals!Cardinality

\* A handler's own steps.
LEMMA SameHandler ==
  ASSUME NEW t \in Attempts,
         \/ Table!Register(t) \/ Table!Refuse(t) \/ Table!TimerFires(t)
         \/ Table!WakeResolved(t) \/ Table!WakeTimeout(t) \/ Table!Cancel(t)
  PROVE  Approvals!Handler(t)
<1>1. CASE Table!Register(t)
  BY <1>1, SameDrops, SameCapacity
     DEF Table!Register, Approvals!Register, Approvals!Handler
<1>2. CASE Table!Refuse(t)
  BY <1>2, SameCapacity DEF Table!Refuse, Approvals!Refuse, Approvals!Handler
<1>3. CASE Table!TimerFires(t)
  BY <1>3 DEF Table!TimerFires, Approvals!TimerFires, Approvals!Handler
<1>4. CASE Table!WakeResolved(t)
  BY <1>4 DEF Table!WakeResolved, Approvals!WakeResolved, Table!Leave,
              Approvals!Leave, Approvals!Handler
<1>5. CASE Table!WakeTimeout(t)
  BY <1>5, SameRecords DEF Table!WakeTimeout, Approvals!WakeTimeout,
     Table!Leave, Approvals!Leave, Approvals!Handler
<1>6. CASE Table!Cancel(t)
  BY <1>6 DEF Table!Cancel, Approvals!Cancel, Approvals!Handler
<1> QED
  BY <1>1, <1>2, <1>3, <1>4, <1>5, <1>6

\* An operator's answer: the approvals of the flow have no binding here.
LEMMA SameOperator == Table!Operator => Approvals!Operator
<1> SUFFICES ASSUME Table!Operator PROVE Approvals!Operator
  OBVIOUS
<1>1. PICK id \in ApprovalIds, d \in Table!OperatorDecisions,
           b \in {} \union {NoBinding}, p \in Table!Replacements :
        Table!Resolve(id, d, b, p)
  BY DEF Table!Operator
<1>2. d \in Approvals!OperatorDecisions /\ p \in Approvals!Replacements
  BY DEF Table!OperatorDecisions, Approvals!OperatorDecisions,
         Table!Replacements, Approvals!Replacements, Table!NoPayload,
         Approvals!NoPayload
<1>3. \A t : Table!Effective(t, d, b) = Approvals!Effective(t, d, b)
  BY DEF Table!Effective, Approvals!Effective, Table!BindingDrift,
         Approvals!BindingDrift, Table!Allowing, Approvals!Allowing
<1>4. Approvals!Resolve(id, d, b, p)
  BY <1>1, <1>3, SameRecords DEF Table!Resolve, Approvals!Resolve
<1> QED
  BY <1>1, <1>2, <1>4 DEF Approvals!Operator

\* Every step of the flow is one of the table, or leaves the table alone.
LEMMA TableStep == [Next]_vars => [Approvals!Next]_tablevars
<1> SUFFICES ASSUME [Next]_vars PROVE [Approvals!Next]_tablevars
  OBVIOUS
<1>1. ASSUME NEW t \in Attempts, Approvals!Handler(t) PROVE Approvals!Next
  BY <1>1 DEF Approvals!Next
<1>2. ASSUME NEW t \in Attempts, Arrive(t) \/ Evaluate(t) \/ Interrupt(t)
      PROVE  [Approvals!Next]_tablevars
  BY <1>1, <1>2, SameHandler
     DEF Arrive, Evaluate, Interrupt, EngineFails, DecideFails, Decide, NoRoute,
         Ask, QueueFull
<1>3. ASSUME NEW t \in Attempts, Timer(t) \/ Finish(t)
      PROVE  [Approvals!Next]_tablevars
  BY <1>1, <1>3, SameHandler DEF Timer, Finish, Resume, ResumeFails
<1>4. CASE Operator
  BY <1>4, SameOperator DEF Operator, Approvals!Next
<1>5. CASE CacheAges \/ UNCHANGED vars
  BY <1>5 DEF CacheAges, vars
<1> QED
  BY <1>2, <1>3, <1>4, <1>5 DEF Next, Served

\* Both start empty.
LEMMA TableInit == Init => Approvals!Init
BY DEF Init, Table!Init, Approvals!Init, Table!NotFound, Approvals!NotFound,
       Table!NoPayload, Approvals!NoPayload, Table!Fresh, Approvals!Fresh,
       Table!NoResult, Approvals!NoResult, Table!NoAnswer, Approvals!NoAnswer

\* The flow uses the approval table as it is specified: whatever is proved of
\* the table on its own holds of it in the flow, wherever that fails or is
\* cancelled (register_approval, wait_for_resolution, resolve_approval).
THEOREM FlowUsesTable == Spec => Approvals!Spec
<1>1. [Next]_vars => [Approvals!Next]_(Approvals!vars)
  BY TableStep DEF tablevars, Approvals!vars
<1> QED
  BY <1>1, TableInit, PTL DEF Spec, Approvals!Spec

\* So each caller with an approval id of its own gets what the contract
\* promises, evictions, retries and failures of the flow notwithstanding.
THEOREM FlowKeepsContract == Spec => Approvals!ContractSafety
<1>1. Approvals!Spec => Approvals!ContractSafety
  BY FiniteTables, ApprovalAssumption, Approvals!ImplementsContract
<1> QED
  BY <1>1, FlowUsesTable

\* What is proved of the table, read in the flow.
LEMMA TableInductive ==
  /\ Init => Approvals!IInv
  /\ Approvals!IInv /\ [Next]_vars => Approvals!IInv'
<1>1. Init => Approvals!Init
  BY TableInit
<1>2. Approvals!Init => Approvals!IInv
  BY FiniteTables, ApprovalAssumption, Approvals!InitIInv
<1>3. Approvals!IInv /\ [Approvals!Next]_(Approvals!vars) => Approvals!IInv'
  BY FiniteTables, ApprovalAssumption, Approvals!NextIInv
<1>4. [Next]_vars => [Approvals!Next]_(Approvals!vars)
  BY TableStep DEF tablevars, Approvals!vars
<1> QED
  BY <1>1, <1>2, <1>3, <1>4

-----------------------------------------------------------------------------
(* What a caller is told after a wait. *)

\* A caller whose wait is over was told what the flow makes of its result.
ResultTold ==
  \A t \in Attempts : stage[t] = "done" /\ pc[t] = "returned" =>
    reply[t].verdict = Verdict(result[t]) /\ reply[t].source = Source(result[t])

GrantInv == FlowInv /\ Approvals!IInv /\ ResultTold

AttemptStep(u) ==
  Arrive(u) \/ Evaluate(u) \/ Timer(u) \/ Finish(u) \/ Interrupt(u)

\* Where the maps are maps.
LEMMA Maps ==
  ASSUME GrantInv
  PROVE  /\ ReplyOfEach /\ PcOfEach
         /\ stage \in [Attempts -> {"new", "evaluating", "waiting", "done", "failed"}]
         /\ \E S : result \in [Attempts -> S]
BY DEF GrantInv, FlowInv, AuditInv, FlowTypeOK, GaugeInv, Approvals!IInv,
       Approvals!TypeOK

\* What the step of an attempt does to its place, and to its result in the table.
LEMMA TableMoves ==
  ASSUME GrantInv, NEW u \in Attempts, AttemptStep(u)
  PROVE  /\ \E p : pc' = [pc EXCEPT ![u] = p]
         /\ \E r : result' = [result EXCEPT ![u] = r]
<1>1. /\ pc = [pc EXCEPT ![u] = pc[u]]
      /\ result = [result EXCEPT ![u] = result[u]]
  BY Maps, PcFacts
<1>2. CASE pc' = pc /\ result' = result
  BY <1>1, <1>2
<1>3. CASE Table!Register(u) \/ Table!Refuse(u) \/ Table!Cancel(u)
  <2>1. result' = result
    BY <1>3 DEF Table!Register, Table!Refuse, Table!Cancel
  <2> QED
    BY <1>1, <1>3, <2>1, TableFacts
<1>4. CASE Table!WakeResolved(u) \/ Table!WakeTimeout(u)
  BY <1>4 DEF Table!WakeResolved, Table!WakeTimeout, Table!Leave
<1>5. CASE Table!TimerFires(u)
  BY <1>1, <1>5 DEF Table!TimerFires
<1> QED
  <2>1. CASE Arrive(u) \/ EngineFails(u) \/ DecideFails(u) \/ NoRoute(u)
             \/ \E v \in {"allow", "block", "defer"} : Decide(u, v)
    BY <1>2, <2>1 DEF Arrive, EngineFails, DecideFails, NoRoute, Decide, tablevars
  <2>2. CASE Ask(u) \/ QueueFull(u) \/ Timer(u) \/ Finish(u)
    BY <1>3, <1>4, <1>5, <2>2 DEF Ask, QueueFull, Timer, Finish, Resume, ResumeFails
  <2>3. CASE Interrupt(u)
    BY <1>2, <1>3, <2>3 DEF Interrupt, tablevars
  <2> QED
    BY <2>1, <2>2, <2>3 DEF AttemptStep, Evaluate

\* ... and to its place and answer in the flow.
LEMMA FlowMoves ==
  ASSUME GrantInv, NEW u \in Attempts, AttemptStep(u)
  PROVE  /\ \E g : stage' = [stage EXCEPT ![u] = g]
         /\ \E m : reply' = [reply EXCEPT ![u] = m]
<1>1. /\ stage = [stage EXCEPT ![u] = stage[u]]
      /\ reply = [reply EXCEPT ![u] = reply[u]]
  BY Maps, ReplyFacts
<1> QED
  <2>1. CASE Arrive(u) \/ EngineFails(u) \/ DecideFails(u) \/ Ask(u)
             \/ ResumeFails(u) \/ Interrupt(u)
    BY <1>1, <2>1 DEF Arrive, EngineFails, DecideFails, Ask, ResumeFails, Interrupt
  <2>2. CASE NoRoute(u) \/ QueueFull(u) \/ Resume(u)
             \/ \E v \in {"allow", "block", "defer"} : Decide(u, v)
    BY <2>2 DEF NoRoute, QueueFull, Resume, Decide, Respond
  <2>3. CASE Timer(u)
    BY <1>1, <2>3 DEF Timer, flowvars
  <2> QED
    BY <2>1, <2>2, <2>3 DEF AttemptStep, Evaluate, Finish

\* The steps of an attempt leave the others where they are.
LEMMA OthersStay ==
  ASSUME GrantInv, NEW u \in Attempts, AttemptStep(u)
  PROVE  \A t \in Attempts \ {u} :
           /\ stage'[t] = stage[t] /\ pc'[t] = pc[t]
           /\ reply'[t] = reply[t] /\ result'[t] = result[t]
<1>1. DOMAIN reply = Attempts /\ DOMAIN pc = Attempts
      /\ DOMAIN stage = Attempts /\ DOMAIN result = Attempts
  BY Maps, ReplyFacts DEF PcOfEach
<1> QED
  BY <1>1, TableMoves, FlowMoves

\* The attempt that takes a step is told the result of its wait, or does not
\* come from a wait.
LEMMA OwnResult ==
  ASSUME GrantInv, NEW t \in Attempts, AttemptStep(t),
         stage'[t] = "done", pc'[t] = "returned"
  PROVE  /\ reply'[t].verdict = Verdict(result'[t])
         /\ reply'[t].source = Source(result'[t])
<1>1. /\ PcOfEach /\ PcAt(t) /\ DOMAIN reply = Attempts
      /\ stage \in [Attempts -> {"new", "evaluating", "waiting", "done", "failed"}]
  BY Maps, ReplyFacts DEF GrantInv, FlowInv, GaugeInv
<1>2. CASE Resume(t)
  <2>1. PICK status \in {"ok", "late"} :
          reply' = [reply EXCEPT ![t] =
                      Reply(status, Verdict(result'[t]), Source(result'[t]))]
    BY <1>2 DEF Resume, Respond
  <2>2. reply'[t] = Reply(status, Verdict(result'[t]), Source(result'[t]))
    BY <1>1, <2>1
  <2> QED
    BY <2>2, EntryFacts
<1>3. CASE Timer(t)
  <2>1. UNCHANGED <<stage, reply, pc, result>>
    BY <1>3 DEF Timer, flowvars, Table!TimerFires
  <2> QED
    BY <2>1 DEF GrantInv, ResultTold
<1>4. CASE Ask(t) \/ ResumeFails(t) \/ Interrupt(t) \/ DecideFails(t)
  <2>1. stage'[t] # "done"
    BY <1>1, <1>4 DEF Ask, ResumeFails, Interrupt, DecideFails
  <2> QED
    BY <2>1
<1>5. CASE QueueFull(t)
  <2>1. pc'[t] = "refused"
    BY <1>1, <1>5, TableFacts, PcFacts DEF QueueFull
  <2> QED
    BY <2>1
<1>6. CASE Arrive(t) \/ EngineFails(t) \/ NoRoute(t)
           \/ \E v \in {"allow", "block", "defer"} : Decide(t, v)
  <2>1. pc' = pc /\ stage[t] \in {"new", "evaluating"}
    BY <1>6 DEF Arrive, EngineFails, NoRoute, Decide, tablevars
  <2> QED
    BY <1>1, <2>1 DEF PcAt
<1> QED
  BY <1>2, <1>3, <1>4, <1>5, <1>6 DEF AttemptStep, Evaluate, Finish

\* An answer of an operator touches no result and no reply.
LEMMA QuietResult ==
  ASSUME GrantInv, Operator \/ CacheAges \/ UNCHANGED vars
  PROVE  ResultTold'
<1>1. UNCHANGED <<stage, reply, pc, result>>
  BY DEF Operator, CacheAges, vars, tablevars, flowvars, Table!Operator,
         Table!Resolve
<1> QED
  BY <1>1 DEF GrantInv, ResultTold

\* Every step keeps what callers were told tied to their results.
THEOREM NextGrant == GrantInv /\ [Next]_vars => GrantInv'
<1> SUFFICES ASSUME GrantInv, [Next]_vars PROVE GrantInv'
  OBVIOUS
<1>1. FlowInv' /\ Approvals!IInv'
  BY NextFlow, TableInductive DEF GrantInv
<1>2. ASSUME NEW u \in Attempts, AttemptStep(u) PROVE ResultTold'
  <2> SUFFICES ASSUME NEW t \in Attempts, stage'[t] = "done", pc'[t] = "returned"
               PROVE  /\ reply'[t].verdict = Verdict(result'[t])
                      /\ reply'[t].source = Source(result'[t])
    BY DEF ResultTold, Verdict, Source, Table!Allowing, Table!NoPayload
  <2>1. CASE t = u
    BY <1>2, <2>1, OwnResult
  <2>2. CASE t # u
    BY <1>2, <2>2, OthersStay DEF GrantInv, ResultTold
  <2> QED
    BY <2>1, <2>2
<1>3. ResultTold'
  BY <1>2, QuietResult DEF Next, Served, AttemptStep
<1> QED
  BY <1>1, <1>3 DEF GrantInv

\* Nobody has been told anything at first.
THEOREM InitGrant == Init => GrantInv
<1>1. Init => ResultTold
  BY DEF Init, ResultTold
<1> QED
  BY <1>1, InitFlow, TableInductive DEF GrantInv

-----------------------------------------------------------------------------
(* The properties. *)

\* What an attempt with an approval id of its own got out of its wait: the
\* answer of its operator, or the timeout.
LEMMA WaitFacts ==
  ASSUME GrantInv, NEW t \in Attempts, Table!Exclusive(t), pc[t] = "returned"
  PROVE  \/ /\ answer[t].decision \in {"allow-once", "deny"}
            /\ result[t].decision = answer[t].decision
            /\ \/ result[t].report = Table!NotFound
               \/ /\ result[t].report.state = "resolved"
                  /\ result[t].report.payload = answer[t].payload
         \/ /\ t \in timer
            /\ result[t].decision = TimeoutAction
            /\ \/ result[t].report = Table!NotFound
               \/ /\ result[t].report.state = "timeout"
                  /\ result[t].report.payload = answer[t].payload
<1>1. Approvals!Provenance(t) /\ Approvals!Exclusive(t)
  BY DEF GrantInv, Approvals!IInv, Table!Exclusive, Approvals!Exclusive
<1>2. Approvals!Answered(t).decision = answer[t].decision
  BY DEF Approvals!Answered, Approvals!Effective, Approvals!BindingDrift
<1>3. /\ Approvals!NotFound = Table!NotFound
      /\ Approvals!OperatorDecisions = {"allow-once", "deny"}
  BY DEF Approvals!NotFound, Table!NotFound, Approvals!NoPayload, Table!NoPayload,
         Approvals!OperatorDecisions
<1>4. /\ Approvals!Answered(t).state = "resolved"
      /\ Approvals!Answered(t).payload = answer[t].payload
      /\ Approvals!Expired(t).state = "timeout"
      /\ Approvals!Expired(t).payload = answer[t].payload
  BY DEF Approvals!Answered, Approvals!Expired
<1> QED
  BY <1>1, <1>2, <1>3, <1>4 DEF Approvals!Provenance

\* An operator gets the credit only for their answer, and an action that was
\* put to an operator goes ahead only as they said or on a permissive timeout.
LEMMA GrantGives == GrantInv => GrantsGrounded
<1> SUFFICES ASSUME GrantInv, NEW t \in Attempts, Table!Exclusive(t), Asked(t),
                    stage[t] = "done"
             PROVE  /\ reply[t].source = "operator" => answer[t] # Table!NoAnswer
                    /\ reply[t].verdict \in {"allow", "modify"} =>
                         \/ answer[t].decision = "allow-once"
                         \/ t \in timer /\ TimeoutAction = "allow"
                    /\ reply[t].verdict = "modify" =>
                         answer[t].payload # Table!NoPayload
  BY DEF GrantsGrounded
<1>1. pc[t] = "returned"
  BY DEF GrantInv, FlowInv, GaugeInv, PcAt, Asked
<1>2. /\ reply[t].verdict = Verdict(result[t])
      /\ reply[t].source = Source(result[t])
  BY <1>1 DEF GrantInv, ResultTold
<1>3. /\ Table!NotFound.state = "not_found" /\ Table!NotFound.payload = Table!NoPayload
      /\ Table!NoAnswer.decision = ""
  BY DEF Table!NotFound, Table!NoAnswer
<1>4. ASSUME reply[t].source = "operator" PROVE answer[t] # Table!NoAnswer
  <2>1. result[t].report.state = "resolved"
    BY <1>2, <1>4 DEF Source
  <2>2. answer[t].decision \in {"allow-once", "deny"}
    BY <1>1, <1>3, <2>1, WaitFacts
  <2> QED
    BY <1>3, <2>2
<1>5. ASSUME reply[t].verdict \in {"allow", "modify"}
      PROVE  \/ answer[t].decision = "allow-once"
             \/ t \in timer /\ TimeoutAction = "allow"
  <2>1. result[t].decision \in {"allow", "allow-once", "allow-always"}
    BY <1>2, <1>5 DEF Verdict, Table!Allowing
  <2> QED
    BY <1>1, <2>1, WaitFacts, ApprovalAssumption
<1>6. ASSUME reply[t].verdict = "modify" PROVE answer[t].payload # Table!NoPayload
  <2>1. result[t].report.payload # Table!NoPayload
    BY <1>2, <1>6 DEF Verdict
  <2> QED
    BY <1>1, <1>3, <2>1, WaitFacts
<1> QED
  BY <1>4, <1>5, <1>6

\* An answer with a replacement whose record is still there when the flow reads
\* it never lets the original action through.
LEMMA ReplacementGives == GrantInv => ReplacementStands
<1> SUFFICES ASSUME GrantInv, NEW t \in Attempts, Table!Exclusive(t),
                    stage[t] = "done", t \notin timer,
                    answer[t].payload # Table!NoPayload,
                    result[t].report # Table!NotFound
             PROVE  reply[t].verdict # "allow"
  BY DEF ReplacementStands
<1>1. pc[t] = "returned"
  <2>1. Approvals!Provenance(t)
    BY DEF GrantInv, Approvals!IInv
  <2>2. Approvals!NoResult.report = Table!NotFound
    BY DEF Approvals!NoResult, Approvals!NotFound, Table!NotFound,
           Approvals!NoPayload, Table!NoPayload
  <2> QED
    BY <2>1, <2>2 DEF Approvals!Provenance
<1>2. reply[t].verdict = Verdict(result[t])
  BY <1>1 DEF GrantInv, ResultTold
<1>3. result[t].report.payload = answer[t].payload
  BY <1>1, WaitFacts
<1> QED
  BY <1>2, <1>3 DEF Verdict

\* Whatever other approvals, attempts and evictions do, a caller with an
\* approval id of its own is let through only by its operator or by a timeout
\* that is configured to allow, and an operator is credited only with their own
\* answer (register_approval to _approval_resolution_meta).
THEOREM GrantsHaveGrounds == Spec => []GrantsGrounded
<1> QED
  BY InitGrant, NextGrant, GrantGives, PTL DEF Spec

\* An accepted replacement is never dropped in favour of the original action
\* while its record is there (resolve_approval, get_approval).
THEOREM ReplacementsStand == Spec => []ReplacementStands
<1> QED
  BY InitGrant, NextGrant, ReplacementGives, PTL DEF Spec
=============================================================================
