---------------------------- MODULE DecisionFlow ----------------------------
(***************************************************************************)
(* One SyncDecision request through the gateway                            *)
(* (gateway/core/sync_decision_flow.py), with the two shared tables it     *)
(* goes through: the idempotency cache and the approval table.             *)
(*                                                                         *)
(* An attempt is one call of handle_sync_decision.  A client that retries, *)
(* or falls back from its socket to HTTP, makes several attempts with one  *)
(* request id, and they may be in the gateway at the same time.            *)
(*                                                                         *)
(* The code suspends at two places: the recogniser call between the lookup *)
(* in the cache and the evaluation, and the wait for an operator.  Between *)
(* them everything, the audit records, metrics and reply included, is one  *)
(* step.  What the policy engine says is chosen freely: a second           *)
(* evaluation of the same request may come out differently, since the      *)
(* history of the session counts.                                          *)
(***************************************************************************)
EXTENDS Integers, FiniteSets, Sequences

CONSTANTS
  Attempts,       \* calls of handle_sync_decision
  Requests,       \* request ids
  RequestOf,      \* the request an attempt carries
  Confirmations,  \* requests whose event is a confirmation
  Routed,         \* requests whose configuration leaves the bridge enabled
  ApprovalIds, ApprovalOf,  \* the approval id an attempt would wait on
  NoBinding, Payloads, NoAttempt, TimeoutAction,
  MaxPending, MaxFinalized, MaxCached, NoResponse

Verdicts == {"allow", "block", "modify", "defer"}
Sources == {"policy", "system", "operator"}

\* What a caller is told, and what is kept to tell it again.
Responses == [verdict : Verdicts, source : Sources]

ASSUME FlowAssumption ==
  /\ IsFiniteSet(Attempts) /\ RequestOf \in [Attempts -> Requests]
  /\ Confirmations \subseteq Requests
  /\ Routed \subseteq Requests

\* What the approval table assumes of its constants.
ASSUME ApprovalAssumption ==
  /\ IsFiniteSet(ApprovalIds)
  /\ ApprovalOf \in [Attempts -> ApprovalIds]
  /\ NoAttempt \notin Attempts
  /\ MaxPending \in Nat /\ MaxFinalized \in Nat
  /\ TimeoutAction \in {"block", "allow"}

VARIABLES
  pending, finalized, order, obj, event, timer, pc, result, answer,
  store, before, stale,
  stage,    \* attempt -> where it is
  records,  \* attempt -> what the audit trail has of it, oldest first
  reply,    \* attempt -> what its caller was told
  gauge     \* the metric of pending approvals

tablevars == <<pending, finalized, order, obj, event, timer, pc, result, answer>>
flowvars == <<stage, records, reply, gauge>>

Table == INSTANCE DeferManager WITH
  Tasks <- Attempts, Ids <- ApprovalIds, IdOf <- ApprovalOf,
  BindingOf <- [t \in Attempts |-> NoBinding], Bindings <- {},
  NoTask <- NoAttempt

Cache == INSTANCE IdempotencyCache WITH Keys <- Requests, MaxSize <- MaxCached

cachevars == <<store, before, stale>>
vars == <<tablevars, cachevars, flowvars>>

NoReply == [status |-> "none"]
Reply(status, v, s) == [status |-> status, verdict |-> v, source |-> s]

Decision(v) == [type |-> "decision", verdict |-> v, source |-> "policy"]
Resolution(v, s) == [type |-> "resolution", verdict |-> v, source |-> s]

Init ==
  /\ Table!Init
  /\ Cache!CacheInit
  /\ stage = [t \in Attempts |-> "new"]
  /\ records = [t \in Attempts |-> <<>>]
  /\ reply = [t \in Attempts |-> NoReply]
  /\ gauge = 0

-----------------------------------------------------------------------------
(* The two ends of an attempt. *)

\* Fault: a reply that came too late is cached all the same.
RespondCachingLate(t, v, s) ==
  \E late \in BOOLEAN :
    /\ stage' = [stage EXCEPT ![t] = "done"]
    /\ reply' = [reply EXCEPT ![t] = Reply(IF late THEN "late" ELSE "ok", v, s)]
    /\ Cache!Put(RequestOf[t], [verdict |-> v, source |-> s])

\* The deadline check and what follows it: a late decision goes out as the
\* fallback of an error and is not cached.
Respond(t, v, s) ==
  /\ stage' = [stage EXCEPT ![t] = "done"]
  /\ \/ /\ reply' = [reply EXCEPT ![t] = Reply("ok", v, s)]
        /\ Cache!Put(RequestOf[t], [verdict |-> v, source |-> s])
     \/ /\ reply' = [reply EXCEPT ![t] = Reply("late", v, s)]
        /\ UNCHANGED cachevars

\* A response that is in the cache is the answer; otherwise the request is
\* validated and goes to evaluation.
Arrive(t) ==
  LET r == RequestOf[t]
  IN  /\ stage[t] = "new"
      /\ Cache!Get(r)
      /\ IF Cache!Fresh(r)
         THEN /\ reply' = [reply EXCEPT ![t] =
                             Reply("ok", store[r].verdict, store[r].source)]
              /\ stage' = [stage EXCEPT ![t] = "done"]
         ELSE /\ stage' = [stage EXCEPT ![t] = "evaluating"]
              /\ UNCHANGED reply
      /\ UNCHANGED <<tablevars, records, gauge>>

\* The policy engine raises: an error the caller may retry, and no record.
EngineFails(t) ==
  /\ stage[t] = "evaluating"
  /\ stage' = [stage EXCEPT ![t] = "done"]
  /\ reply' = [reply EXCEPT ![t] = Reply("error", "block", "system")]
  /\ UNCHANGED <<tablevars, cachevars, records, gauge>>

-----------------------------------------------------------------------------
(* Evaluation, up to the reply or to the wait for an operator. *)

\* A decision that nobody has to approve.  A DEFER can be one too: where the
\* configuration disables the bridge, or the session is under enforcement.
Decide(t, v) ==
  /\ stage[t] = "evaluating"
  /\ RequestOf[t] \notin Confirmations
  /\ records' = [records EXCEPT ![t] = Append(@, Decision(v))]
  /\ Respond(t, v, "policy")
  /\ UNCHANGED <<tablevars, gauge>>

\* A confirmation with the bridge disabled.
NoRoute(t) ==
  /\ stage[t] = "evaluating"
  /\ RequestOf[t] \in Confirmations \ Routed
  /\ records' = [records EXCEPT ![t] =
                   @ \o <<Decision("defer"), Resolution("block", "system")>>]
  /\ Respond(t, "block", "system")
  /\ UNCHANGED <<tablevars, gauge>>

\* A confirmation, or a deferred action, that gets a slot of the table.
Ask(t) ==
  /\ stage[t] = "evaluating"
  /\ RequestOf[t] \in Routed
  /\ Table!Register(t)
  /\ stage' = [stage EXCEPT ![t] = "waiting"]
  /\ records' = [records EXCEPT ![t] = Append(@, Decision("defer"))]
  /\ gauge' = gauge + 1
  /\ UNCHANGED <<cachevars, reply>>

\* Fault: the block is told to the caller only.
QueueFullUnrecorded(t) ==
  /\ stage[t] = "evaluating"
  /\ RequestOf[t] \in Routed
  /\ Table!Refuse(t)
  /\ records' = [records EXCEPT ![t] = Append(@, Decision("defer"))]
  /\ Respond(t, "block", "system")
  /\ UNCHANGED gauge

\* The table refuses: it is full, or the id is pending already.
QueueFull(t) ==
  LET s == IF RequestOf[t] \in Confirmations THEN "system" ELSE "policy"
  IN  /\ stage[t] = "evaluating"
      /\ RequestOf[t] \in Routed
      /\ Table!Refuse(t)
      /\ records' = [records EXCEPT ![t] =
                       @ \o <<Decision("defer"), Resolution("block", s)>>]
      /\ Respond(t, "block", s)
      /\ UNCHANGED gauge

-----------------------------------------------------------------------------
(* After the wait. *)

\* Fault: the replacement is not looked at.
VerdictIgnoringPayload(res) ==
  IF res.decision \notin Table!Allowing THEN "block" ELSE "allow"

\* What the flow makes of what it was told and of the record it then reads.
Verdict(res) ==
  IF res.decision \notin Table!Allowing THEN "block"
  ELSE IF res.report.payload # Table!NoPayload THEN "modify" ELSE "allow"

\* Fault: an allow is always credited to an operator.
SourceByDecision(res) ==
  IF res.decision \in Table!Allowing THEN "operator" ELSE "system"

Source(res) == IF res.report.state = "resolved" THEN "operator" ELSE "system"

\* Fault: the gauge goes down only when an operator answered.
ResumeCountingAnswers(t) ==
  /\ stage[t] = "waiting"
  /\ Table!WakeResolved(t) \/ Table!WakeTimeout(t)
  /\ records' = [records EXCEPT ![t] =
                   Append(@, Resolution(Verdict(result'[t]), Source(result'[t])))]
  /\ gauge' = IF Source(result'[t]) = "operator" THEN gauge - 1 ELSE gauge
  /\ Respond(t, Verdict(result'[t]), Source(result'[t]))

\* The wait is over: the resolution is recorded, the gauge goes down and the
\* caller is answered.
Resume(t) ==
  /\ stage[t] = "waiting"
  /\ Table!WakeResolved(t) \/ Table!WakeTimeout(t)
  /\ records' = [records EXCEPT ![t] =
                   Append(@, Resolution(Verdict(result'[t]), Source(result'[t])))]
  /\ gauge' = gauge - 1
  /\ Respond(t, Verdict(result'[t]), Source(result'[t]))

\* Writing the resolution raises (the trajectory database is locked or full):
\* nothing catches it, and the rest of the flow does not happen.
ResumeFails(t) ==
  /\ stage[t] = "waiting"
  /\ Table!WakeResolved(t) \/ Table!WakeTimeout(t)
  /\ stage' = [stage EXCEPT ![t] = "failed"]
  /\ UNCHANGED <<cachevars, records, reply, gauge>>

\* Writing the decision raises.
DecideFails(t) ==
  /\ stage[t] = "evaluating"
  /\ stage' = [stage EXCEPT ![t] = "failed"]
  /\ UNCHANGED <<tablevars, cachevars, records, reply, gauge>>

\* The handler is cancelled at one of its two suspension points.
Interrupt(t) ==
  /\ \/ stage[t] = "evaluating" /\ UNCHANGED tablevars
     \/ stage[t] = "waiting" /\ Table!Cancel(t)
  /\ stage' = [stage EXCEPT ![t] = "failed"]
  /\ UNCHANGED <<cachevars, records, reply, gauge>>

-----------------------------------------------------------------------------
Operator == Table!Operator /\ UNCHANGED <<cachevars, flowvars>>

Timer(t) == Table!TimerFires(t) /\ UNCHANGED <<cachevars, flowvars>>

CacheAges ==
  /\ Cache!Cleanup \/ \E r \in Requests : Cache!Expire(r)
  /\ UNCHANGED <<tablevars, flowvars>>

Evaluate(t) ==
  \/ EngineFails(t) \/ DecideFails(t)
  \/ \E v \in {"allow", "block", "defer"} : Decide(t, v)
  \/ NoRoute(t) \/ Ask(t) \/ QueueFull(t)

Finish(t) == Resume(t) \/ ResumeFails(t)

Served ==
  /\ \A t \in Attempts : stage[t] \in {"done", "failed"}
  /\ UNCHANGED vars

Next ==
  \/ \E t \in Attempts :
       Arrive(t) \/ Evaluate(t) \/ Timer(t) \/ Finish(t) \/ Interrupt(t)
  \/ Operator
  \/ CacheAges
  \/ Served

Spec == Init /\ [][Next]_vars

\* The recogniser call and the wait for an operator both have timeouts, and
\* the loop runs a handler that is ready.
Fairness ==
  \A t \in Attempts :
    WF_vars(Evaluate(t)) /\ WF_vars(Timer(t)) /\ WF_vars(Finish(t))

FairSpec == Spec /\ Fairness

-----------------------------------------------------------------------------
Asked(t) == pc[t] \in {"waiting", "returned", "cancelled"}

Answers(t, status, v, s) == reply[t] = Reply(status, v, s)

\* Whatever a caller is told, in time or too late, fresh or from the cache, is
\* the last thing the audit trail says about an attempt of that request.
AnswersAudited ==
  \A t \in Attempts :
    reply[t] # NoReply /\ reply[t].status # "error" =>
      \E u \in Attempts :
        /\ RequestOf[u] = RequestOf[t]
        /\ records[t] # <<>> => u = t
        /\ records[u] # <<>>
        /\ LET last == records[u][Len(records[u])]
           IN  last.verdict = reply[t].verdict /\ last.source = reply[t].source

\* The gauge of pending approvals counts the attempts that wait and, for good,
\* those whose wait did not end in a resolution; the others that asked have
\* exactly one resolution in the audit trail, after their decision.
GaugeExact ==
  /\ gauge = Cardinality({t \in Attempts :
               Asked(t) /\ stage[t] \in {"waiting", "failed"}})
  /\ \A t \in Attempts :
       Asked(t) =>
         /\ Len(records[t]) = IF stage[t] = "done" THEN 2 ELSE 1
         /\ records[t][1].type = "decision"
         /\ stage[t] = "done" => records[t][2].type = "resolution"

\* What is kept to be told again was told in time to a caller whose attempt is
\* in the audit trail: a late decision and an error are never replayed.
CacheHonest ==
  \A r \in Requests :
    store[r] # NoResponse =>
      \E t \in Attempts :
        /\ RequestOf[t] = r
        /\ records[t] # <<>>
        /\ Answers(t, "ok", store[r].verdict, store[r].source)

\* An operator gets the credit only for an answer of theirs, and an action
\* that was put to an operator goes ahead only on such an answer, or on a
\* timeout that is configured to allow; it is changed only as they said.
GrantsGrounded ==
  \A t \in Attempts :
    Table!Exclusive(t) /\ Asked(t) /\ stage[t] = "done" =>
      /\ reply[t].source = "operator" => answer[t] # Table!NoAnswer
      /\ reply[t].verdict \in {"allow", "modify"} =>
           \/ answer[t].decision = "allow-once"
           \/ t \in timer /\ TimeoutAction = "allow"
      /\ reply[t].verdict = "modify" => answer[t].payload # Table!NoPayload

\* As long as its record is there when the flow reads it, an approval that
\* came with a replacement never lets the original action through.
ReplacementStands ==
  \A t \in Attempts :
    /\ Table!Exclusive(t) /\ stage[t] = "done" /\ t \notin timer
    /\ answer[t].payload # Table!NoPayload
    /\ result[t].report # Table!NotFound
    => reply[t].verdict # "allow"

\* An attempt that got past the cache ends, and so does every wait.
AttemptsEnd ==
  \A t \in Attempts :
    stage[t] \in {"evaluating", "waiting"} ~> stage[t] \in {"done", "failed"}
=============================================================================
