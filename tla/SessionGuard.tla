------------------------------ MODULE SessionGuard ------------------------------
(***************************************************************************)
(* How a session that misbehaves is held back: the session lock and the    *)
(* quarantine as the decision flow (gateway/core/sync_decision_flow.py)    *)
(* applies them, fed by the counters of the session registry and by the    *)
(* background analysis of tool output (supervision_gateway.py), and lifted *)
(* by operators (gateway/http/app.py) and by time.                         *)
(*                                                                         *)
(* A request reads both marks when it arrives and may be suspended after   *)
(* that, in the recogniser or in an approval, and the analysis of an       *)
(* output runs in the executor: what they write comes late.  What a mark   *)
(* says is not the last word: the scope of the session and benchmark mode  *)
(* are applied to it too, and a confirmation is put before an operator     *)
(* whatever the marks say.  The risk and the verdict of an evaluation,     *)
(* scope and trajectory included, are chosen freely.  Approvals themselves,*)
(* retries from the cache and the bounded approval table are DecisionFlow's*)
(* subject and left out here.                                              *)
(***************************************************************************)
EXTENDS Integers, FiniteSets, SequencesExt

CONSTANTS
  Sessions, Requests, SessionOf, EventOf,
  Outputs,         \* the requests that are post_action events with an output
  Confirms,        \* those that report an approval prompt of the agent's
  Recogniser,      \* pre_action events may wait for the LLM recogniser
  FindingAction,   \* what a finding in an output does: broadcast, defer, block
  Scope,           \* what an enforced session scope says of a request
  DeferBecomes,    \* what benchmark mode makes of a DEFER; "defer" where it is off
  Enabled, Threshold, LockAction, Cooldown, MaxTracked, Unlocked,
  MaxSessions, MaxTimeline, Absent

Levels == {"low", "high"}

ASSUME LockAssumption ==
  /\ Enabled \in BOOLEAN
  /\ Threshold \in Nat \ {0} /\ Cooldown \in Nat /\ MaxTracked \in Nat \ {0}
  /\ LockAction \in {"defer", "block", "l3_require"}

ASSUME RegistryAssumption ==
  /\ IsFiniteSet(Sessions) /\ IsFiniteSet(Requests)
  /\ SessionOf \in [Requests -> Sessions]
  /\ DOMAIN EventOf = Requests
  /\ MaxSessions \in Nat \ {0} /\ MaxTimeline \in Nat \ {0}

ASSUME GuardAssumption ==
  /\ Outputs \subseteq Requests
  /\ Confirms \subseteq Requests
  /\ Recogniser \in BOOLEAN
  /\ FindingAction \in {"broadcast", "defer", "block"}
  /\ Scope \in [Requests -> {"neutral", "capability", "deny", "allow"}]
  /\ DeferBecomes \in {"defer", "allow", "block"}

VARIABLES
  registry,   \* the session registry
  policy,     \* the lock table
  stage,      \* request -> where its handler is
  seen,       \* request -> the marks its handler read when it arrived
  risk,       \* request -> the risk it was recorded with
  reply,      \* request -> the verdict its caller got
  analysing,  \* outputs that the executor has in work
  found       \* outputs whose analysis ended with a finding

vars == <<registry, policy, stage, seen, risk, reply, analysing, found>>

Registry == INSTANCE SessionRegistry WITH Attempts <- Requests

Lock == INSTANCE SessionEnforcement

\* What the code has as None is told from a session and from a lock.
ASSUME MarkAssumption ==
  /\ Absent \notin Registry!Records
  /\ Unlocked \notin Lock!Locks

Marks == [lock : Lock!LockActions \union {"none"}, quarantined : BOOLEAN]

Init ==
  /\ registry = Registry!NoSession
  /\ policy = Lock!NoLocks
  /\ stage = [r \in Requests |-> "new"]
  /\ seen = [r \in Requests |-> [lock |-> "none", quarantined |-> FALSE]]
  /\ risk = [r \in Requests |-> "unknown"]
  /\ reply = [r \in Requests |-> "none"]
  /\ analysing = {}
  /\ found = {}

PreAction(r) == r \notin Outputs

-----------------------------------------------------------------------------
(* The parts every path through the flow shares. *)

\* The lock table after this request's check(), and the marks it reads.
Table(r) == Lock!Checked(policy, SessionOf[r])

MarksOf(r) ==
  LET s == SessionOf[r]
  IN  [lock |-> IF Lock!Locked(Table(r), s) THEN Table(r).by[s].action ELSE "none",
       quarantined |-> Registry!Quarantined(registry, s)]

Arrives(r) == stage[r] = "new" /\ seen' = [seen EXCEPT ![r] = MarksOf(r)]

Held(r)  == PreAction(r) /\ (MarksOf(r).quarantined \/ MarksOf(r).lock # "none")

\* The decision v is recorded, the threshold evaluated on the new counters,
\* the analysis of an output started, and the caller answered, unless an
\* operator is to be asked first.
Conclude(r, p, v, level, scoped, ask) ==
  LET s     == SessionOf[r]
      after == Registry!Recorded(registry, s, Registry!Entry(r, v, level, FALSE),
                                 scoped)
  IN  /\ registry' = after
      /\ risk' = [risk EXCEPT ![r] = level]
      /\ policy' = Lock!Evaluated(p, s, after.by[s].high)
      /\ analysing' = IF r \in Outputs THEN analysing \union {r} ELSE analysing
      /\ stage' = [stage EXCEPT ![r] = IF ask THEN "waiting" ELSE "done"]
      /\ reply' = [reply EXCEPT ![r] = IF ask THEN "none" ELSE v]
      /\ UNCHANGED found

\* What the policy engine, the anti-bypass guard or a trajectory alert says.
\* A DEFER of a pre_action goes to an operator if the bridge is enabled, and a
\* confirmation does in any case.
Judge(r, p) ==
  \E v \in Registry!Verdicts, level \in Levels :
    \E ask \in {FALSE} \union {v = "defer" /\ PreAction(r)} :
      Conclude(r, p, v, level, FALSE, ask \/ r \in Confirms)

\* The scope denies, lets a bounded read-only action pass, or, when it denies
\* for the capability only, leaves a DEFER alone; then benchmark mode resolves
\* what is still a DEFER.
Settled(r, v) ==
  LET w == CASE Scope[r] = "deny"  -> "block"
             [] Scope[r] = "allow" -> "allow"
             [] OTHER -> v
  IN  IF w = "defer" THEN DeferBecomes ELSE w

\* A quarantine or a lock says v, of which a confirmation makes a DEFER that an
\* operator is asked about.
Observed(r, v) == IF r \in Confirms THEN "defer" ELSE v

\* v is settled and recorded.  It carries its session effect unless the scope
\* puts a decision of its own in its place.
Hold(r, v, effect) ==
  \E level \in Levels :
    Conclude(r, Table(r), Settled(r, v), level,
             effect /\ Scope[r] = "neutral", r \in Confirms)

-----------------------------------------------------------------------------
(* The ways through the flow. *)

\* A pre_action of a quarantined session: blocked, and marked once more, if no
\* trajectory alert blocks it in its own name.
Quarantine(r) ==
  /\ PreAction(r) /\ MarksOf(r).quarantined
  /\ Arrives(r)
  /\ \/ Hold(r, Observed(r, "block"), r \notin Confirms)
     \/ Hold(r, "block", FALSE)

\* A pre_action of a locked session.  A DEFER goes to the caller without an
\* approval.  The L3 review may not be completed.
Enforce(r) ==
  LET action == MarksOf(r).lock
  IN  /\ PreAction(r) /\ ~MarksOf(r).quarantined /\ action # "none"
      /\ Arrives(r)
      /\ \/ action = "block" /\ Hold(r, Observed(r, "block"), r \notin Confirms)
         \/ action \in {"defer", "l3_require"} /\ Hold(r, "defer", FALSE)
         \/ action = "l3_require" /\ Judge(r, Table(r))

\* Fault: the lock is not looked at.
EvaluateLocked(r) ==
  /\ ~(PreAction(r) /\ MarksOf(r).quarantined)
  /\ Arrives(r)
  /\ Judge(r, Table(r))

\* Nothing holds the request and nothing suspends it.
Evaluate(r) ==
  /\ ~Held(r)
  /\ Arrives(r)
  /\ Judge(r, Table(r))

\* The recogniser is asked first.
Suspend(r) ==
  /\ Recogniser /\ PreAction(r) /\ ~Held(r)
  /\ Arrives(r)
  /\ policy' = Table(r)
  /\ stage' = [stage EXCEPT ![r] = "recognising"]
  /\ UNCHANGED <<registry, risk, reply, analysing, found>>

\* It has answered: the marks are those of the arrival.
Continue(r) ==
  /\ stage[r] = "recognising"
  /\ Judge(r, policy)
  /\ UNCHANGED seen

\* The policy engine raises: an error reply, and nothing is recorded.
EngineFails(r) ==
  /\ \/ /\ Arrives(r)
        /\ ~Held(r) \/ (MarksOf(r).lock = "l3_require" /\ ~MarksOf(r).quarantined)
        /\ policy' = Table(r)
     \/ stage[r] = "recognising" /\ UNCHANGED <<seen, policy>>
  /\ stage' = [stage EXCEPT ![r] = "done"]
  /\ reply' = [reply EXCEPT ![r] = "error"]
  /\ UNCHANGED <<registry, risk, analysing, found>>

\* The approval is over: the resolution is recorded with the risk of the
\* decision, and the threshold is not evaluated.
Resume(r) ==
  /\ stage[r] = "waiting"
  /\ \E v \in {"allow", "block"} :
       /\ registry' = Registry!Recorded(registry, SessionOf[r],
                        Registry!Entry(r, v, risk[r], TRUE), FALSE)
       /\ reply' = [reply EXCEPT ![r] = v]
  /\ stage' = [stage EXCEPT ![r] = "done"]
  /\ UNCHANGED <<policy, seen, risk, analysing, found>>

\* The analysis of an output is done: its score is noted, and a finding locks
\* the session if it is configured to.
Analyse(r) ==
  /\ r \in analysing
  /\ registry' = Registry!Touched(registry, SessionOf[r])
  /\ analysing' = analysing \ {r}
  /\ \/ UNCHANGED <<policy, found>>
     \/ /\ found' = found \union {r}
        /\ policy' = IF FindingAction = "broadcast" THEN policy
                     ELSE Lock!Forced(policy, SessionOf[r], FindingAction)
  /\ UNCHANGED <<stage, seen, risk, reply>>

\* It raises; the task logs that and ends.
AnalysisFails(r) ==
  /\ r \in analysing
  /\ analysing' = analysing \ {r}
  /\ UNCHANGED <<registry, policy, stage, seen, risk, reply, found>>

\* An adapter reports what an action came to.
EffectResult(s) ==
  /\ registry' = Registry!Touched(registry, s)
  /\ UNCHANGED <<policy, stage, seen, risk, reply, analysing, found>>

-----------------------------------------------------------------------------
(* Operators and time. *)

ReleaseLock(s) ==
  /\ Lock!Locked(policy, s)
  /\ policy' = Lock!Released(policy, s)
  /\ UNCHANGED <<registry, stage, seen, risk, reply, analysing, found>>

ReleaseQuarantine(s) ==
  /\ Registry!Quarantined(registry, s)
  /\ registry' = Registry!Unquarantined(registry, s)
  /\ UNCHANGED <<policy, stage, seen, risk, reply, analysing, found>>

\* GET .../enforcement looks, and so drops a lock that has expired.
Query(s) ==
  /\ Lock!Expired(policy, s)
  /\ policy' = Lock!Checked(policy, s)
  /\ UNCHANGED <<registry, stage, seen, risk, reply, analysing, found>>

Tick ==
  /\ policy' = Lock!Older(policy)
  /\ UNCHANGED <<registry, stage, seen, risk, reply, analysing, found>>

Handler(r) ==
  \/ Quarantine(r) \/ Enforce(r) \/ Evaluate(r)
  \/ Suspend(r) \/ Continue(r) \/ EngineFails(r) \/ Resume(r)

Background(r) == Analyse(r) \/ AnalysisFails(r)

Next ==
  \/ \E r \in Requests : Handler(r) \/ Background(r)
  \/ \E s \in Sessions :
       EffectResult(s) \/ ReleaseLock(s) \/ ReleaseQuarantine(s) \/ Query(s)
  \/ Tick

Spec == Init /\ [][Next]_vars

-----------------------------------------------------------------------------
High(s) == {r \in Requests : SessionOf[r] = s /\ risk[r] = "high"}

\* Those of them whose event has another recorded request in the session.
Retried(s) ==
  {r \in High(s) : \E q \in Requests \ {r} :
     SessionOf[q] = s /\ EventOf[q] = EventOf[r] /\ risk[q] # "unknown"}

\* A lock comes from a finding in an output of its own session, or from as many
\* of its requests as the threshold says, recorded with a high risk: a deferred
\* request counts once, not again when it is resolved.  It may count twice only
\* if another try of its event came between, whose entry the resolution then
\* takes for its own, or once the timeline has lost entries.
LockGrounded ==
  [][\A s \in Sessions :
       ~Lock!Locked(policy, s) /\ Lock!Locked(policy', s) =>
         \/ \E r \in found' \ found : SessionOf[r] = s
         \/ registry'.by[s].scrolled
         \/ Cardinality(High(s)') + Cardinality(Retried(s)') >= Threshold]_policy

\* A pre_action that is let through was neither quarantined nor locked when it
\* arrived, or was reviewed as l3_require asks, or its scope allows it, or
\* benchmark mode answers for the lock that deferred it, or it is a confirmation
\* and was put before an operator; whatever else a lock or a quarantine lets
\* through was in flight before it.
NothingSlipsPast ==
  \A r \in Requests :
    PreAction(r) /\ reply[r] = "allow" =>
      \/ Scope[r] = "allow" \/ r \in Confirms
      \/ /\ ~seen[r].quarantined
         /\ \/ seen[r].lock \in {"none", "l3_require"}
            \/ seen[r].lock = "defer" /\ DeferBecomes = "allow"

\* A lock goes away only when it has expired, when an operator releases it and
\* does nothing else, or when the table was full and another session got a lock:
\* no request, resolution or finding lifts the lock of its own session.
LocksEndByRule ==
  [][\A s \in Sessions :
       Lock!Locked(policy, s) /\ ~Lock!Locked(policy', s) =>
         \/ Lock!Expired(policy, s)
         \/ \E u \in Sessions \ {s} :
              Len(policy.order) = MaxTracked /\ ~Lock!Locked(policy, u)
                /\ Lock!Locked(policy', u)
         \/ UNCHANGED <<registry, stage, risk, reply, analysing>>]_policy

-----------------------------------------------------------------------------
(* The registry in this company. *)

\* Registry and lock table stay within their capacities, and the order each
\* evicts by names every session it knows once, whichever of the writers
\* (handlers, the analysis, adapters' reports, expiries, releases) meets an
\* evicted session first.
TablesBounded == Registry!RegistryBounded /\ Lock!IsLockTable(policy)

\* The counters that lock sessions are what a recount of the timeline gives, as
\* long as nothing has scrolled out of it: also when two tries of one event are
\* deferred together and their resolutions meet each other's entries.
CountersMatchTimeline == Registry!CountersMatchTimeline

\* A quarantine ends only by an operator's release or by an eviction: no later
\* event of the session and no late result clears it.
QuarantineStands == Registry!QuarantineStands
=============================================================================
