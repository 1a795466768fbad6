---------------------------- MODULE DeferManager ----------------------------
(***************************************************************************)
(* The approval table of the supervision gateway                           *)
(* (gateway/policy/defer_manager.py): request handlers register an         *)
(* approval under an id and wait for it, operators resolve it by id, and   *)
(* the timer of the wait resolves it with the configured timeout action.   *)
(*                                                                         *)
(* Everything runs on one asyncio loop, so a step below is the code        *)
(* between two suspension points.  Two things happen between the moment a  *)
(* wait is decided and the moment its handler runs again, and the model    *)
(* keeps both apart:                                                       *)
(*   - the operator's resolve sets the event of the wait (`event`);        *)
(*   - the loop's timer of asyncio.wait_for fires (`timer`).               *)
(* When both happened before the handler runs, which of the two wait_for   *)
(* reports depends on their order in the loop's iteration and on the       *)
(* version of asyncio, so the model allows either.                         *)
(*                                                                         *)
(* A _PendingApproval object is owned by the handler that registered it,   *)
(* so pending maps an id to that handler and obj to the object's fields.   *)
(***************************************************************************)
EXTENDS Integers, FiniteSets, SequencesExt

CONSTANTS
  Tasks,          \* request handlers that ask for an approval
  Ids,            \* approval ids
  IdOf,           \* the id a handler uses; ids of confirmations are the caller's
  BindingOf,      \* the approval binding a handler registers
  Bindings,       \* bindings operators send back: functions from keys to values
  Payloads,       \* what an operator may have the agent run instead: strings
  NoBinding,      \* Python's None
  NoTask,         \* no entry under this id
  TimeoutAction,  \* what a timed-out approval becomes
  MaxPending,     \* capacity of the table, 0 for no limit
  MaxFinalized    \* how many finalized records are kept, 0 for no limit

Allowing == {"allow", "allow-once", "allow-always"}

\* What POST /ahp/resolve lets an operator say.
OperatorDecisions == {"allow-once", "deny"}

Outcomes == OperatorDecisions \union {"block", "allow"}

ASSUME TasksAssumption ==
  /\ IsFiniteSet(Tasks) /\ IsFiniteSet(Ids)
  /\ NoTask \notin Tasks
  /\ IdOf \in [Tasks -> Ids]
ASSUME BindingsAssumption == DOMAIN BindingOf = Tasks
ASSUME LimitsAssumption ==
  /\ MaxPending \in Nat
  /\ MaxFinalized \in Nat
  /\ TimeoutAction \in {"block", "allow"}

VARIABLES
  pending,    \* id -> the handler whose object is registered, or NoTask
  finalized,  \* id -> the finalized record under it, or NotFound
  order,      \* the ids of the finalized records, oldest first
  obj,        \* handler -> [state, decision, payload] of its _PendingApproval
  event,      \* handlers whose event is set
  timer,      \* handlers whose wait_for timer has fired
  pc,         \* handler -> where it is
  result,     \* handler -> what it was told and what get_approval then said
  answer      \* history: the resolve that was accepted ("ok") for a handler

vars == <<pending, finalized, order, obj, event, timer, pc, result, answer>>

\* No replacement came with the resolution.
NoPayload == ""
Replacements == Payloads \union {NoPayload}

\* Records as get_approval reports them, reduced to what the flow reads.
NotFound == [state |-> "not_found", decision |-> "", payload |-> NoPayload]
Fresh    == [state |-> "pending",   decision |-> "", payload |-> NoPayload]
Final    == [state : {"resolved", "timeout"}, decision : Outcomes,
             payload : Replacements]

NoResult == [decision |-> "", report |-> NotFound]
NoAnswer == [decision |-> "", binding |-> NoBinding, payload |-> NoPayload]

-----------------------------------------------------------------------------
(* Bindings: an approval is for one exact effect; approving another is drift. *)

\* Fault: a resolution without a binding is taken to fit.
DriftIgnoringMissing(approved, resolved) ==
  IF approved = NoBinding \/ resolved = NoBinding THEN {}
  ELSE {k \in DOMAIN approved :
          k \notin DOMAIN resolved \/ resolved[k] # approved[k]}

\* The keys of the approved binding that the resolution lacks or contradicts;
\* "missing" when the resolution brings no binding at all.
BindingDrift(approved, resolved) ==
  IF approved = NoBinding THEN {}
  ELSE IF DOMAIN approved = {} THEN {}
  ELSE IF resolved = NoBinding THEN {"missing"}
  ELSE {k \in DOMAIN approved :
          k \notin DOMAIN resolved \/ resolved[k] # approved[k]}

\* The decision that stands when an operator says d with binding b.
Effective(t, d, b) ==
  IF d \in Allowing /\ BindingDrift(BindingOf[t], b) # {} THEN "block" ELSE d

-----------------------------------------------------------------------------
(* The ordered table of finalized records. *)

\* Fault: setdefault, a record that is there stays.
StoreIfAbsent(id, rec) ==
  LET keys == IF finalized[id] = NotFound THEN Append(order, id) ELSE order
      full == MaxFinalized > 0 /\ Len(keys) > MaxFinalized
  IN  /\ order' = IF full THEN Tail(keys) ELSE keys
      /\ finalized' = [i \in Ids |-> IF full /\ i = Head(keys) THEN NotFound
                         ELSE IF i = id /\ finalized[i] = NotFound THEN rec
                         ELSE finalized[i]]

\* self._finalized[id] = rec: an id that is there keeps its place, and the
\* oldest record goes when there is one too many.
StoreFinalized(id, rec) ==
  LET keys == IF finalized[id] = NotFound THEN Append(order, id) ELSE order
      full == MaxFinalized > 0 /\ Len(keys) > MaxFinalized
  IN  /\ order' = IF full THEN Tail(keys) ELSE keys
      /\ finalized' = [i \in Ids |-> IF full /\ i = Head(keys) THEN NotFound
                                     ELSE IF i = id THEN rec ELSE finalized[i]]

\* self._finalized.pop(id, None)
DropFinalized(id) ==
  /\ order' = RemoveFirst(order, id)
  /\ finalized' = [finalized EXCEPT ![id] = NotFound]

PendingIds == {id \in Ids : pending[id] # NoTask}

-----------------------------------------------------------------------------
Init ==
  /\ pending = [id \in Ids |-> NoTask]
  /\ finalized = [id \in Ids |-> NotFound]
  /\ order = <<>>
  /\ obj = [t \in Tasks |-> Fresh]
  /\ event = {}
  /\ timer = {}
  /\ pc = [t \in Tasks |-> "idle"]
  /\ result = [t \in Tasks |-> NoResult]
  /\ answer = [t \in Tasks |-> NoAnswer]

\* Fault: the capacity test is off by one.
CanRegisterOneMore(t) ==
  /\ pending[IdOf[t]] = NoTask
  /\ MaxPending > 0 => Cardinality(PendingIds) <= MaxPending

CanRegister(t) ==
  /\ pending[IdOf[t]] = NoTask
  /\ MaxPending > 0 => Cardinality(PendingIds) < MaxPending

\* register_approval returns True, and wait_for_resolution runs up to its
\* suspension on the object just registered: the bridges of the decision flow
\* do both without a suspension point in between.
Register(t) ==
  /\ pc[t] = "idle"
  /\ CanRegister(t)
  /\ DropFinalized(IdOf[t])
  /\ pending' = [pending EXCEPT ![IdOf[t]] = t]
  /\ pc' = [pc EXCEPT ![t] = "waiting"]
  /\ UNCHANGED <<obj, event, timer, result, answer>>

\* register_approval returns False: the id is pending or the table is full.
Refuse(t) ==
  /\ pc[t] = "idle"
  /\ ~CanRegister(t)
  /\ pc' = [pc EXCEPT ![t] = "refused"]
  /\ UNCHANGED <<pending, finalized, order, obj, event, timer, result, answer>>

\* Fault: the entry is read and left for the handler to remove.
ResolveKeepsEntry(id, d, b, p) ==
  LET t   == pending[id]
      rec == [state |-> "resolved", decision |-> Effective(t, d, b),
              payload |-> p]
  IN  /\ t # NoTask
      /\ obj' = [obj EXCEPT ![t] = rec]
      /\ StoreFinalized(id, rec)
      /\ event' = event \union {t}
      /\ answer' = [answer EXCEPT ![t] =
                      [decision |-> d, binding |-> b, payload |-> p]]
      /\ UNCHANGED <<pending, timer, pc, result>>

\* POST /ahp/resolve: an approval that get_approval reports as pending is
\* resolved, and the operator is told "ok".
Resolve(id, d, b, p) ==
  LET t   == pending[id]
      rec == [state |-> "resolved", decision |-> Effective(t, d, b),
              payload |-> p]
  IN  /\ t # NoTask
      /\ obj[t].state = "pending"
      /\ pending' = [pending EXCEPT ![id] = NoTask]
      /\ obj' = [obj EXCEPT ![t] = rec]
      /\ StoreFinalized(id, rec)
      /\ event' = event \union {t}
      /\ answer' = [answer EXCEPT ![t] =
                      [decision |-> d, binding |-> b, payload |-> p]]
      /\ UNCHANGED <<timer, pc, result>>

\* Fault: the timer is bound to the entry in the table, not to the wait.
TimerFiresIfListed(t) ==
  /\ pc[t] = "waiting"
  /\ t \notin timer
  /\ pending[IdOf[t]] = t
  /\ timer' = timer \union {t}
  /\ UNCHANGED <<pending, finalized, order, obj, event, pc, result, answer>>

\* Fault: one timer for the whole table, which is not armed again.
TimerFiresOnce(t) ==
  /\ pc[t] = "waiting"
  /\ timer = {}
  /\ timer' = timer \union {t}
  /\ UNCHANGED <<pending, finalized, order, obj, event, pc, result, answer>>

\* The loop runs the timer handle of asyncio.wait_for.
TimerFires(t) ==
  /\ pc[t] = "waiting"
  /\ t \notin timer
  /\ timer' = timer \union {t}
  /\ UNCHANGED <<pending, finalized, order, obj, event, pc, result, answer>>

\* The wait leaves: its finally clause drops whatever the id names now, and
\* the caller reads the record of the id in the same step.
Leave(t, d) ==
  /\ pending' = [pending EXCEPT ![IdOf[t]] = NoTask]
  /\ pc' = [pc EXCEPT ![t] = "returned"]
  /\ result' = [result EXCEPT ![t] =
                   [decision |-> d, report |-> finalized'[IdOf[t]]]]
  /\ UNCHANGED <<event, timer, answer>>

\* Fault: a missing record is taken for a timeout.
WakeByRecordOnly(t) ==
  LET rec == finalized[IdOf[t]]
  IN  /\ pc[t] = "waiting"
      /\ t \in event
      /\ UNCHANGED <<finalized, order, obj>>
      /\ Leave(t, IF rec.state = "resolved" THEN rec.decision
                                            ELSE TimeoutAction)

\* wait_for reports the event: the finalized record counts if it is there and
\* resolved, the object otherwise.
WakeResolved(t) ==
  LET rec == finalized[IdOf[t]]
  IN  /\ pc[t] = "waiting"
      /\ t \in event
      /\ UNCHANGED <<finalized, order, obj>>
      /\ Leave(t, IF rec.state = "resolved" THEN rec.decision
                                            ELSE obj[t].decision)

\* Fault: the handler is always told "block", whatever the configuration.
WakeTimeoutBlocks(t) ==
  LET rec == [obj[t] EXCEPT !.state = "timeout", !.decision = TimeoutAction]
  IN  /\ pc[t] = "waiting"
      /\ t \in timer
      /\ obj' = [obj EXCEPT ![t] = rec]
      /\ StoreFinalized(IdOf[t], rec)
      /\ Leave(t, "block")

\* wait_for reports the timeout: the object and the record become "timeout",
\* over what a resolve may have written since the timer fired.
WakeTimeout(t) ==
  LET rec == [obj[t] EXCEPT !.state = "timeout", !.decision = TimeoutAction]
  IN  /\ pc[t] = "waiting"
      /\ t \in timer
      /\ obj' = [obj EXCEPT ![t] = rec]
      /\ StoreFinalized(IdOf[t], rec)
      /\ Leave(t, TimeoutAction)

\* Fault: no finally clause.
CancelKeepsEntry(t) ==
  /\ pc[t] = "waiting"
  /\ pc' = [pc EXCEPT ![t] = "cancelled"]
  /\ UNCHANGED <<pending, finalized, order, obj, event, timer, result, answer>>

\* The handler is cancelled while it waits (the server shuts down, the client
\* is gone): only the finally clause runs.
Cancel(t) ==
  /\ pc[t] = "waiting"
  /\ pending' = [pending EXCEPT ![IdOf[t]] = NoTask]
  /\ pc' = [pc EXCEPT ![t] = "cancelled"]
  /\ UNCHANGED <<finalized, order, obj, event, timer, result, answer>>

Handler(t) ==
  \/ Register(t) \/ Refuse(t)
  \/ TimerFires(t) \/ WakeResolved(t) \/ WakeTimeout(t)
  \/ Cancel(t)

Operator ==
  \E id \in Ids, d \in OperatorDecisions, b \in Bindings \union {NoBinding},
     p \in Replacements :
    Resolve(id, d, b, p)

\* Every request of the run has been served.
Served ==
  /\ \A t \in Tasks : pc[t] \in {"refused", "returned", "cancelled"}
  /\ UNCHANGED vars

Next == Operator \/ (\E t \in Tasks : Handler(t)) \/ Served

Spec == Init /\ [][Next]_vars

\* The loop fires due timers and runs the handlers it has made ready; nothing
\* makes an operator answer, a caller ask or a client go away.
Fairness ==
  \A t \in Tasks : /\ WF_vars(TimerFires(t))
                   /\ WF_vars(WakeResolved(t) \/ WakeTimeout(t))

FairSpec == Spec /\ Fairness

-----------------------------------------------------------------------------
TypeOK ==
  /\ pending \in [Ids -> Tasks \union {NoTask}]
  /\ finalized \in [Ids -> Final \union {NotFound}]
  /\ order \in Seq(Ids)
  /\ obj \in [Tasks -> Final \union {Fresh}]
  /\ event \subseteq Tasks
  /\ timer \subseteq Tasks
  /\ pc \in [Tasks -> {"idle", "refused", "waiting", "returned", "cancelled"}]
  /\ result \in [Tasks -> [decision : Outcomes \union {""},
                          report : Final \union {NotFound}]]
  /\ answer \in [Tasks -> [decision : OperatorDecisions \union {""},
                          binding : Bindings \union {NoBinding},
                          payload : Replacements]]

\* Nobody else uses the handler's id: true of every approval of the DEFER
\* bridge, whose ids are fresh, and not of confirmations.
Exclusive(t) == \A u \in Tasks \ {t} : IdOf[u] # IdOf[t]

\* Neither table outgrows its configured capacity, and the insertion order of
\* the finalized records names each of them once: an eviction never takes a
\* record for another (register_approval, _store_finalized).
TablesBounded ==
  /\ MaxPending > 0 => Cardinality(PendingIds) <= MaxPending
  /\ MaxFinalized > 0 => Len(order) <= MaxFinalized
  /\ ToSet(order) = {id \in Ids : finalized[id] # NotFound}
  /\ \A i, j \in 1..Len(order) : order[i] = order[j] => i = j

\* A slot of the table always has a handler that still waits on it, so no
\* timeout, answer, cancellation or reuse of an id leaks capacity; and what
\* is pending has not been answered and has no finalized record.
NoOrphans ==
  \A id \in PendingIds :
    LET t == pending[id]
    IN  /\ pc[t] = "waiting"
        /\ IdOf[t] = id
        /\ t \notin event
        /\ finalized[id] = NotFound

\* The operator's answer fits the effect the handler asked about.
Fits(t, b) ==
  \/ BindingOf[t] = NoBinding
  \/ \A k \in DOMAIN BindingOf[t] :
        /\ b # NoBinding
        /\ k \in DOMAIN b
        /\ b[k] = BindingOf[t][k]

\* A handler is told to go ahead only by an operator who allowed exactly the
\* effect it asked about, or by a timeout configured to allow.
AllowHasAuthority ==
  \A t \in Tasks :
    Exclusive(t) /\ result[t].decision \in Allowing =>
      \/ t \in timer /\ TimeoutAction \in Allowing
      \/ answer[t].decision \in Allowing /\ Fits(t, answer[t].binding)

\* An accepted answer that the timer did not overtake is the one the handler
\* gets, whatever the other approvals and the evictions do meanwhile.
AnswerStands ==
  \A t \in Tasks :
    Exclusive(t) /\ pc[t] = "returned" /\ t \notin timer =>
      /\ answer[t] # NoAnswer
      /\ result[t].decision =
           Effective(t, answer[t].decision, answer[t].binding)

\* The record the flow reads right after the wait tells the same story as the
\* wait: unless it was evicted, its decision is the one returned, it says
\* "timeout" only if the timer fired, and a resolved one carries the
\* replacement its operator sent.
ReportAgrees ==
  \A t \in Tasks :
    Exclusive(t) /\ pc[t] = "returned" /\ result[t].report # NotFound =>
      /\ result[t].report.decision = result[t].decision
      /\ result[t].report.state = "timeout" => t \in timer
      /\ result[t].report.state = "resolved" =>
           t \in event /\ result[t].report.payload = answer[t].payload

\* An operator is told "ok" at most once for one wait: the first accepted
\* answer is never replaced by a later one.
OneAnswer ==
  [][\A t \in Tasks : answer[t] # NoAnswer => answer'[t] = answer[t]]_vars

\* Every wait ends, even one whose entry was dropped by another wait on the
\* same id: the timer does not depend on the table.
WaitsEnd == \A t \in Tasks : pc[t] = "waiting" ~> pc[t] # "waiting"

-----------------------------------------------------------------------------
(* The table implements the contract for handlers whose ids are their own.  *)

PhaseOf(p) ==
  CASE p = "idle"      -> "new"
    [] p = "refused"   -> "refused"
    [] p = "waiting"   -> "open"
    [] p = "returned"  -> "closed"
    [] OTHER             -> "dropped"

Own == {t \in Tasks : Exclusive(t)}

ContractPhase == [t \in Own |-> PhaseOf(pc[t])]

ContractSaid == [t \in Own |->
  IF t \in event THEN Effective(t, answer[t].decision, answer[t].binding)
                 ELSE "none"]

ContractVerdict == [t \in Own |->
  IF pc[t] = "returned" THEN result[t].decision ELSE "none"]

Contract ==
  INSTANCE ApprovalContract WITH
    Tasks <- Own, Answers <- Outcomes, phase <- ContractPhase,
    said <- ContractSaid, expired <- timer \intersect Own,
    verdict <- ContractVerdict

\* Whatever the tables, evictions and other approvals do, those that share an
\* id included, each caller with an id of its own gets what the contract
\* promises: one verdict, from its own operator or timer.
ContractSpec == Contract!Spec

\* Its safety part: at most one verdict, and only an authorised one.
ContractSafety == Contract!Init /\ [][Contract!Next]_(Contract!cvars)
=============================================================================
