------------------------------ MODULE TokenBudget ------------------------------
(***************************************************************************)
(* The daily budget of LLM tokens: the tracker (LLMBudgetTracker in        *)
(* gateway/telemetry/metrics.py), the metrics collector that charges it    *)
(* and announces its exhaustion, the instrumented providers that tell the  *)
(* collector what a call has used (gateway/llm/provider.py), and the       *)
(* requests that read it (gateway/core/sync_decision_flow.py).             *)
(*                                                                         *)
(* A request reads the budget once, when it arrives.  Then it may be       *)
(* suspended in the call of the anti-bypass recogniser, and after that the *)
(* policy engine makes its own calls, one after the other, while the event *)
(* loop is blocked: those of the second and third tier go through one      *)
(* inner provider, "main", the recogniser has another, "anti".  Midnight   *)
(* (UTC) may pass at any time.  The deprecated budget in dollars, which    *)
(* applies only while no limit of tokens is set, is left out.              *)
(***************************************************************************)
EXTENDS Integers

CONSTANTS
  Requests,
  Recogniser,  \* the LLM recogniser is configured
  Triggered,   \* requests the engine reviews whatever tier was asked for
  Usages,      \* what a response may say it has used; zero if it says nothing
  Limit, Scope,
  MaxCalls,    \* calls the engine makes for one request, at most
  LastDay,     \* bounds the days that pass
  NoEvent

Inner == {"main", "anti"}

ASSUME BudgetAssumption ==
  /\ Triggered \subseteq Requests
  /\ Recogniser \in BOOLEAN
  /\ Usages \subseteq [input : Nat, output : Nat]
  /\ Limit \in Nat \ {0}
  /\ Scope \in {"total", "input", "output"}
  /\ MaxCalls \in Nat
  /\ LastDay \in Nat
  /\ NoEvent \notin 0..LastDay

VARIABLES
  today,
  tracker,    \* the tokens used, the calls of unknown usage, their day, and
              \* whether exhaustion has been announced
  lastUsage,  \* inner provider -> what its last response said it had used
  stage,      \* request -> where it is
  exhausted,  \* request -> what it read of the budget when it arrived
  calls,      \* request -> the calls the engine has made for it
  event,      \* the day of the announcement that reports show
  announced,  \* day -> the announcements broadcast on it
  reported,   \* day -> the tokens in scope that responses of that day reported
  stragglers  \* the requests in flight when the budget of the day ran out

vars == <<today, tracker, lastUsage, stage, exhausted, calls, event, announced,
          reported, stragglers>>

None == [input |-> 0, output |-> 0]

InScope(u) ==
  CASE Scope = "input"  -> u.input
    [] Scope = "output" -> u.output
    [] OTHER -> u.input + u.output

NewDay(day) ==
  [input |-> 0, output |-> 0, unknown |-> 0, day |-> day, notified |-> FALSE]

Init ==
  /\ today = 0
  /\ tracker = NewDay(0)
  /\ lastUsage = [p \in Inner |-> None]
  /\ stage = [r \in Requests |-> "new"]
  /\ exhausted = [r \in Requests |-> FALSE]
  /\ calls = [r \in Requests |-> 0]
  /\ event = NoEvent
  /\ announced = [d \in 0..LastDay |-> 0]
  /\ reported = [d \in 0..LastDay |-> 0]
  /\ stragglers = {}

-----------------------------------------------------------------------------
(* The tracker. *)

\* Fault: a new day does not forget that exhaustion was announced.
CurrentStillNotified(t) ==
  IF t.day = today THEN t ELSE [NewDay(today) EXCEPT !.notified = t.notified]

\* The tracker as every method of it first makes it: empty on a new day.
Current(t) == IF t.day = today THEN t ELSE NewDay(today)

\* Fault: the last token is still there when the limit is reached.
CanSpendAtLimit(t) == InScope(t) <= Limit

CanSpend(t) == InScope(t) < Limit

\* Fault: the day is looked at after the tokens have been added.
ChargedYesterday(t, u) ==
  IF u = None THEN [Current(t) EXCEPT !.unknown = @ + 1]
  ELSE LET added == Current([t EXCEPT !.input = @ + u.input,
                                      !.output = @ + u.output])
       IN  [added EXCEPT !.notified = @ \/ ~CanSpend(added)]

\* Usage that is nothing is unknown usage and costs nothing; the first charge
\* that reaches the limit is to be announced.
Charged(t, u) ==
  IF u = None THEN [Current(t) EXCEPT !.unknown = @ + 1]
  ELSE LET added == [Current(t) EXCEPT !.input = @ + u.input,
                                       !.output = @ + u.output]
       IN  [added EXCEPT !.notified = @ \/ ~CanSpend(added)]

\* The charge takes the tracker across the limit.
Crosses(t, u) == ~Current(t).notified /\ Charged(t, u).notified

-----------------------------------------------------------------------------
(* Calls. *)

InFlight == {r \in Requests : stage[r] \in {"recognising", "evaluating"}}

\* A call through the inner provider p is over and has used u: what p holds of
\* the last response is charged, and an exhaustion announced and kept.
Charge(p, u) ==
  /\ lastUsage' = [lastUsage EXCEPT ![p] = u]
  /\ tracker' = Charged(tracker, u)
  /\ IF Crosses(tracker, u)
     THEN /\ event' = today
          /\ announced' = [announced EXCEPT ![today] = @ + 1]
          /\ stragglers' = InFlight
     ELSE UNCHANGED <<event, announced, stragglers>>
  /\ UNCHANGED <<today, exhausted>>

\* The provider responds.
Responds(p) ==
  \E u \in Usages :
    /\ Charge(p, u)
    /\ reported' = [reported EXCEPT ![today] = @ + InScope(u)]

\* It does not: an error after the last retry, a timeout, or the caller is
\* cancelled.  The usage that is charged is that of the response before.
Fails(p) == Charge(p, lastUsage[p]) /\ UNCHANGED reported

Call(p) == Responds(p) \/ Fails(p)

-----------------------------------------------------------------------------
(* Requests. *)

LoopFree == \A r \in Requests : stage[r] # "evaluating"

\* A request arrives: it reads the budget, and asks the recogniser if the
\* budget allows.
Arrive(r) ==
  /\ LoopFree /\ stage[r] = "new"
  /\ tracker' = Current(tracker)
  /\ exhausted' = [exhausted EXCEPT ![r] = ~CanSpend(tracker')]
  /\ stage' = [stage EXCEPT ![r] =
                 IF Recogniser /\ CanSpend(tracker') THEN "recognising"
                 ELSE "evaluating"]
  /\ UNCHANGED <<today, lastUsage, calls, event, announced, reported, stragglers>>

\* The recogniser has been heard, or not: its match may be the decision, and
\* a client that disconnects ends the request here.
Recognised(r) ==
  /\ LoopFree /\ stage[r] = "recognising"
  /\ Call("anti")
  /\ \E next \in {"evaluating", "done"} : stage' = [stage EXCEPT ![r] = next]
  /\ UNCHANGED calls

\* The engine asks the LLM: when the budget was used up at the arrival only
\* what the engine reviews of its own accord.
Review(r) ==
  /\ stage[r] = "evaluating" /\ calls[r] < MaxCalls
  /\ exhausted[r] => r \in Triggered
  /\ Call("main")
  /\ calls' = [calls EXCEPT ![r] = @ + 1]
  /\ UNCHANGED stage

\* The engine has decided.
Decide(r) ==
  /\ stage[r] = "evaluating"
  /\ stage' = [stage EXCEPT ![r] = "done"]
  /\ UNCHANGED <<today, tracker, lastUsage, exhausted, calls, event, announced,
                 reported, stragglers>>

-----------------------------------------------------------------------------
(* Reports and time. *)

\* A report shows the state of the budget and drops an announcement that is
\* out of date.
Report ==
  /\ LoopFree
  /\ tracker' = Current(tracker)
  /\ event' = IF CanSpend(tracker') THEN NoEvent ELSE event
  /\ UNCHANGED <<today, lastUsage, stage, exhausted, calls, announced, reported,
                 stragglers>>

Midnight ==
  /\ today < LastDay
  /\ today' = today + 1
  /\ UNCHANGED <<tracker, lastUsage, stage, exhausted, calls, event, announced,
                 reported, stragglers>>

Next ==
  \/ \E r \in Requests : Arrive(r) \/ Recognised(r) \/ Review(r) \/ Decide(r)
  \/ Report
  \/ Midnight

Spec == Init /\ [][Next]_vars

-----------------------------------------------------------------------------
\* The exhaustion of a day is announced once, when the tokens reach the limit
\* and never before, and as long as they are used up it is the announcement of
\* that very day that reports show.
ExhaustionAnnounced ==
  /\ \A d \in 0..LastDay : announced[d] <= 1
  /\ announced[tracker.day] = (IF InScope(tracker) < Limit THEN 0 ELSE 1)
  /\ InScope(tracker) >= Limit => event = tracker.day

\* Every token that a response of the day has reported is charged to that day,
\* whichever request it was for and however midnight fell.
NothingLost == InScope(tracker) >= reported[tracker.day]

\* Once the budget of the day is used up, a call is made only for a request
\* that was in flight when it ran out, or that the engine reviews anyhow: the
\* overshoot is bounded by what was under way.
StragglersOnly ==
  [][\A r \in Requests :
       /\ tracker.day = today /\ InScope(tracker) >= Limit
       /\ calls'[r] # calls[r] \/ (stage[r] = "recognising" /\ stage'[r] # stage[r])
       => r \in stragglers \union Triggered]_vars

-----------------------------------------------------------------------------
(* What the documentation says, and the code does not do. *)

\* A call of unknown usage is counted as such: no tokens are invented for it.
NoInventedTokens == InScope(tracker) <= reported[tracker.day]
=============================================================================
