# ClawSentry: specifications, model checking and proofs

ClawSentry is a gateway that supervises what an AI agent does. An agent framework
sends every action (a tool call, its output, a confirmation) to the gateway, which
allows, blocks, changes or defers it; a deferred action waits for an operator. This
directory holds TLA+ specifications of the gateway's core, the TLC configurations
that check them, and proofs for TLAPS. Every definition is written from the Python
source below `src/src/clawsentry/`; `PROJECT.json` names the lines each definition
stands for. Paths below are relative to `src/src/clawsentry/`, documents to `src/`.

Contents: 1 the system, 2 the modules and how they correspond to the code, 3 the
runs, 4 bounds and fairness, 5 the proofs, 6 where code and documents differ, 7
what is left out, 8 the plan.

## 1 The system

One process, one asyncio loop. A handler is interrupted only where it awaits, so
between two awaits it is atomic; what runs outside the loop is the executor (the
analysis of tool outputs). The policy engine, with its calls of an LLM, does not
await: it blocks the loop. The state is in memory, except for the audit trail and the
advisory jobs, which are in SQLite.

    framework -> adapter -> [UDS | HTTP] -> handle_sync_decision
                                               |  idempotency cache    (look up)
                                               |  quarantine, session lock, budget
                                               |  anti-bypass guard, its recogniser (await)
                                               |  policy engine: tiers, scope, benchmark mode
                                               |  audit trail, session registry, lock
                                               |  event bus, metrics
                                               |  approval table       (await)
                                               |  audit trail, registry again
                                               v  idempotency cache    (store), reply
    operator -> POST /ahp/resolve, lock and quarantine releases
    executor -> post-action analysis -> registry, lock, alerts, event bus
    SSE client <- event bus

| Part | State | Operations | Talks to | Hard, and what makes it correct |
|---|---|---|---|---|
| Approval table `gateway/policy/defer_manager.py` | pending approvals by id, finalized records by id in insertion order | `register_approval`, `resolve_approval`, `get_approval`, `wait_for_resolution` with its timer, cancellation, eviction | decision flow (register, wait, read the record), `runtime/stack.py` (resolve) | an answer and a timer before the handler runs; ids chosen by the caller and reused; capacity. No slot leaks, every wait ends, one answer, nothing goes ahead without authority, the record read afterwards tells what the wait returned |
| Idempotency cache `gateway/storage/idempotency.py` | response and expiry by request id, in insertion order | `get`, `put`, `cleanup`, `periodic_cleanup` | decision flow | edits of one dict from three places. Bounded; a valid response is neither replaced nor evicted while an older one is there |
| Decision flow `gateway/core/sync_decision_flow.py`, `approval_bridge.py` | none of its own, an attempt's place in the code | one attempt from lookup to reply, with both approval bridges | everything | retries of one request in flight together; failures between two writes; the deadline. What is told is audited, what is cached was told in time, the gauge counts the waits, every attempt ends |
| Session registry `gateway/storage/session_registry.py` | per session: counters, bounded timeline, quarantine; at most 10000 sessions | `record`, `record_post_action_score`, `record_adapter_effect_result`, `release_quarantine`, eviction | decision flow, post-action analysis, session lock | a deferred action is recorded twice, and the first entry may be gone by then. Counters match the timeline, the order that evictions use is exact, a quarantine stands |
| Session lock `gateway/policy/session_enforcement.py` | locked sessions, in insertion order | `check`, `force`, `evaluate_threshold`, `release`, `get_status`, eviction | decision flow, post-action analysis, operators | written by requests, the executor, operators and time. A lock has a reason, and ends only by rule |
| Session guard: the marks as the flow applies them | the two above, and what suspended handlers have read | quarantine, lock, evaluation, suspension, resolution, analysis, releases | | marks read before an await and used after it; scope and benchmark mode get the last word. What was marked on arrival does not slip through |
| Event bus `gateway/telemetry/event_bus.py` | subscribers with bounded queues, a replay buffer | `subscribe`, `broadcast`, `unsubscribe`, the reading stream | flow, registry, alerts; SSE endpoint | the seam of replay and live events; overflow. A lossy FIFO that loses its oldest and counts what it loses |
| Policy engine `policy/engine.py`, `analysis/semantic_analyzer.py` | L3 reviews per session, contamination marks | route an event to a tier, ask the reviewers, merge, fail closed | flow, LLM providers | each of six mechanisms changes or drops the tier of a review, and reviewers degrade or time out. A route nobody cleared is blocked, no review lowers a risk |
| Risk, content evidence, effects normaliser `analysis/`, `effects/` | rule sets | pure classification of text | engine, guard | its verdict is a free choice in the models |
| L3 advisory jobs `gateway/l3/`, `storage/trajectory_store.py` | snapshots, jobs, reviews in SQLite | freeze, enqueue, claim, run, complete, fail, post, patch, expire | flow, heartbeat, operators | a crash between two commits, retention, reviews that runs and operators share. A job runs once and ends, no high-risk record is overlooked |
| Trajectory store `gateway/storage/trajectory_store.py` | audit trail in SQLite | record, replay, retention | flow, reports | its order per attempt is in DecisionFlow, retention in AdvisoryJobs |
| Budget and metrics `gateway/telemetry/metrics.py`, `llm/provider.py` | daily token budget, counters, gauge | test, charge, announce, report, reset at midnight | flow, LLM calls | tested before a call and charged after it, midnight anywhere. Announced once, no token lost, the overshoot known. The gauge is in DecisionFlow |
| Alert registry `gateway/storage/alert_registry.py` | bounded table of alerts | add, list, acknowledge | flow, analysis, UI | a record without the keys the listing reads. Not modelled |
| Anti-bypass guard `analysis/anti_bypass_guard.py` | per session: priors, denied effects, held effects in bounded deques | match, record, hold, resolve, expire | flow | the order of the checks, and holds resolved by other steps than put them down. What is denied or held is met again, and the memory holds nothing else |
| Trajectory analyser `analysis/trajectory_analyzer.py` | a window of events per session | record and match | flow | windows at their limits. Not modelled |
| Rules and pattern evolution `gateway/rules/` | patterns, candidates with counts | confirm, promote, retire | LLM findings | life cycle of a candidate. Not modelled |
| Skill trust, FSPR `gateway/trust/`, `gateway/fspr/` | skills and their trust on disk | first use, review, trust | flow | life cycle of a skill. Not modelled |
| Adapters `adapters/` | retry counters, connections | translate, send, retry, fall back | gateway | socket, then HTTP, then a local verdict. Not modelled |
| Codex watcher, Latch `gateway/runtime/codex_watcher.py`, `latch/` | file offsets, PID files | poll, supervise | | files that rotate, processes that restart. Not modelled |
| Transport, HTTP endpoints, reporting, configuration, CLI | none that outlives a request | | | routing and presentation; endpoints that change state are actions of the module whose state they change |

`PROJECT.json` repeats this list with the sources and the status of each part, and
lists the hazards, each at the line where it bites and with the properties aimed
at it.

## 2 The modules

    ApprovalContract <---- DeferManager ----+
     (what is promised)     |               +--> DecisionFlow -- DecisionFlowProofs
                            |  IdempotencyCache --^                |
                    DeferManagerProofs <--------(INSTANCE)---------+

    IdempotencyCache, AntiBypassMemory -- FlowMemoryProofs

    SessionRegistry ----+
    SessionEnforcement -+--> SessionGuard -- SessionGuardProofs

    TokenBudget -- TokenBudgetProofs        AdvisoryJobs -- AdvisoryJobsProofs
    TieredReview -- TieredReviewProofs      EventBus -- EventBusProofs

A composing module INSTANCEs the components and conjoins their actions with its own
variables, so that an action of the flow is the whole step of the code between two
awaits. Operators whose comment starts with "Fault:" belong to no specification: each
is a definition with a plausible bug in it, and with it in the definition's place TLC
finds the property that `PROJECT.json` pairs it with violated.

### DeferManager, ApprovalContract

| TLA+ | Code |
|---|---|
| `pending`, `finalized`, `order` | `_pending`, `_finalized` and the order of that OrderedDict |
| `obj` | `state`, `decision`, `modified_payload` of the handler's `_PendingApproval` |
| `event`, `timer` | the approval's `asyncio.Event` is set; the timer of `asyncio.wait_for` has fired |
| `pc`, `result`, `answer` | where the handler is; what the wait returned and the record then read; history of the accepted resolve |
| `Register`, `Refuse` | `register_approval`, followed without an await by `wait_for_resolution` up to its suspension; `False` |
| `Resolve` | `POST /ahp/resolve` and `resolve_approval`, with the binding check |
| `TimerFires` | the loop runs the timer's handle |
| `WakeResolved`, `WakeTimeout` | the handler runs again, on the event or on the timer; if both are set before it runs either may be reported |
| `Cancel` | the handler is cancelled: only the `finally` clause |

Deciding a wait and running its handler are separate steps: in between other
operators answer, other approvals evict the record, and another handler may
register the same id. `ApprovalContract` states what one caller is promised with
none of those tables: opened once, closed once, with an answer given while it was
open or, when its time is over, the timeout action. `Contract` in `DeferManager`
is the refinement mapping; it covers the callers whose id is their own, in the
company of callers that share one, and for the latter nothing of the sort holds
(section 6).

### IdempotencyCache

`store`, `before` and `stale` are the dict, the insertion order of its keys as a
relation, and the keys whose expiry has passed. `Get` deletes an expired entry,
`Put` makes room by evicting the first key even when its own key is there expired,
`Cleanup` is the periodic task. The lock in the code makes each one step.

### DecisionFlow

An attempt is one call of `handle_sync_decision`. Its `stage` is `new`, `evaluating`
(suspended in the recogniser), `waiting` (for an operator), `done` or `failed`.
`records` is what the audit trail has of it, `reply` what its caller was told,
`gauge` the metric of pending approvals.

| TLA+ | Code |
|---|---|
| `Arrive` | `_cached_success_response`, and everything before the recogniser |
| `EngineFails`, `DecideFails` | the engine raises (an error reply); recording the decision raises (no reply) |
| `Decide` | a decision that is final: recorded, answered. A DEFER is one too where the bridge is off or the session is under enforcement |
| `NoRoute`, `QueueFull` | a confirmation without a bridge, an approval the table refuses: both records in one step, answered with a block |
| `Ask` | the deferred decision is recorded, the gauge goes up, the table registers |
| `Resume`, `ResumeFails`, `Interrupt` | the wait is over and the resolution is recorded; recording it raises; the handler is cancelled |
| `Respond` | the deadline check, the store in the cache and the reply |
| `Operator`, `Timer`, `CacheAges` | the steps of the two tables that no handler takes |

### SessionRegistry

The operations are functions of a registry (`Recorded`, `Touched`,
`Unquarantined`) that `SessionGuard` calls where the code does; the registry's
properties are stated here and checked in that company, so that the order of its
writers is that of the flow and not one made up for the registry. `Recorded` is
`record()`: pop, take back what the newest entry of the event counted for if this
is a resolution, count, append to the bounded timeline, reinsert, evict. `resolves`
in an entry and `scrolled` in a session are history for the properties. Of a
session's record the model keeps the counters that enforcement reads, the timeline
and the quarantine; the `latest_*` fields, scores and hints do not feed back into
the modelled flow.

### SessionEnforcement, SessionGuard

`SessionEnforcement` is the lock table with its operations as functions; a lock's
age counts ticks since `last_high_risk_at`. `SessionGuard` is the flow as far as
holding back a session is concerned. `seen` is what a handler read on arrival.

| TLA+ | Code |
|---|---|
| `Quarantine`, `Enforce` | the two branches that hold a pre_action back (lines 302-347 and 457-560 of the flow) |
| `Observed` | a confirmation becomes a DEFER whatever the marks say (line 906), and an operator is asked about it |
| `Evaluate`, `Suspend`, `Continue` | evaluation at once, or after the recogniser |
| `Conclude` | the decision is recorded, the threshold evaluated on the new counters, the analysis of an output started, the caller answered or an operator asked |
| `Settled`, `Hold` | what an enforced scope and benchmark mode make of the verdict of a mark |
| `Resume` | the resolution, recorded with the risk of the decision; the threshold is not evaluated |
| `EffectResult` | an adapter reports the effect of an action; a session that was evicted is created anew |
| `Analyse`, `AnalysisFails` | the background analysis of an output ends, perhaps in a forced lock |
| `ReleaseLock`, `ReleaseQuarantine`, `Query`, `Tick` | operators and the clock |

The verdict and risk of an evaluation are free choices, and so is an operator's
answer: approvals are the business of the other family of modules.

### EventBus

`log` is everything that was broadcast, which the code does not keep; an event is
its position there, and the queues and the replay buffer hold positions. `Subscribe`
replays and opens, `Refuse` is the full bus (503), `Broadcast` offers the event to
every matching queue and drops the head of a full one, `Take` is the stream's
generator, `Close` its `finally` clause. `MaxEvents` bounds the model and nothing
in the code.

### AdvisoryJobs

The tables of one session: `records` (the decisions recorded, of which retention has
deleted the first `expired`), `snapshots`, `jobs`, `reviews`. Ids are hashes of
content in the code, so here a snapshot is its content and a review is known by what
it was first written with: this is how two runs come to share one. A snapshot also says
who took it: the gateway takes the newest records, as many as fit, while operators
choose the stretch and, at the snapshots endpoint, the reason as well (`Reasons`: any
text, of which only `heartbeat_aggregate` is told apart). Every call of the store
commits by itself, and `task` is the handler under way with what it commits next;
`Crash` falls between any two commits, and nothing looks at the tables at the restart.

| TLA+ | Code |
|---|---|
| `Record`, `Freeze`, `MaybeFreeze`, `Enqueue` | a decision is recorded; the snapshot of a request, an alert or the heartbeat; its job |
| `RequestReview` | the endpoint of a full review: snapshot, job and, if asked for, its run |
| `RequestSnapshot` | the endpoint that only takes a snapshot, and queues nothing |
| `RequestJob`, `RunJob`, `RunNext`, `RunLocalReview`, `PostReview`, `PatchReview` | the operators' other endpoints |
| `Claim`, `OpenReview`, `StartReview`, `CloseReview`, `WorkerFails`, `FinishJob` | the commits of a run, each a step |
| `Expire` | `_prune_expired` |

### TokenBudget

| TLA+ | Code |
|---|---|
| `tracker`, `today` | `LLMBudgetTracker` and the UTC day, which each method compares for itself |
| `lastUsage` | `_last_usage` of the inner provider: one that L2 and L3 share, one of the recogniser |
| `Arrive` | the budget is read, once per request |
| `Recognised`, `Review` | a call of the recogniser, during which the loop runs; a call of the engine, which blocks the loop. Each responds or fails, and is charged in either case |
| `Decide`, `Report`, `Midnight` | the request ends; a report resets the day and drops an announcement out of date; the clock |

`announced`, `reported` and `stragglers` are history for the properties.

### TieredReview

`review` is the evaluation under way; its steps (`Begin`, `Rules`, `LLM`, `Agent`,
`Merge`, `Fails`, `Return`) are those a timeout can fall between. `runs` and
`contaminated` are what the engine remembers of a session from one evaluation to the
next, and `Finding` marks a session in between. The first tier's findings are part of
the event (risk, authority, routing intents, triggers, scope); the time budget left for the
reviewers may be nothing, so that `Fails` may come before anybody is heard; what a
reviewer says is any result the analyser can produce, as a level, a confidence and
whether it clears, objects, asks for L3 or leaves the matter pending. `Composite` is the
merge of `CompositeAnalyzer`, used twice as in the code: inside the second tier and over
both.

### AntiBypassMemory

`memory` is the three deques of one session (`prior`, `denied`, `held`), oldest first;
a record carries the time it still has to live, so that the clock needs no bound.

| TLA+ | Code |
|---|---|
| `Arrive`, `Recognised` | an attempt is matched, in the order of the code: preempting denials, texts, other denials, holds; then the engine |
| `Observed`, `Alerted`, `Scoped` | in this order: a confirmation becomes a DEFER, the trajectory alert may block or defer, the session's scope has the last word |
| `Settle` | the decision is recorded in the memory, and only then is an operator asked, or the request blocked because nobody can be asked |
| `Recorded`, `Held`, `Resolved` | a final decision is remembered; a deferral is held; its resolution takes the holds of its event id away |
| `Enforce` | a quarantine, a session lock or the review that a lock requires decides without asking the guard |
| `Resolve`, `Abandon`, `Tick` | an operator or the timeout; a client that goes away; time |

How like two texts are and which effects a text has are CONSTANTS (`Likeness`,
`Effect`): comparing texts is data, what is done with the comparison is control.
`due` is history: how long an attempt is still due to be remembered. So is `on` in a
denial: whether it was made on the decision or on the answer to what was asked.

## 3 The runs

| Run | Specification | Instance | What it shows |
|---|---|---|---|
| `defer` | DeferManager, FairSpec | two waits that share an id, one with its own; one slot, one record; timeout `allow`; bindings that fit, drift or are missing | `TablesBounded`, `NoOrphans`: no history of reuse, cancellation and eviction leaks a slot or confuses the order. `AllowHasAuthority`, `AnswerStands`, `ReportAgrees`, `OneAnswer`: answers against timers. `WaitsEnd`. `ContractSpec`: implements the contract, fairness included |
| `cache` | IdempotencyCache | four ids, two responses, three places | `CacheBounded`, `FirstResponseStands`, `ValidEntriesKept` |
| `flow_mixed` | DecisionFlow | two attempts of one confirmation, one deferred action; one slot, one record, one cache entry | `AnswersAudited`, `GaugeExact` (with what a failed wait leaves behind), `CacheHonest` |
| `flow_action` | DecisionFlow, FairSpec | two attempts of one action with approvals of their own, a confirmation without a bridge; replacements; timeout `allow` | `GrantsGrounded`, `ReplacementStands`, `AttemptsEnd` |
| `guard_table` | SessionGuard | two sessions, a lock table and a registry of one, threshold two, timeline of three, findings that block, a scope that relaxes, benchmark mode that blocks | `LockGrounded`, `TablesBounded`, `LocksEndByRule` |
| `guard_review` | SessionGuard | one session: an action, a confirmation under the same event id, an output; locks that ask for L3, quarantine, findings, suspension, approvals, benchmark mode that allows | `NothingSlipsPast`, though an operator may let the confirmation through, `CountersMatchTimeline`, `QuarantineStands` |
| `bus` | EventBus | three streams with two filters for two places; queues of two, replay of one, three events | `OldestLost`, `LossesCounted`, `QueuesMove` |
| `advisory` | AdvisoryJobs, FairSpec | two decisions, two requests of operators with any stretch and either reason, snapshots of one record, retention, one crash | `RunningIsRun`, `JobsRunOnce`, `CompletedHasReview`: however often a job is queued, named or shared, and wherever the crash falls. `OneHeartbeatBacklog`, `EvidenceCovered`: the heartbeat neither piles up nor overlooks a high-risk record that no operator's heartbeat has jumped over. `QueueDrains` |
| `budget` | TokenBudget | three requests, calls of one or two tokens, of none, or that fail, limit three, two days | `ExhaustionAnnounced`, `NothingLost`, `StragglersOnly` |
| `review` | TieredReview | ten kinds of event in two sessions, every tier that may be asked for, benchmark mode, a cap of one | `ReviewFailsClosed`, `RiskNeverLowered`, `ContaminationReviewed` |
| `bypass` | AntiBypassMemory | three attempts: a script that writes and fetches, its retry under the same event id, a confirmation of another tool's write in the same family; three records per deque, for two ticks | `Challenged`, `MemoryGrounded` |
| `budget_invented` | TokenBudget | as `budget` | a violation, section 6 |

The runs do not check type invariants: those of the modules with a proof are part of what
is proved. Deadlock is checked in all runs but `bus` and `advisory`,
which stop when their events and requests are used up, and nothing is wrong with that.
The approval table and the decision flow end in `Served`, a self-loop that is enabled
only when every caller has its answer or has failed, so that any other stop is an error;
the cache, the guard, the budget, the engine and the memory always have a step to take
(a lookup, the clock, a report, the next evaluation).

## 4 Bounds and fairness

**Bounds.** Capacities are as small as they can be for evictions and refusals to
happen: one slot and one finalized record make the second wait a refusal and the
second record an eviction; a registry and a lock table of one make each new session
evict the other. `0` means "no limit" where the code says so (`defer_max_pending`,
`max_finalized`, `Cooldown` for never). Two attempts of one request are what
overlapping needs, a third with another id competes with them for the tables.
A timeline of six keeps the decisions and resolutions of three requests, whose counters
`guard_review` compares with it entry by entry; one of three scrolls in `guard_table`.
A threshold of two is the least at which counting an event twice shows. The queue of
two with three events overflows, and the replay of one has a seam in it. A cache of
three can delete its first, middle and last entry. Histories in the models (`records`,
`read`, `log`) are bounded by the number of attempts and by `MaxEvents`. No run uses
a state constraint.

In `advisory` a snapshot of one record makes the second record drop the first from it,
two requests let an operator run a job twice, run the next one, reopen a review behind a
run, or take a snapshot in the heartbeat's name and queue or review it; `MaxCrashes` is
one because nothing recovers between two. In `budget` two requests in flight overshoot a
limit of three while a third arrives too late; `LastDay` is one because the tracker
knows of no day but its own. In `review` a cap of one is reached by one event and asked
for by the next. In `bypass` the script and its retry have two capabilities each and the
confirmation is denied up to twice, which is more than three places hold; a lifetime of
two ticks lets a record expire before, between and after the others. The clock is not
bounded, since records carry the time they have left. What a scope allows
`NothingSlipsPast` excepts whatever the marks say, so `guard_review` has no scope;
`guard_table` has one that lets a request pass and one that denies a capability.

**Fairness.** Nothing forces an operator to answer, a client to retry or to go away,
or an output's analysis to end.

- `DeferManager`, `DecisionFlow`: weak fairness of each wait's timer and of each
  handler that is ready to run. The asyncio loop fires due timers and runs ready
  callbacks in FIFO order, and neither step can be disabled by another handler: the
  timer belongs to the wait, not to the table. The step out of `evaluating` is fair
  because the recogniser's call has a timeout of its own; the configured approval
  timeout is positive (`detection_config.py:546`).
- `EventBus`: weak fairness of `Take`. The stream's generator loops on its queue for
  as long as its client is connected; a client that stops reading without
  disconnecting is a stream that stays slow, not one that is closed, and the property
  says only what a stream that runs does. Liveness is stated per stream, so that one
  fast stream cannot stand for a slow one.
- `AdvisoryJobs`: weak fairness of `Work`, what a handler has begun, which the loop
  carries on with unless the process dies. No worker polls the queue: jobs run when
  somebody asks, so that `QueueDrains` has the operator who keeps asking in its
  premise and not in the specification.

## 5 The proofs

Eight modules, checked by TLAPS for every value of the constants that satisfies the
named assumptions: finite sets of handlers, ids, keys and attempts, capacities in
Nat, a timeout action among those the configuration allows, usages and a limit in Nat.

**DeferManagerProofs.** `TypeOK` and `NoOrphans` are close to inductive, the rest
is not: an eviction is right only if the order names every record once, and what a
handler is told depends on what was written between its answer and its wake-up.
The inductive invariant `IInv` adds

- `RecordsOK`: the order is a sequence without repetition of exactly the ids that
  have a finalized record, within its capacity;
- `Provenance(t)`: a wait whose event is not set has no answer; between the answer
  and the wake-up the handler's object carries the answer, and so does the record
  under its id unless it was evicted; after it, what was returned is the answer or,
  the timer having fired, the timeout action, and the report agrees. The object's
  replacement is the answer's throughout, a timeout notwithstanding.

The last two parts of `Provenance` need the id to be the handler's own; the rest
holds for shared ids too. The lemmas `StoreKeepsRecords`, `DropKeepsRecords` (over
`RemoveFirst` of SequencesExt, by `RemoveFirstDistinct`) deal with the order, one
lemma per action with the state, and `NextIInv` combines them. From `IInv` follow
`TypeInvariant`, `TablesStayBounded`, `NoLeakedSlot`, `AllowNeedsAuthority`,
`AcceptedAnswerStands`, `ReportsAgree` and `AtMostOneAnswer` (an action property).
`ImplementsContract` proves the safety part of the refinement: each step maps to a
step of the contract or a stutter. Handlers that share an id are not in the
contract's set, and lemmas `OthersUnseen` and `HandlerUnseen` show that nothing they
do can be seen through the mapping.

**FlowMemoryProofs** is about what the flow remembers between requests, the replies and
the denials. Of the cache, `CacheInv` is the type invariant, the size and the total
order of the keys, each of which the others need: an eviction frees a place only if
there is an oldest key, and there is one (`OldestExists`, by well-foundedness of
strict inclusion on finite sets) only if the order is total. Its theorems are
`CacheTypeInvariant`, `CacheStaysBounded`, `FirstStands` and `ValidKept`.

**DecisionFlowProofs.** `AnswersStand`, `CacheTold` and `GaugeCounts` prove
`AnswersAudited`, `CacheHonest` and `GaugeExact` for any number of attempts in any
interleaving. `AnswersAudited` is not inductive: it follows from `LastTold` (an attempt
that has records was told the last of them) and `TwinTold` (an answer without records
of its own is the answer of an attempt that has some), and the step that reads the cache
needs `CacheHonest` to find that attempt. Of the cache the proof uses only that it
forgets or learns what is put into it (`PutFacts`, `GetFacts`, `AgesFacts`), of the
table only where it leaves a handler (`TableFacts`). `GaugeInv` says where the table has
an attempt, by where the flow has it; without that `Resume` might take down a gauge that
`Ask` never raised. Each action is a case of `ToldStep`, `UntoldStep` or `QuietAudit`
for the audit trail, and of `GaugeMove` or `QuietGauge` for the gauge.

A second part composes flow and table. It instantiates DeferManagerProofs with the
constants of the flow, shows that every step of the flow is one of the table or leaves
it alone (`FlowUsesTable`), and so takes over what is proved there: the contract
(`FlowKeepsContract`) and the inductive invariant. With `ResultTold`, which says that a
caller whose wait is over was told what `Verdict` and `Source` make of its result,
`Provenance` traces a reply back to the operator's answer or the timeout:
`GrantsHaveGrounds` and `ReplacementsStand` prove `GrantsGrounded` and
`ReplacementStands`. `Table` in DecisionFlow and `Approvals` here are two instances of
one module, whose operators the prover does not identify; the `Same...` lemmas do.

**SessionGuardProofs.** `SlipsPastNothing` proves `NothingSlipsPast` for any number of
sessions and requests, any threshold, cooldown and capacity. The invariant
`FlightInv` strengthens the property by what a suspended handler has read: one that
is in the recogniser or waits for an operator saw marks that do not stand in its way, or
is a confirmation (`Passable`), which a marked session too has an operator answer.
Without that, `Continue` and `Resume`, which do not look at the marks again, could not
be shown to preserve it. The counters and tables are not needed.

Registry and lock table are both a map with an order of bounded length, so the lemmas
on adding, renewing and dropping a key are proved once, of such a table, and
`TablesStayBounded`, `LocksEnd` and `QuarantinesStand` follow from them, the latter two
as action properties.
`CountersRecount` needs a lemma on the recount of a timeline that grows by one entry:
the newest entry counts, and of the others at most the one that the resolution matches
stops counting, the newest of its event; that is also why a resolution takes back what
some other try of its event counted for. `LocksAreGrounded` needs more, since the lock
is for requests and the timeline has entries. `AuthorsOK` finds for every entry a recorded
request of the session that is as high, and `CountOK` bounds the counter by the
requests of high risk, counted once, and those of them that were tried again and are
done, counted twice. A request that waits for its resolution is counted only while its
event is in the timeline or it was tried again: that is what makes its resolution, which
counts anew, take back the first count or be one of the two.

**TokenBudgetProofs.** `AnnouncedExactly`, `TokensKept` and `OvershootBounded` prove the
three properties of `budget`. `BudgetInv` adds to them what they rest on. `AnnouncedOnce`
ties the tracker's flag to the tokens it has counted, from which the count of
announcements follows. `FutureIsClear` says that nothing has happened on a day the
tracker has not come to: each method resets the day for itself, and without this a
reset could meet an announcement that is there already. `OvershootKnown` says that a
request in flight which read a budget with something left is a straggler once nothing
is left, which is what bounds the overshoot; `StragglersOnly` itself speaks of calls and
is not inductive.

**TieredReviewProofs.** `FailsClosed`, `RiskStands` and `MarkBuysReview` prove the three
properties of `review`, whatever the reviewers answer. A verdict is fit for its route only if
the merged result hides no objection and clears only what a reviewer of the required
tier cleared. `SecondFaithful` says so of the second tier's result while the agent is
still being asked, `SecondSevere` that it is as severe as any of whom it comes from,
`HeardInTurn` of who has been heard at each stage, and `ActionsTainted` that only an action
spends a contamination mark; the properties themselves, which speak of finished reviews,
are not inductive without them.
`MergedFacts` and `CompositeFacts` are what `CompositeAnalyzer` guarantees of a merge of
one, two or three results.

**AdvisoryJobsProofs.** `RunOnce`, `NoneLeftRunning` and `ReviewStands` prove
`JobsRunOnce` (an action property), `RunningIsRun` and `CompletedHasReview`, with any
number of jobs and crashes. `TaskRuns` ties the handler under way to the job it has
claimed, `TaskReviews` to the review it has written: the handler commits step by step
and closes its job last, so what makes a completed job's review complete was written
several commits earlier, and other steps may come in between. `Lost` is the set of
running jobs that nobody runs; only `CrashStep` makes it grow, and by one.

`EvidenceIsCovered` and `OneBacklog` prove `EvidenceCovered` and `OneHeartbeatBacklog`.
`ReachInv` says that all records before a snapshot the heartbeat took are covered
(`CoveredRecord`), which no step takes back; so the reviews leave no gap before the last
of them, but for one that an operator's stretch left (`SkippedBy`). `BacklogInv` counts
`Orphans`, the heartbeat's own snapshots without a job: there is
none but for the one whose job is about to be queued (`Expected`) and one per crash, and
waiting jobs and orphans together are at most one more than the crashes.

**EventBusProofs.** `OldestAreLost` and `LossesAreCounted` prove `OldestLost` and
`LossesCounted`. `StreamOK` says of one stream that what it has read and has queued
rises, lies among what it was due, and that reads, queue and losses add up. The replay
of a new subscriber is a loop. `Replayed` is a function on its rounds, and as the prover
has no induction, a fact about it is proved of the least round that breaks it, which
contradicts the round before (`FillsAlways`, `ReplayedIsDue`). A queue has room for the whole
replay, an assumption that the two sizes in the code meet, so nothing is lost there.

**FlowMemoryProofs**, second part. `MemoryIsGrounded` proves `MemoryGrounded` for any
attempts, effects and settings. `BypassInv` adds to it that the records are records of
attempts, and `UnderWay`: an attempt that waits for an operator is a deferral or a
confirmation, and what is denied of it so far was denied on the decision (`IsDenial`), so
that an approval leaves behind only denials that the property excepts. `OneAttempt` is
the step of one attempt, given what it adds to each deque; recording, resolving and
refusing are cases of it. `FreedIs` is the loop that takes a hold away, by the same
argument as the replay of the bus. `RepeatsAreChallenged` proves `Challenged`.
`StandInv` says that each deque is `Sound`: its records stand in the order in which they
became due and no two have the same mark (attempt, capability and, of a confirmation,
what the denial was made on), a record lives no longer than its attempt is due, and of
whatever is due and has room there is for each capability a record that lives just as
long (`Has`, `Complete`). The order is what makes the room a bound: the records behind
one all became due no earlier (`FewBehind`, an injection into the marks of what is due
at least as long), so a full deque drops only what has none, and what expires stands at
the front (`CappedInLine`, `EvictedInLine`). A mark is added only if it is `Unmarked`: an
attempt is decided once and answered once. `ColumnsRenewed` says what a decision makes
due, `RecordedWhole` and `ResolvedWhole` that just this is remembered, and `MatchedSays`
that a match that is found is said. That a retry releases the hold of its event is in
`PendingAfter`: the attempts whose hold must be there are those of events nobody has
resolved. The proof uses that an effect has no capability twice
(`anti_bypass_guard.py:1109` removes duplicates), without which two records of a deque
would have one mark, and that the attempts are finitely many.

**With TLC only.** Liveness (`WaitsEnd`, `AttemptsEnd`, `QueuesMove`, `QueueDrains`, the
fairness part of `ContractSpec`) and everything about ENABLED are out of the prover's
reach. Every invariant and every action property of the runs is proved.

## 6 Where code and documents differ

One run states what the documents say, and TLC shows the code do otherwise.

- `budget_invented`: `CHANGELOG.md:724` and `site-docs/configuration/env-vars.md:490` say
  that a call without usage never invents tokens. A call that fails is charged what the
  inner provider's last response has used (`llm/provider.py:398`), often that of another
  tier, and those tokens are charged twice and can exhaust the budget.

Four more were found by runs of their own, which are not kept since the properties
that do hold name the exceptions:

- `CHANGELOG.md:808` promises that a resolution with a replacement produces a modify.
  If a second attempt of the same confirmation registers the same approval id between
  the operator's answer and the first handler's wake-up, the record with the
  replacement is dropped (`defer_manager.py:96`) and the original action is allowed,
  credited to SYSTEM. `ReplacementStands` is what does hold.
- `idempotency.py:8` promises the same response for the same request id. Two attempts
  past the lookup are both evaluated, and may answer differently.
  `FirstResponseStands` and `CacheHonest` are what does hold.
- `site-docs/decision-layers/scope-restrictions.md:236` has a session locked by a
  high-risk decision that reaches the threshold. The count is cumulative and survives
  a release (`session_enforcement.py:114`), so the next event, however harmless, locks
  again. `LockGrounded` is what does hold: the count was reached by requests of that
  session, each counted once.
- `scope-restrictions.md:144` gives the lock priority over the scope. The scope is
  applied after it (`engine.py:1071`) and turns its verdict into ALLOW for a bounded
  read-only action, and a confirmation is put before an operator, whose answer counts,
  in a locked or quarantined session as in any other (`sync_decision_flow.py:906-926`).
  The a3s adapter types confirmations as session events (`a3s_adapter.py:94`), to which
  marks do not apply anyway, so only other clients of `/ahp` send one that is a
  pre_action. `NothingSlipsPast` states the exceptions there are.

Noted while reading, without a run:

- an operator's deny that is accepted after the timer fired and before the handler
  ran becomes the timeout action (`defer_manager.py:193`), and an operator who
  answers in that moment is told "ok"; `site-docs/configuration/detection-config.md:537`
  knows no such case. `AnswerStands` excludes exactly this one;
- once the count is over the threshold, low-risk events restart a lock's cooldown
  (`session_enforcement.py:120`), which `scope-restrictions.md:133` ties to high-risk
  events;
- a finding replaces a lock by `FindingAction` even if that is weaker, `defer` over
  `block` (`supervision_gateway.py:716`; `site-docs/configuration/env-vars.md:321` has
  all later actions of a session locked with `block` blocked);
- a retry of one event counts once more towards the threshold
  (`session_registry.py:906`; `scope-restrictions.md:176` speaks of events);
- if another try of the event is recorded between a decision and its resolution, the
  resolution takes back what that other try counted for (`session_registry.py:882-888`),
  and if that was not a high risk the deferred request counts twice; the same goes for a
  decision whose entry has scrolled out of the timeline. `LockGrounded` names both
  cases, which its proof brought up;
- of two waits that share an approval id the first may be told the second's answer:
  it reads the record by id (`defer_manager.py:189`);
- a pending approval whose handler was cancelled or whose resolution could not be
  written stays in the gauge for good; `GaugeExact` counts those cases explicitly;
- the guard's documents (`site-docs/decision-layers/anti-bypass-guard.md:80-81`,
  `CHANGELOG.md:355`) put denied and held effects before the comparison of texts. Only
  the preempting denials come first; for the others a weaker finding, such as a
  likeness across tools that asks for a review, is acted on and the denial is not.
  `Challenged` tells the two apart;
- resolving one attempt takes away the hold of another attempt of the same event
  (`anti_bypass_guard.py:1757`), which is why `Challenged` speaks of events;
- a confirmation is made a DEFER before the trajectory alert and the scope look at it
  (`sync_decision_flow.py:906`, `941`, `1008`), and the operator is asked after the decision has
  been recorded (`1115`, `1409`): one that the alert or the scope blocks is denied in the
  memory, stays so when the operator approves it, and is denied a second time when the
  operator refuses. `MemoryGrounded` and the room in `Challenged` name both;
- a final deferral of the guard is itself recorded as a prior, even if an operator then
  approves the action: its exact repeats are blocked until the record expires;
- a block by a lock, a quarantine or a full approval table is remembered as a denial
  for as long as one by policy, and outlives the lock. If the review that a lock requires
  is completed, the engine decides and the guard is not asked at all
  (`sync_decision_flow.py:490-541`): a repeat of what was denied meets no denial then;
- an attempt suspended in the guard's recogniser is decided by the match of its
  arrival: a denial in between is not seen (`CHANGELOG.md:287`);
- the cap on L3 reviews (`config/detection_config.py:98-101`, per session) counts a
  review only if the merged result says that one was attempted (`engine.py:1246`); a
  timeout, or a result in which all reviewers were degraded, does not say so;
- the budget of a review is what is left of the deadline less a reserve, and may be nothing
  (`engine.py:1223-1237`): the review then times out before anybody is heard, after its
  contamination mark has been spent (`engine.py:569`), and the first tier's verdict stands
  or a contextual route fails closed.
  The snapshot says "fallback", and `ContaminationReviewed` names the case;
- benchmark mode drops an automatic review after the contamination mark for it has been
  spent, if the tier had been asked for explicitly, and drops explicitly requested
  tiers for events of a key domain or of medium risk;
- a job of the LLM provider whose records have expired is refused before it is claimed
  and stays the head of its queue: everything behind it waits (`advisory_worker.py:920`).
  `QueueDrains` names this case;
- a job whose worker died is running for good, and the heartbeat, which keeps one job
  waiting, never queues another (`trajectory_store.py:1378`);
- the snapshots endpoint takes reason, range and size from the client
  (`advisory_service.py:737-775`). A completed review of a later stretch called
  `heartbeat_aggregate` moves the mark of what the heartbeat has reviewed past records
  that nobody reviewed, and a job over such a snapshot holds the heartbeat back like one
  of its own. `EvidenceCovered` names the first case, `OneHeartbeatBacklog` counts only
  jobs over the heartbeat's own snapshots;
- a completed job may name a review that an operator, or a run that shares it, has
  opened again; `CompletedHasReview` says only that it was once completed;
- the budget is read once per request, and an exhausted one does not stop what the
  engine reviews of its own accord (triggers, forced tiers, contamination);
- `list_alerts` reads keys that the contamination alert does not have
  (`alert_registry.py:100`).

## 7 What is left out

- Text: rules, scores, content evidence, likeness, effects of commands. Their verdicts
  are free choices or given relations, so the properties hold whatever they say. This
  is most of the code by lines: `effects/python_ast.py`, `effects/normalizer.py`,
  `effects/shell_model.py`, `analysis/risk_snapshot.py` and `analysis/content_evidence.py`
  are pure functions of a text or a syntax tree, without state, order or failure; a
  model of them would be the program again, and their tests are where they belong. The
  share of the implementation the models stand for is small for that reason.
- The wait on an id that is not registered (`defer_manager.py:178-185`): both bridges
  wait right after registering.
- `latest_*` fields, scores and report queries of the registry; queries of the audit
  trail. The decision entry of a resolution that has scrolled out of the timeline
  (`session_registry.py:884`) is modelled, and `CountersMatchTimeline` excludes it.
- A decision that exceeded its deadline is recorded, and so is its retry
  (`sync_decision_flow.py:2009`): both are in the models, as two attempts.
- In AntiBypassMemory: benchmark mode, coarse families, the recording of allowed
  actions (off by default), the capture of sensitive values. In TieredReview: prompts
  that are too long, the fast path for read-only actions, the eviction of the
  engine's sessions. In TokenBudget: the deprecated budget in dollars.
- A lock's cooldown restarting at each further request (`session_enforcement.py:120`) is
  modelled; no property is about it, since code and document differ on what it should be.
- A stream whose generator never starts (`app.py:930`): whether the server runs the
  generator of a client that is gone is a matter of the web framework.
- A restart of the gateway: all but the SQLite tables starts anew. What survives and
  is read again is in AdvisoryJobs, with its crashes.
- Adapters, Latch, Codex watcher, skill trust, FSPR, patterns, alerts, trajectory
  windows: see the notes in `PROJECT.json`.

## 8 What could come next

1. `GatewayClient`: the adapter's retries, fallback to HTTP and local verdict, composed
   with DecisionFlow in place of its free attempts.
2. `AlertRegistry`, `TrajectoryWindow`, `PatternLifecycle`, `SkillTrust`, `CodexWatcher`,
   `ProcessManager`: small state machines each.
3. A second session in `guard_review`, so that an eviction ends a quarantine in a run and
   not in the proof alone, and shared ids in `flow_action`.

To run everything by hand: `tlc -workers 2 -config X.cfg M` for each run of
`PROJECT.json` (module and configuration are named there; the longest takes about
a minute), and `tlapm M.tla` for each `*Proofs` module.
