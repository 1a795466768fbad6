------------------------------ MODULE AdvisoryJobs ------------------------------
(***************************************************************************)
(* L3 advisory reviews of one session (gateway/l3/advisory_service.py,     *)
(* gateway/l3/advisory_worker.py and the job, review and snapshot tables   *)
(* of gateway/storage/trajectory_store.py): frozen snapshots of recorded   *)
(* decisions, a queue of jobs over them and the reviews the jobs write.    *)
(*                                                                         *)
(* A handler runs to its end before the event loop turns to another one,   *)
(* but every call of the store commits by itself.  `task` is the handler   *)
(* under way and what it commits next; a crash can fall between any two    *)
(* commits, and nothing looks at the tables again at the restart.          *)
(*                                                                         *)
(* Ids are hashes of content, so here a snapshot is its content and a      *)
(* review is known by what it was first written with.                      *)
(***************************************************************************)
EXTENDS Integers, FiniteSets, SequencesExt

CONSTANTS
  Events,        \* the decisions that may be recorded
  Heartbeat,     \* l3_heartbeat_review_enabled
  SnapshotSize,  \* max_records: how many records a snapshot takes at most
  MaxRecords,    \* how many decisions are recorded: bounds the model
  MaxAsks,       \* how many requests operators make: bounds the model
  MaxCrashes     \* bounds the model

Rank == [r \in {"low", "medium", "high", "critical"} |->
           CASE r = "low" -> 0 [] r = "medium" -> 1 [] r = "high" -> 2
             [] OTHER -> 3]
HighRisk == {"high", "critical"}

ASSUME AdvisoryAssumption ==
  /\ Events \subseteq [risk : DOMAIN Rank, compat : BOOLEAN, alert : BOOLEAN]
  /\ Heartbeat \in BOOLEAN
  /\ SnapshotSize \in Nat \ {0}
  /\ MaxRecords \in Nat /\ MaxAsks \in Nat /\ MaxCrashes \in Nat

Runners == {"deterministic_local", "llm_provider"}
\* The reason of an operator's snapshot is free text, "operator" if there is none.
Reasons == {"operator", "heartbeat_aggregate"}
\* An ended review is completed, failed or degraded, which nothing here asks.
ReviewStates == {"pending", "running", "ended"}

VARIABLES
  records,    \* the risk of every decision recorded so far
  expired,    \* how many of them retention has deleted, oldest first
  snapshots,  \* l3_evidence_snapshots
  jobs,       \* l3_advisory_jobs, in the order they were created
  reviews,    \* l3_advisory_reviews: review id -> [state, completed_at]
  task,       \* what the handler under way commits next
  asks,       \* how often operators have asked for more
  crashes

vars == <<records, expired, snapshots, jobs, reviews, task, asks, crashes>>
tables == <<records, expired, snapshots, jobs, reviews>>

NoJob == 0
Idle == [step |-> "idle"]

\* A review that a run opens, or one that an operator posts.
ReviewId(s, risk, action, origin) ==
  [snapshot |-> s, risk |-> risk, action |-> action, origin |-> origin]

Init ==
  /\ records = <<>>
  /\ expired = 0
  /\ snapshots = {}
  /\ jobs = <<>>
  /\ reviews = <<>>
  /\ task = Idle
  /\ asks = 0
  /\ crashes = 0

-----------------------------------------------------------------------------
(* Snapshots and what is left of them. *)

Stored == (expired + 1)..Len(records)
Covers(s) == s.from..s.to
Replay(s) == Covers(s) \intersect Stored

\* create_l3_evidence_snapshot: the newest records of the range, at most
\* SnapshotSize of them.
Snapshot(from, to, reason) ==
  LET range == (from..to) \intersect Stored
      newest == (Max(range) - SnapshotSize + 1)..Max(range)
  IN  [from |-> Min(range \intersect newest), to |-> Max(range), reason |-> reason,
       by |-> "gateway"]

\* The range and the size that an operator asks for give any stretch of what is
\* stored.
Chosen(from, to, reason) ==
  [from |-> from, to |-> to, reason |-> reason, by |-> "operator"]

HighestRisk(s) ==
  CHOOSE r \in {records[i] : i \in Replay(s)} :
    \A i \in Replay(s) : Rank[records[i]] <= Rank[r]

RecommendedAction(risk) ==
  CASE risk = "critical" -> "escalate"
    [] risk \in {"high", "medium"} -> "inspect"
    [] OTHER -> "none"

-----------------------------------------------------------------------------
(* What the heartbeat asks of the tables. *)

InBacklog(j) ==
  /\ jobs[j].runner = "deterministic_local"
  /\ jobs[j].snapshot.reason = "heartbeat_aggregate"
  /\ jobs[j].state \in {"queued", "running"}
HeartbeatBacklog == {j \in DOMAIN jobs : InBacklog(j)}

\* Fault: a review that is under way counts as well.
LastOpened ==
  Max({0} \union {id.snapshot.to : id \in {i \in DOMAIN reviews :
        i.snapshot.reason = "heartbeat_aggregate"}})

\* The last record under a heartbeat review that has ended.
LastReviewed ==
  Max({0} \union {id.snapshot.to : id \in {i \in DOMAIN reviews :
        /\ i.snapshot.reason = "heartbeat_aggregate"
        /\ reviews[i].state = "ended"}})

HighDelta(from) == \E i \in Stored : i >= from /\ records[i] \in HighRisk

\* Fault: without the look at the queue.
HeartbeatDueAlways ==
  /\ Heartbeat
  /\ Len(records) > LastReviewed
  /\ HighDelta(LastReviewed + 1)

HeartbeatDue ==
  /\ Heartbeat
  /\ HeartbeatBacklog = {}
  /\ Len(records) > LastReviewed
  /\ HighDelta(LastReviewed + 1)

-----------------------------------------------------------------------------
(* Recording a decision, and the snapshot and job that may come of it. *)

\* The decision is stored.  `compat` is whether its event is a heartbeat or the
\* like, `alert` whether a trajectory alert of at least high risk is pending.
Record(e) ==
  /\ task = Idle
  /\ Len(records) < MaxRecords
  /\ records' = Append(records, e.risk)
  /\ task' = [step |-> "freeze", compat |-> e.compat, alert |-> e.alert]
  /\ UNCHANGED <<expired, snapshots, jobs, reviews, asks, crashes>>

Freeze(from, reason, runner) ==
  LET s == Snapshot(from, Len(records), reason)
  IN  /\ snapshots' = snapshots \union {s}
      /\ task' = [step |-> "enqueue", snapshot |-> s, runner |-> runner, run |-> FALSE]

\* _maybe_create_l3_advisory_snapshot
MaybeFreeze ==
  /\ task.step = "freeze"
  /\ \/ /\ task.compat /\ HeartbeatDue
        /\ Freeze(LastReviewed + 1, "heartbeat_aggregate", "deterministic_local")
     \/ /\ ~(task.compat /\ HeartbeatDue)
        /\ Heartbeat => task.compat
        /\ task.alert \/ records[Len(records)] \in HighRisk
        /\ Freeze(1, "threshold", "llm_provider")
     \/ /\ ~(task.compat /\ HeartbeatDue)
        /\ \/ Heartbeat /\ ~task.compat
           \/ ~task.alert /\ records[Len(records)] \notin HighRisk
        /\ task' = Idle
        /\ UNCHANGED snapshots
  /\ UNCHANGED <<records, expired, jobs, reviews, asks, crashes>>

\* Another request of an operator.
Asking ==
  /\ task = Idle
  /\ asks < MaxAsks
  /\ asks' = asks + 1

\* run_operator_l3_full_review: a snapshot, and its job.
RequestReview(from, to, runner, run) ==
  /\ Asking
  /\ LET s == Chosen(from, to, "operator_full_review")
     IN  /\ snapshots' = snapshots \union {s}
         /\ task' = [step |-> "enqueue", snapshot |-> s, runner |-> runner, run |-> run]
  /\ UNCHANGED <<records, expired, jobs, reviews, crashes>>

\* The endpoint that only takes a snapshot, for whatever reason it is told.
RequestSnapshot(from, to, reason) ==
  /\ Asking
  /\ snapshots' = snapshots \union {Chosen(from, to, reason)}
  /\ UNCHANGED <<records, expired, jobs, reviews, task, crashes>>

\* The position of a snapshot's job, or NoJob.
JobOf(s, runner) ==
  Max({NoJob} \union {j \in DOMAIN jobs : /\ jobs[j].snapshot = s
                                          /\ jobs[j].runner = runner})

NewJob(s, runner) ==
  [snapshot |-> s, runner |-> runner, state |-> "queued", review |-> "none"]

\* enqueue_l3_advisory_job: a snapshot has one job per runner.
Enqueued(s, runner) ==
  IF JobOf(s, runner) # NoJob THEN jobs ELSE Append(jobs, NewJob(s, runner))

Enqueue ==
  /\ task.step = "enqueue"
  /\ jobs' = Enqueued(task.snapshot, task.runner)
  /\ task' = IF task.run THEN [step |-> "claim", snapshot |-> task.snapshot,
                               runner |-> task.runner]
                         ELSE Idle
  /\ UNCHANGED <<records, expired, snapshots, reviews, asks, crashes>>

\* The endpoint that queues a job for a snapshot.
RequestJob(s, runner) ==
  /\ Asking
  /\ jobs' = Enqueued(s, runner)
  /\ UNCHANGED <<records, expired, snapshots, reviews, task, crashes>>

-----------------------------------------------------------------------------
(* Running a job: claim, open a review, start it, close it, close the job. *)

\* Fault: every runner looks at the records first.
CanClaimIfReplayable(j) ==
  /\ jobs[j].state = "queued"
  /\ Replay(jobs[j].snapshot) # {}

\* Fault: a job is claimed in whatever state it is.
CanClaimAnew(j) ==
  jobs[j].runner = "llm_provider" => Replay(jobs[j].snapshot) # {}

\* claim_l3_advisory_job, after a worker has seen that there is something to
\* replay; the local runner finds out later.
CanClaim(j) ==
  /\ jobs[j].state = "queued"
  /\ jobs[j].runner = "llm_provider" => Replay(jobs[j].snapshot) # {}

Claim(j) ==
  /\ CanClaim(j)
  /\ jobs' = [jobs EXCEPT ![j].state = "running"]
  /\ task' = [step |-> "open", job |-> j, snapshot |-> jobs[j].snapshot,
              runner |-> jobs[j].runner]
  /\ UNCHANGED <<records, expired, snapshots, reviews, asks, crashes>>

\* The run-local and run-worker endpoints name the job; run-next and drain
\* take the oldest that is queued for the runner.
RunJob(j) == task = Idle /\ Claim(j)

Queued(runner) ==
  {j \in DOMAIN jobs : jobs[j].runner = runner /\ jobs[j].state = "queued"}

RunNext(runner) ==
  /\ task = Idle
  /\ Queued(runner) # {}
  /\ Claim(Min(Queued(runner)))

\* A full review goes on to run the job it has, which may be one that ran
\* before: then it is refused.
RunRequested ==
  /\ task.step = "claim"
  /\ LET j == JobOf(task.snapshot, task.runner)
     IN  \/ Claim(j)
         \/ ~CanClaim(j) /\ task' = Idle /\ UNCHANGED <<tables, asks, crashes>>

\* run-local-review: without a job.
RunLocalReview(s) ==
  /\ Asking
  /\ Replay(s) # {}
  /\ task' = [step |-> "open", job |-> NoJob, snapshot |-> s,
              runner |-> "deterministic_local"]
  /\ UNCHANGED <<tables, crashes>>

Close(j, state, review) ==
  jobs' = IF j = NoJob THEN jobs
          ELSE [jobs EXCEPT ![j].state = state, ![j].review = review]

\* A review that was first written with the same content is found again, in
\* whatever state it is.
OpenedId(s, runner) ==
  LET risk == HighestRisk(s)
  IN  ReviewId(s, risk, IF runner = "llm_provider" THEN "inspect"
                        ELSE RecommendedAction(risk), "run")

Opened(id) ==
  [i \in DOMAIN reviews \union {id} |->
     IF i \in DOMAIN reviews THEN reviews[i]
     ELSE [state |-> "pending", completed |-> FALSE]]

OpenReview ==
  /\ task.step = "open"
  /\ IF Replay(task.snapshot) = {}
     THEN /\ Close(task.job, "failed", "none")
          /\ task' = Idle
          /\ UNCHANGED reviews
     ELSE LET id == OpenedId(task.snapshot, task.runner)
          IN  /\ reviews' = Opened(id)
              /\ task' = [step |-> "start", job |-> task.job, review |-> id,
                          runner |-> task.runner]
              /\ UNCHANGED jobs
  /\ UNCHANGED <<records, expired, snapshots, asks, crashes>>

\* Fault: the time of the end goes with the state.
UpdatedAfresh(id, state) ==
  [reviews EXCEPT ![id] = [state |-> state, completed |-> state = "ended"]]

\* update_l3_advisory_review: any state follows any other, and the time of the
\* first end is kept.
Updated(id, state) ==
  [reviews EXCEPT ![id] =
     [state |-> state, completed |-> @.completed \/ state = "ended"]]

StartReview ==
  /\ task.step = "start"
  /\ reviews' = Updated(task.review, "running")
  /\ task' = [task EXCEPT !.step = "close"]
  /\ UNCHANGED <<records, expired, snapshots, jobs, asks, crashes>>

\* The local runner completes it; a provider's answer completes, fails or
\* degrades it.
CloseReview ==
  /\ task.step = "close"
  /\ reviews' = Updated(task.review, "ended")
  /\ task' = [task EXCEPT !.step = "finish"]
  /\ UNCHANGED <<records, expired, snapshots, jobs, asks, crashes>>

\* Fault: the error is passed on without closing the job.
WorkerFailsOpen ==
  /\ task.step = "close"
  /\ task.runner = "llm_provider"
  /\ task' = Idle
  /\ UNCHANGED <<tables, asks, crashes>>

\* The worker raises: the job fails, its review stays as it is.
WorkerFails ==
  /\ task.step = "close"
  /\ task.runner = "llm_provider"
  /\ Close(task.job, "failed", "none")
  /\ task' = Idle
  /\ UNCHANGED <<records, expired, snapshots, reviews, asks, crashes>>

FinishJob ==
  /\ task.step = "finish"
  /\ Close(task.job, "completed", task.review)
  /\ task' = Idle
  /\ UNCHANGED <<records, expired, snapshots, reviews, asks, crashes>>

-----------------------------------------------------------------------------
(* Operators, time and crashes. *)

\* The endpoint that posts a review made elsewhere, ended unless the body says
\* otherwise, and the one that patches a review.
PostReview(s) ==
  LET id == ReviewId(s, "medium", "inspect", "posted")
  IN  /\ Asking
      /\ id \notin DOMAIN reviews
      /\ reviews' = [i \in DOMAIN reviews \union {id} |->
           IF i = id THEN [state |-> "ended", completed |-> TRUE] ELSE reviews[i]]
      /\ UNCHANGED <<records, expired, snapshots, jobs, task, crashes>>

PatchReview(id, state) ==
  /\ Asking
  /\ reviews' = Updated(id, state)
  /\ UNCHANGED <<records, expired, snapshots, jobs, task, crashes>>

\* _prune_expired, before a decision is recorded or records are listed.
Expire ==
  /\ task = Idle
  /\ Stored # {}
  /\ expired' = expired + 1
  /\ UNCHANGED <<records, snapshots, jobs, reviews, task, asks, crashes>>

\* The handler is lost, what it committed stays.
Crash ==
  /\ task # Idle
  /\ crashes < MaxCrashes
  /\ crashes' = crashes + 1
  /\ task' = Idle
  /\ UNCHANGED <<tables, asks>>

Work ==
  \/ MaybeFreeze \/ Enqueue \/ RunRequested
  \/ OpenReview \/ StartReview \/ CloseReview \/ WorkerFails \/ FinishJob

Ask ==
  \/ \E to \in Stored : \E from \in (expired + 1)..to :
       \/ \E runner \in Runners, run \in BOOLEAN : RequestReview(from, to, runner, run)
       \/ \E reason \in Reasons : RequestSnapshot(from, to, reason)
  \/ \E runner \in Runners : RunNext(runner)
  \/ \E s \in snapshots : \/ \E runner \in Runners : RequestJob(s, runner)
                          \/ RunLocalReview(s) \/ PostReview(s)
  \/ \E j \in DOMAIN jobs : RunJob(j)
  \/ \E id \in DOMAIN reviews, state \in ReviewStates : PatchReview(id, state)

Next ==
  \/ \E e \in Events : Record(e)
  \/ Work \/ Ask \/ Expire \/ Crash

Spec == Init /\ [][Next]_vars
\* What a handler has begun it goes through, unless the process dies.
FairSpec == Spec /\ WF_vars(Work)

-----------------------------------------------------------------------------
(* Properties *)

TaskJob == IF "job" \in DOMAIN task THEN task.job ELSE NoJob

\* A job is run at most once and its end is final, however often it is queued,
\* named or taken again: it leaves "queued" by a claim, and "running" only by
\* the handler that claimed it (claim_l3_advisory_job, "queued-only").
JobsRunOnce ==
  [][/\ Len(jobs') >= Len(jobs)
     /\ \A j \in DOMAIN jobs : jobs'[j] # jobs[j] =>
          \/ jobs[j].state = "queued" /\ jobs'[j].state = "running"
          \/ /\ jobs[j].state = "running" /\ TaskJob = j
             /\ jobs'[j].state \in {"completed", "failed"}]_vars

\* Every way out of a run closes its job: a job that says "running" is the one
\* being run, or a crash fell into its run (nothing ever requeues that one).
RunningIsRun ==
  Cardinality({j \in DOMAIN jobs : jobs[j].state = "running"} \ {TaskJob})
    <= crashes

\* A completed job names a review of its own snapshot that has come to an end
\* at least once, although runs and operators share reviews and may reopen them.
CompletedHasReview ==
  \A j \in DOMAIN jobs : jobs[j].state = "completed" =>
    /\ jobs[j].review \in DOMAIN reviews
    /\ jobs[j].review.snapshot = jobs[j].snapshot
    /\ reviews[jobs[j].review].completed

\* The heartbeat keeps one aggregate job of its own waiting at a time; only a
\* crash that leaves its snapshot without a job lets an operator add another.
\* Jobs over snapshots that an operator calls heartbeats are not counted.
OneHeartbeatBacklog ==
  Cardinality({j \in HeartbeatBacklog : jobs[j].snapshot.by = "gateway"}) <= 1 + crashes

\* An operator's choice that leaves a record out.
SkippedBy(s, i) == s.by = "operator" /\ i < s.from

\* What the heartbeat takes as reviewed has been reviewed: a high-risk record
\* up to there lies in the snapshot of a heartbeat review that came to an end,
\* unless retention deleted it, a full snapshot of the heartbeat dropped it as
\* too old, or an operator called a later stretch a heartbeat and had it reviewed.
EvidenceCovered ==
  \A i \in 1..LastReviewed : records[i] \in HighRisk =>
    \/ \E id \in DOMAIN reviews : /\ id.snapshot.reason = "heartbeat_aggregate"
                                  /\ reviews[id].completed
                                  /\ i \in Covers(id.snapshot) \/ SkippedBy(id.snapshot, i)
    \/ i <= expired
    \/ \E s \in snapshots : /\ s.reason = "heartbeat_aggregate" /\ s.by = "gateway"
                            /\ i < s.from /\ s.to - s.from + 1 = SnapshotSize

\* Where an operator keeps asking for the next job of a queue, every job of it is
\* run or failed: time and again the queue is empty.  A job for the provider can
\* stand in its way, and then stays: the oldest one, when its records are
\* deleted, is refused and never closed.
QueueDrains ==
  \A runner \in Runners :
    WF_vars(RunNext(runner)) =>
      []<>(\/ Queued(runner) = {}
           \/ /\ runner = "llm_provider"
              /\ Replay(jobs[Min(Queued(runner))].snapshot) = {})
=============================================================================
