-------------------------- MODULE AdvisoryJobsProofs --------------------------
(***************************************************************************)
(* Proofs about the queue of advisory jobs and the heartbeat that feeds    *)
(* it, for any decisions, any size of a snapshot, and any number of        *)
(* records, requests and crashes.                                          *)
(***************************************************************************)
EXTENDS AdvisoryJobs, FiniteSetTheorems, WellFoundedInduction, TLAPS

IsJob(x) ==
  x = [snapshot |-> x.snapshot, runner |-> x.runner, state |-> x.state,
       review |-> x.review]

\* The jobs are a sequence of jobs.
JobsOK ==
  /\ jobs \in Seq(Range(jobs))
  /\ \A j \in DOMAIN jobs : IsJob(jobs[j])

RunSteps == {"open", "start", "close", "finish"}

\* A task has a job, or the place of one, while it runs something.
TaskOK ==
  /\ task.step \in {"idle", "freeze", "enqueue", "claim"} \union RunSteps
  /\ "job" \in DOMAIN task <=> task.step \in RunSteps
  /\ "review" \in DOMAIN task <=> task.step \in {"start", "close", "finish"}
  /\ "step" \in DOMAIN task

\* The job a task runs is running, and nobody else closes it.
TaskRuns ==
  task.step \in RunSteps /\ task.job \in DOMAIN jobs =>
    jobs[task.job].state = "running"

\* The review a task has opened is there, is of the snapshot of its job, and
\* has come to an end once the task says so.
TaskReviews ==
  /\ task.step = "open" /\ task.job \in DOMAIN jobs =>
       task.snapshot = jobs[task.job].snapshot
  /\ task.step \in {"start", "close", "finish"} =>
       /\ task.review \in DOMAIN reviews
       /\ task.job \in DOMAIN jobs =>
            task.review.snapshot = jobs[task.job].snapshot
  /\ task.step = "finish" => reviews[task.review].completed

QueueInv ==
  /\ crashes \in Nat
  /\ JobsOK /\ TaskOK /\ TaskRuns
  /\ RunningIsRun

AdvisoryInv == QueueInv /\ TaskReviews /\ CompletedHasReview

-----------------------------------------------------------------------------
(* What a step does to the jobs. *)

\* A function on 1..n is a sequence.
LEMMA IsSequence ==
  ASSUME NEW n \in Nat, NEW S, NEW f \in [1..n -> S]
  PROVE  f \in Seq(S) /\ Len(f) = n
OBVIOUS

\* Appending a job keeps the others and starts as queued.
LEMMA AppendJob ==
  ASSUME JobsOK, NEW x, IsJob(x), jobs' = Append(jobs, x)
  PROVE  /\ JobsOK'
         /\ Len(jobs) \in Nat /\ Len(jobs') = Len(jobs) + 1
         /\ DOMAIN jobs = 1..Len(jobs) /\ DOMAIN jobs' = 1..(Len(jobs) + 1)
         /\ \A j \in DOMAIN jobs : jobs'[j] = jobs[j]
         /\ jobs'[Len(jobs) + 1] = x
<1> DEFINE S == Range(jobs) \union {x}
<1>1. jobs \in Seq(S)
  BY DEF JobsOK
<1>2. /\ jobs' \in Seq(S)
      /\ Len(jobs) \in Nat /\ Len(jobs') = Len(jobs) + 1
      /\ DOMAIN jobs = 1..Len(jobs) /\ DOMAIN jobs' = 1..(Len(jobs) + 1)
      /\ \A j \in 1..Len(jobs) : jobs'[j] = jobs[j]
      /\ jobs'[Len(jobs) + 1] = x
  <2> x \in S
    OBVIOUS
  <2> HIDE DEF S
  <2> QED BY <1>1
<1>3. jobs' \in Seq(Range(jobs)')
  BY <1>2 DEF Range
<1>4. \A j \in DOMAIN jobs' : IsJob(jobs'[j])
  BY <1>2 DEF JobsOK
<1> QED
  BY <1>2, <1>3, <1>4 DEF JobsOK

MarksRunning(j) == jobs' = [jobs EXCEPT ![j].state = "running"]

\* A claim changes the state of the job it claims and nothing else.
LEMMA ClaimJob ==
  ASSUME JobsOK, NEW j, MarksRunning(j)
  PROVE  /\ JobsOK'
         /\ DOMAIN jobs' = DOMAIN jobs /\ Len(jobs') = Len(jobs)
         /\ \A i \in DOMAIN jobs :
              /\ i # j => jobs'[i] = jobs[i]
              /\ i = j => jobs'[i].state = "running"
              /\ jobs'[i].snapshot = jobs[i].snapshot
              /\ jobs'[i].runner = jobs[i].runner
              /\ jobs'[i].review = jobs[i].review
<1>1. DOMAIN jobs = 1..Len(jobs) /\ Len(jobs) \in Nat
  BY DEF JobsOK
<1>2. DOMAIN jobs' = DOMAIN jobs
  BY DEF MarksRunning
<1>3. \A i \in DOMAIN jobs :
        jobs'[i] = IF i = j THEN [jobs[i] EXCEPT !.state = "running"] ELSE jobs[i]
  BY DEF MarksRunning
<1>4. \A i \in DOMAIN jobs :
        /\ IsJob(jobs'[i])
        /\ i = j => jobs'[i].state = "running"
        /\ jobs'[i].snapshot = jobs[i].snapshot
        /\ jobs'[i].runner = jobs[i].runner
        /\ jobs'[i].review = jobs[i].review
  <2> TAKE i \in DOMAIN jobs
  <2>1. IsJob(jobs[i])
    BY DEF JobsOK
  <2> QED
    BY <1>3, <2>1 DEF IsJob
<1>5. jobs' \in Seq(Range(jobs)') /\ Len(jobs') = Len(jobs)
  <2>1. jobs' = [i \in 1..Len(jobs) |-> jobs'[i]]
    BY <1>1 DEF MarksRunning
  <2>2. \A i \in 1..Len(jobs) : jobs'[i] \in Range(jobs)'
    BY <1>1, <1>2 DEF Range
  <2>3. jobs' \in [1..Len(jobs) -> Range(jobs)']
    BY <2>1, <2>2
  <2> QED
    BY <1>1, <2>3, IsSequence
<1> QED
  BY <1>2, <1>3, <1>4, <1>5 DEF JobsOK

\* So does the end of a run, of the job that was run if there is one.
LEMMA CloseJob ==
  ASSUME JobsOK, NEW j, NEW state, NEW review, Close(j, state, review)
  PROVE  /\ JobsOK'
         /\ DOMAIN jobs' = DOMAIN jobs /\ Len(jobs') = Len(jobs)
         /\ \A i \in DOMAIN jobs :
              /\ i # j => jobs'[i] = jobs[i]
              /\ i = j => jobs'[i].state = state /\ jobs'[i].review = review
              /\ jobs'[i].snapshot = jobs[i].snapshot
              /\ jobs'[i].runner = jobs[i].runner
<1>1. DOMAIN jobs = 1..Len(jobs) /\ Len(jobs) \in Nat
  BY DEF JobsOK
<1>2. CASE j = NoJob
  <2>1. jobs' = jobs
    BY <1>2 DEF Close
  <2>2. j \notin DOMAIN jobs
    BY <1>1, <1>2 DEF NoJob
  <2> QED
    BY <2>1, <2>2 DEF JobsOK
<1>3. CASE j # NoJob
  <2>1. jobs' = [jobs EXCEPT ![j].state = state, ![j].review = review]
    BY <1>3 DEF Close
  <2>2. DOMAIN jobs' = DOMAIN jobs
    BY <2>1
  <2>3. \A i \in DOMAIN jobs :
          jobs'[i] = IF i = j
                     THEN [jobs[i] EXCEPT !.state = state, !.review = review]
                     ELSE jobs[i]
    BY <2>1
  <2>4. \A i \in DOMAIN jobs :
          /\ IsJob(jobs'[i])
          /\ i = j => jobs'[i].state = state /\ jobs'[i].review = review
          /\ jobs'[i].snapshot = jobs[i].snapshot
          /\ jobs'[i].runner = jobs[i].runner
    <3> TAKE i \in DOMAIN jobs
    <3>1. IsJob(jobs[i])
      BY DEF JobsOK
    <3> QED
      BY <2>3, <3>1 DEF IsJob
  <2>5. jobs' \in Seq(Range(jobs)') /\ Len(jobs') = Len(jobs)
    <3>1. jobs' = [i \in 1..Len(jobs) |-> jobs'[i]]
      BY <1>1, <2>1
    <3>2. \A i \in 1..Len(jobs) : jobs'[i] \in Range(jobs)'
      BY <1>1, <2>2 DEF Range
    <3>3. jobs' \in [1..Len(jobs) -> Range(jobs)']
      BY <3>1, <3>2
    <3> QED
      BY <1>1, <3>3, IsSequence
  <2> QED
    BY <2>2, <2>3, <2>4, <2>5 DEF JobsOK
<1> QED
  BY <1>2, <1>3

\* What Enqueued makes of the jobs.
LEMMA EnqueuedJobs ==
  ASSUME JobsOK, NEW s, NEW r, jobs' = Enqueued(s, r)
  PROVE  /\ JobsOK'
         /\ Len(jobs) \in Nat /\ Len(jobs') \in {Len(jobs), Len(jobs) + 1}
         /\ DOMAIN jobs = 1..Len(jobs) /\ DOMAIN jobs' = 1..Len(jobs')
         /\ \A j \in DOMAIN jobs : jobs'[j] = jobs[j]
         /\ \A j \in DOMAIN jobs' \ DOMAIN jobs : jobs'[j].state = "queued"
<1>1. CASE JobOf(s, r) # NoJob
  BY <1>1 DEF Enqueued, JobsOK
<1>2. CASE JobOf(s, r) = NoJob
  <2>1. jobs' = Append(jobs, NewJob(s, r))
    BY <1>2 DEF Enqueued
  <2>2. IsJob(NewJob(s, r)) /\ NewJob(s, r).state = "queued"
    BY DEF IsJob, NewJob
  <2>3. /\ JobsOK'
        /\ Len(jobs) \in Nat /\ Len(jobs') = Len(jobs) + 1
        /\ DOMAIN jobs = 1..Len(jobs) /\ DOMAIN jobs' = 1..(Len(jobs) + 1)
        /\ \A j \in DOMAIN jobs : jobs'[j] = jobs[j]
        /\ jobs'[Len(jobs) + 1] = NewJob(s, r)
    BY <2>1, <2>2, AppendJob
  <2> QED
    BY <2>2, <2>3
<1> QED
  BY <1>1, <1>2

-----------------------------------------------------------------------------
(* The jobs that say they are running without being run. *)

Running == {j \in DOMAIN jobs : jobs[j].state = "running"}

Lost == Running \ {TaskJob}

\* Of finitely many jobs, finitely many are lost to crashes.
LEMMA LostFinite ==
  ASSUME JobsOK
  PROVE  IsFiniteSet(Running) /\ IsFiniteSet(Lost) /\ Cardinality(Lost) \in Nat
<1>1. IsFiniteSet(DOMAIN jobs)
  <2>1. DOMAIN jobs = 1..Len(jobs) /\ Len(jobs) \in Nat
    BY DEF JobsOK
  <2> QED
    BY <2>1, FS_Interval
<1>2. Running \subseteq DOMAIN jobs /\ Lost \subseteq DOMAIN jobs
  BY DEF Running, Lost
<1>3. IsFiniteSet(Running) /\ IsFiniteSet(Lost)
  BY <1>1, <1>2, FS_Subset
<1> QED
  BY <1>3, FS_CardinalityType

\* A step that adds none keeps them within the number of crashes.
LEMMA LostKept ==
  ASSUME QueueInv, JobsOK', Lost' \subseteq Lost, crashes' = crashes
  PROVE  RunningIsRun'
<1>1. IsFiniteSet(Lost) /\ Cardinality(Lost) \in Nat
  BY LostFinite DEF QueueInv
<1>2. Cardinality(Lost') \in Nat /\ Cardinality(Lost') <= Cardinality(Lost)
  <2>1. Lost' \in SUBSET Lost
    OBVIOUS
  <2> QED
    BY <1>1, <2>1, FS_Subset, FS_CardinalityType
<1>3. Cardinality(Lost) <= crashes /\ crashes \in Nat
  BY DEF QueueInv, RunningIsRun, Lost, Running
<1>4. Cardinality(Lost)' = Cardinality(Lost')
  OBVIOUS
<1>5. Cardinality(Lost') <= crashes'
  BY <1>1, <1>2, <1>3
<1> QED
  BY <1>5 DEF RunningIsRun, Lost, Running

\* A crash adds at most the job that was being run.
LEMMA LostToCrash ==
  ASSUME QueueInv, jobs' = jobs, TaskJob' = NoJob, crashes' = crashes + 1
  PROVE  RunningIsRun'
<1>1. IsFiniteSet(Lost) /\ Cardinality(Lost) \in Nat
  BY LostFinite DEF QueueInv
<1>2. Cardinality(Lost) <= crashes /\ crashes \in Nat
  BY DEF QueueInv, RunningIsRun, Lost, Running
<1>3. Lost' \in SUBSET (Lost \union {TaskJob})
  BY DEF Lost, Running
<1>4. /\ IsFiniteSet(Lost \union {TaskJob})
      /\ Cardinality(Lost \union {TaskJob}) \in Nat
      /\ Cardinality(Lost \union {TaskJob}) <= Cardinality(Lost) + 1
  <2>1. /\ IsFiniteSet(Lost \union {TaskJob})
        /\ Cardinality(Lost \union {TaskJob}) =
             IF TaskJob \in Lost THEN Cardinality(Lost) ELSE Cardinality(Lost) + 1
    BY <1>1, FS_AddElement
  <2> QED
    BY <1>1, <2>1
<1>5. Cardinality(Lost') \in Nat
        /\ Cardinality(Lost') <= Cardinality(Lost \union {TaskJob})
  BY <1>3, <1>4, FS_Subset, FS_CardinalityType
<1>6. Cardinality(Lost') <= crashes'
  BY <1>1, <1>2, <1>4, <1>5
<1> QED
  BY <1>6 DEF RunningIsRun, Lost, Running

-----------------------------------------------------------------------------
(* Steps. *)

\* What JobsRunOnce allows a step.
OnceStep ==
  /\ Len(jobs') >= Len(jobs)
  /\ \A j \in DOMAIN jobs : jobs'[j] # jobs[j] =>
       \/ jobs[j].state = "queued" /\ jobs'[j].state = "running"
       \/ /\ jobs[j].state = "running" /\ TaskJob = j
          /\ jobs'[j].state \in {"completed", "failed"}

\* Reviews do not go away, and one that has come to an end stays one that has.
ReviewsKept ==
  /\ DOMAIN reviews \subseteq DOMAIN reviews'
  /\ \A id \in DOMAIN reviews : reviews[id].completed => reviews'[id].completed

\* The step neither ends a run nor begins that of a job.
NoRun ==
  /\ task.step \notin RunSteps
  /\ task'.step \notin RunSteps \/ (task'.step = "open" /\ task'.job = NoJob)

\* "No job" is not the position of any job.
LEMMA NoJobInQueue ==
  ASSUME JobsOK
  PROVE  NoJob \notin DOMAIN jobs /\ Len(jobs) \in Nat
BY DEF JobsOK, NoJob

\* The steps of requests, records, retention and operators that leave the jobs
\* alone, or add one.
LEMMA QuietStep ==
  ASSUME AdvisoryInv, TaskOK', NoRun, ReviewsKept, crashes' = crashes,
         \/ jobs' = jobs
         \/ \E s, r : jobs' = Enqueued(s, r)
  PROVE  AdvisoryInv' /\ OnceStep
<1>1. JobsOK /\ TaskOK /\ QueueInv
  BY DEF AdvisoryInv, QueueInv
<1>2. /\ JobsOK'
      /\ Len(jobs) \in Nat /\ Len(jobs') \in Nat /\ Len(jobs') >= Len(jobs)
      /\ DOMAIN jobs = 1..Len(jobs) /\ DOMAIN jobs' = 1..Len(jobs')
      /\ \A j \in DOMAIN jobs : jobs'[j] = jobs[j]
      /\ \A j \in DOMAIN jobs' \ DOMAIN jobs : jobs'[j].state = "queued"
  <2>1. CASE jobs' = jobs
    BY <1>1, <2>1 DEF JobsOK
  <2>2. CASE \E s, r : jobs' = Enqueued(s, r)
    BY <1>1, <2>2, EnqueuedJobs
  <2> QED
    BY <2>1, <2>2
<1>3. TaskJob = NoJob /\ TaskJob' = NoJob
  BY <1>1 DEF TaskOK, TaskJob, NoRun
<1>4. Running' = Running
  BY <1>2 DEF Running
<1>5. RunningIsRun'
  <2>1. Lost' \subseteq Lost
    BY <1>3, <1>4 DEF Lost
  <2> QED
    BY <1>1, <1>2, <2>1, LostKept
<1>6. NoJob \notin DOMAIN jobs'
  BY <1>2 DEF NoJob
<1>7. TaskRuns' /\ TaskReviews'
  BY <1>6 DEF NoRun, TaskRuns, TaskReviews, RunSteps
<1>8. CompletedHasReview'
  BY <1>2 DEF AdvisoryInv, CompletedHasReview, ReviewsKept
<1>9. crashes' \in Nat
  BY DEF AdvisoryInv, QueueInv
<1> QED
  BY <1>2, <1>5, <1>7, <1>8, <1>9 DEF AdvisoryInv, QueueInv, OnceStep

\* A claim ties the handler to the job it takes out of the queue.
LEMMA ClaimStep ==
  ASSUME AdvisoryInv, NEW j, Claim(j), task.step \notin RunSteps
  PROVE  AdvisoryInv' /\ OnceStep
<1>1. JobsOK /\ TaskOK /\ QueueInv
  BY DEF AdvisoryInv, QueueInv
<1>2. /\ jobs[j].state = "queued" /\ MarksRunning(j)
      /\ task' = [step |-> "open", job |-> j, snapshot |-> jobs[j].snapshot,
                  runner |-> jobs[j].runner]
      /\ UNCHANGED <<reviews, crashes>>
  BY DEF Claim, CanClaim, MarksRunning
<1>3. /\ JobsOK'
      /\ DOMAIN jobs' = DOMAIN jobs /\ Len(jobs') = Len(jobs)
      /\ \A i \in DOMAIN jobs :
           /\ i # j => jobs'[i] = jobs[i]
           /\ i = j => jobs'[i].state = "running"
           /\ jobs'[i].snapshot = jobs[i].snapshot
           /\ jobs'[i].review = jobs[i].review
  BY <1>1, <1>2, ClaimJob
<1>4. /\ task'.step = "open" /\ task'.job = j
      /\ task'.snapshot = jobs[j].snapshot
      /\ DOMAIN task' = {"step", "job", "snapshot", "runner"}
  BY <1>2
<1>5. TaskJob = NoJob /\ TaskJob' = j /\ NoJob \notin DOMAIN jobs
  BY <1>1, <1>4, NoJobInQueue DEF TaskOK, TaskJob
<1>6. Lost' \subseteq Lost
  BY <1>3, <1>5 DEF Lost, Running
<1>7. RunningIsRun'
  BY <1>1, <1>2, <1>3, <1>6, LostKept
<1>8. TaskOK' /\ TaskRuns' /\ TaskReviews'
  BY <1>3, <1>4 DEF TaskOK, TaskRuns, TaskReviews, RunSteps
<1>9. CompletedHasReview'
  BY <1>2, <1>3 DEF AdvisoryInv, CompletedHasReview
<1>10. OnceStep
  BY <1>1, <1>2, <1>3, NoJobInQueue DEF OnceStep
<1> QED
  BY <1>1, <1>2, <1>3, <1>7, <1>8, <1>9, <1>10 DEF AdvisoryInv, QueueInv

\* A run ends and closes its job.
LEMMA CloseStep ==
  ASSUME AdvisoryInv, task.step \in RunSteps, task' = Idle,
         NEW state \in {"completed", "failed"}, NEW review,
         Close(task.job, state, review),
         UNCHANGED <<reviews, crashes>>,
         state = "completed" => task.step = "finish" /\ review = task.review
  PROVE  AdvisoryInv' /\ OnceStep
<1>1. JobsOK /\ TaskOK /\ QueueInv
  BY DEF AdvisoryInv, QueueInv
<1>2. /\ JobsOK'
      /\ DOMAIN jobs' = DOMAIN jobs /\ Len(jobs') = Len(jobs)
      /\ \A i \in DOMAIN jobs :
           /\ i # task.job => jobs'[i] = jobs[i]
           /\ i = task.job => jobs'[i].state = state /\ jobs'[i].review = review
           /\ jobs'[i].snapshot = jobs[i].snapshot
  BY <1>1, CloseJob
<1>3. task'.step = "idle" /\ DOMAIN task' = {"step"}
  BY DEF Idle
<1>4. TaskJob = task.job /\ TaskJob' = NoJob
  BY <1>1, <1>3 DEF TaskOK, TaskJob
<1>5. Lost' \subseteq Lost
  BY <1>2, <1>4 DEF Lost, Running
<1>6. RunningIsRun'
  BY <1>1, <1>2, <1>5, LostKept
<1>7. TaskOK' /\ TaskRuns' /\ TaskReviews'
  BY <1>3 DEF TaskOK, TaskRuns, TaskReviews, RunSteps
<1>8. CompletedHasReview'
  BY <1>2 DEF AdvisoryInv, CompletedHasReview, TaskReviews
<1>9. OnceStep
  BY <1>1, <1>2, <1>4, NoJobInQueue DEF OnceStep, AdvisoryInv, QueueInv, TaskRuns
<1> QED
  BY <1>1, <1>2, <1>6, <1>7, <1>8, <1>9 DEF AdvisoryInv, QueueInv

\* A run goes from one of its steps to the next.
LEMMA RunStep ==
  ASSUME AdvisoryInv, task.step \in RunSteps, jobs' = jobs, crashes' = crashes,
         TaskOK', task'.step \in RunSteps, task'.job = task.job,
         ReviewsKept, TaskReviews'
  PROVE  AdvisoryInv' /\ OnceStep
<1>1. JobsOK /\ TaskOK /\ QueueInv
  BY DEF AdvisoryInv, QueueInv
<1>2. JobsOK'
  BY <1>1 DEF JobsOK
<1>3. TaskJob' = TaskJob
  BY <1>1 DEF TaskOK, TaskJob
<1>4. Lost' \subseteq Lost
  BY <1>3 DEF Lost, Running
<1>5. RunningIsRun'
  BY <1>1, <1>2, <1>4, LostKept
<1>6. TaskRuns'
  BY <1>1 DEF QueueInv, TaskRuns
<1>7. CompletedHasReview'
  BY DEF AdvisoryInv, CompletedHasReview, ReviewsKept
<1>8. OnceStep
  BY <1>1, NoJobInQueue DEF OnceStep
<1> QED
  BY <1>1, <1>2, <1>5, <1>6, <1>7, <1>8 DEF AdvisoryInv, QueueInv

\* A crash loses at most the one job that was being run.
LEMMA CrashStep ==
  ASSUME AdvisoryInv, Crash
  PROVE  AdvisoryInv' /\ OnceStep
<1>1. JobsOK /\ QueueInv
  BY DEF AdvisoryInv, QueueInv
<1>2. /\ jobs' = jobs /\ reviews' = reviews /\ crashes' = crashes + 1
      /\ task'.step = "idle" /\ DOMAIN task' = {"step"}
  BY DEF Crash, tables, Idle
<1>3. TaskJob' = NoJob
  BY <1>2 DEF TaskJob
<1>4. RunningIsRun'
  BY <1>1, <1>2, <1>3, LostToCrash
<1>5. TaskOK' /\ TaskRuns' /\ TaskReviews'
  BY <1>2 DEF TaskOK, TaskRuns, TaskReviews, RunSteps
<1>6. JobsOK' /\ CompletedHasReview' /\ crashes' \in Nat
  BY <1>1, <1>2 DEF AdvisoryInv, QueueInv, JobsOK, CompletedHasReview
<1>7. OnceStep
  BY <1>1, <1>2, NoJobInQueue DEF OnceStep
<1> QED
  BY <1>4, <1>5, <1>6, <1>7 DEF AdvisoryInv, QueueInv

\* Reviews that are opened or change their state are kept.
LEMMA OpenedKept ==
  ASSUME NEW id, reviews' = Opened(id)
  PROVE  ReviewsKept /\ id \in DOMAIN reviews'
BY DEF Opened, ReviewsKept

\* Writing a review again never takes back that it came to an end.
LEMMA UpdatedKept ==
  ASSUME NEW id, NEW state, reviews' = Updated(id, state)
  PROVE  /\ ReviewsKept /\ DOMAIN reviews' = DOMAIN reviews
         /\ id \in DOMAIN reviews /\ state = "ended" => reviews'[id].completed
BY DEF Updated, ReviewsKept

\* A run opens, or reopens, the review of its snapshot, or fails for lack of one.
LEMMA OpenReviewStep ==
  ASSUME AdvisoryInv, OpenReview
  PROVE  AdvisoryInv' /\ OnceStep
<1>1. task.step = "open" /\ task.step \in RunSteps /\ TaskOK /\ crashes' = crashes
  BY DEF OpenReview, RunSteps, AdvisoryInv, QueueInv
<1>2. CASE Replay(task.snapshot) = {}
  <2>1. /\ Close(task.job, "failed", "none") /\ task' = Idle
        /\ UNCHANGED <<reviews, crashes>>
    BY <1>2 DEF OpenReview
  <2>2. "failed" \in {"completed", "failed"} /\ "failed" # "completed"
    OBVIOUS
  <2> QED
    BY <1>1, <2>1, <2>2, CloseStep
<1>3. CASE Replay(task.snapshot) # {}
  <2> DEFINE id == OpenedId(task.snapshot, task.runner)
  <2>1. /\ reviews' = Opened(id) /\ jobs' = jobs
        /\ task' = [step |-> "start", job |-> task.job, review |-> id,
                    runner |-> task.runner]
    BY <1>3 DEF OpenReview
  <2>2. id.snapshot = task.snapshot
    BY DEF OpenedId, ReviewId
  <2> HIDE DEF id
  <2>3. /\ task'.step = "start" /\ task'.job = task.job /\ task'.review = id
        /\ DOMAIN task' = {"step", "job", "review", "runner"}
    BY <2>1
  <2>4. TaskOK' /\ task'.step \in RunSteps
    BY <2>3 DEF TaskOK, RunSteps
  <2>5. ReviewsKept /\ id \in DOMAIN reviews'
    BY <2>1, OpenedKept
  <2>6. TaskReviews'
    BY <1>1, <2>1, <2>2, <2>3, <2>5 DEF AdvisoryInv, TaskReviews
  <2> QED
    BY <1>1, <2>1, <2>3, <2>4, <2>5, <2>6, RunStep
<1> QED
  BY <1>2, <1>3

\* A run starts its review, or brings it to an end.
LEMMA WriteReviewStep ==
  ASSUME AdvisoryInv, StartReview \/ CloseReview
  PROVE  AdvisoryInv' /\ OnceStep
<1>1. /\ task.step \in {"start", "close"} /\ task.step \in RunSteps
      /\ TaskOK /\ jobs' = jobs /\ crashes' = crashes
  BY DEF StartReview, CloseReview, RunSteps, AdvisoryInv, QueueInv
<1>2. \/ /\ task' = [task EXCEPT !.step = "close"]
         /\ reviews' = Updated(task.review, "running")
      \/ /\ task' = [task EXCEPT !.step = "finish"]
         /\ reviews' = Updated(task.review, "ended")
  BY DEF StartReview, CloseReview
<1>3. /\ task'.step \in {"close", "finish"}
      /\ task'.job = task.job /\ task'.review = task.review
      /\ DOMAIN task' = DOMAIN task
      /\ task'.step = "finish" => reviews' = Updated(task.review, "ended")
  BY <1>1, <1>2 DEF TaskOK
<1>4. TaskOK' /\ task'.step \in RunSteps
  BY <1>1, <1>3 DEF TaskOK, RunSteps
<1>5. task.review \in DOMAIN reviews
  BY <1>1 DEF AdvisoryInv, TaskReviews
<1>6. ReviewsKept /\ DOMAIN reviews' = DOMAIN reviews
  BY <1>2, UpdatedKept
<1>7. task'.step = "finish" => reviews'[task.review].completed
  BY <1>3, <1>5, UpdatedKept
<1>8. TaskReviews'
  BY <1>1, <1>3, <1>6, <1>7 DEF AdvisoryInv, TaskReviews
<1> QED
  BY <1>1, <1>3, <1>4, <1>6, <1>8, RunStep

\* A run closes its job, as completed only after its review.
LEMMA EndRunStep ==
  ASSUME AdvisoryInv, WorkerFails \/ FinishJob
  PROVE  AdvisoryInv' /\ OnceStep
<1>1. CASE WorkerFails
  <2>1. /\ task.step \in RunSteps /\ Close(task.job, "failed", "none")
        /\ task' = Idle /\ UNCHANGED <<reviews, crashes>>
    BY <1>1 DEF WorkerFails, RunSteps
  <2>2. "failed" \in {"completed", "failed"} /\ "failed" # "completed"
    OBVIOUS
  <2> QED
    BY <2>1, <2>2, CloseStep
<1>2. CASE FinishJob
  <2>1. /\ task.step = "finish" /\ task.step \in RunSteps
        /\ Close(task.job, "completed", task.review)
        /\ task' = Idle /\ UNCHANGED <<reviews, crashes>>
    BY <1>2 DEF FinishJob, RunSteps
  <2>2. "completed" \in {"completed", "failed"}
    OBVIOUS
  <2> QED
    BY <2>1, <2>2, CloseStep
<1> QED
  BY <1>1, <1>2

\* An operator asks for a snapshot, and for its job or for nothing more.
SnapshotAsked ==
  \E to \in Stored : \E from \in (expired + 1)..to :
     \/ \E runner \in Runners, run \in BOOLEAN : RequestReview(from, to, runner, run)
     \/ \E reason \in Reasons : RequestSnapshot(from, to, reason)

\* Records, snapshots and requests.
LEMMA FrontStep ==
  ASSUME AdvisoryInv,
         \/ \E e \in Events : Record(e)
         \/ MaybeFreeze \/ Enqueue \/ Expire
         \/ SnapshotAsked
         \/ \E s \in snapshots, runner \in Runners : RequestJob(s, runner)
         \/ \E s \in snapshots : RunLocalReview(s) \/ PostReview(s)
         \/ \E id \in DOMAIN reviews, state \in ReviewStates : PatchReview(id, state)
  PROVE  AdvisoryInv' /\ OnceStep
<1>1. TaskOK
  BY DEF AdvisoryInv, QueueInv
<1> USE <1>1 DEF TaskOK, NoRun, RunSteps, Idle, Asking, ReviewsKept
<1>2. CASE \E e \in Events : Record(e)
  BY <1>2, QuietStep DEF Record
<1>3. CASE MaybeFreeze
  BY <1>3, QuietStep DEF MaybeFreeze, Freeze
<1>4. CASE Enqueue
  <2>1. jobs' = Enqueued(task.snapshot, task.runner)
    BY <1>4 DEF Enqueue
  <2> QED
    BY <1>4, <2>1, QuietStep DEF Enqueue
<1>5. CASE Expire
  BY <1>5, QuietStep DEF Expire
<1>6. CASE SnapshotAsked
  BY <1>6, QuietStep DEF SnapshotAsked, RequestReview, RequestSnapshot
<1>7. CASE \E s \in snapshots, runner \in Runners : RequestJob(s, runner)
  BY <1>7, QuietStep DEF RequestJob
<1>8. CASE \E s \in snapshots : RunLocalReview(s)
  BY <1>8, QuietStep DEF RunLocalReview, tables
<1>9. CASE \E s \in snapshots : PostReview(s)
  BY <1>9, QuietStep DEF PostReview
<1>10. CASE \E id \in DOMAIN reviews, state \in ReviewStates : PatchReview(id, state)
  <2>1. PICK id, state : PatchReview(id, state)
    BY <1>10
  <2>2. ReviewsKept
    BY <2>1, UpdatedKept DEF PatchReview
  <2> QED
    BY <2>1, <2>2, QuietStep DEF PatchReview
<1> QED
  BY <1>2, <1>3, <1>4, <1>5, <1>6, <1>7, <1>8, <1>9, <1>10

\* Claims by name, from the queue, and for a full review.
LEMMA ClaimingStep ==
  ASSUME AdvisoryInv,
         \/ \E j \in DOMAIN jobs : RunJob(j)
         \/ \E runner \in Runners : RunNext(runner)
         \/ RunRequested
  PROVE  AdvisoryInv' /\ OnceStep
<1>1. CASE \E j \in DOMAIN jobs : RunJob(j)
  BY <1>1, ClaimStep DEF RunJob, Idle, RunSteps
<1>2. CASE \E runner \in Runners : RunNext(runner)
  BY <1>2, ClaimStep DEF RunNext, Idle, RunSteps
<1>3. CASE RunRequested
  <2> DEFINE j == JobOf(task.snapshot, task.runner)
  <2>1. task.step = "claim" /\ task.step \notin RunSteps
    BY <1>3 DEF RunRequested, RunSteps
  <2>2. CASE Claim(j)
    BY <2>1, <2>2, ClaimStep
  <2>3. CASE ~CanClaim(j) /\ task' = Idle /\ UNCHANGED <<tables, asks, crashes>>
    BY <2>1, <2>3, QuietStep DEF tables, TaskOK, NoRun, RunSteps, Idle, ReviewsKept
  <2> QED
    BY <1>3, <2>2, <2>3 DEF RunRequested
<1> QED
  BY <1>1, <1>2, <1>3

\* An empty queue and no crash yet.
THEOREM InitAdvisory == Init => AdvisoryInv
<1> SUFFICES ASSUME Init  PROVE AdvisoryInv
  OBVIOUS
<1>1. /\ jobs = <<>> /\ task = [step |-> "idle"] /\ crashes = 0
  BY DEF Init, Idle
<1>2. DOMAIN jobs = {}
  BY <1>1
<1>3. JobsOK
  BY <1>1, <1>2 DEF JobsOK
<1>4. TaskOK /\ TaskRuns /\ TaskReviews
  BY <1>1 DEF TaskOK, TaskRuns, TaskReviews, RunSteps
<1>5. RunningIsRun
  <2>1. {j \in DOMAIN jobs : jobs[j].state = "running"} \ {TaskJob} = {}
    BY <1>2
  <2> QED
    BY <1>1, <2>1, FS_EmptySet DEF RunningIsRun
<1> QED
  BY <1>1, <1>2, <1>3, <1>4, <1>5 DEF AdvisoryInv, QueueInv, CompletedHasReview

\* Every step keeps the invariant and runs no job twice.
THEOREM NextAdvisory == AdvisoryInv /\ [Next]_vars => AdvisoryInv' /\ [OnceStep]_vars
<1> SUFFICES ASSUME AdvisoryInv, [Next]_vars
             PROVE  AdvisoryInv' /\ [OnceStep]_vars
  OBVIOUS
<1>1. CASE Next
  BY <1>1, FrontStep, ClaimingStep, OpenReviewStep, WriteReviewStep, EndRunStep,
     CrashStep DEF Next, Work, Ask, SnapshotAsked
<1>2. CASE UNCHANGED vars
  BY <1>2 DEF vars, AdvisoryInv, QueueInv, JobsOK, TaskOK, TaskRuns, TaskReviews,
     RunningIsRun, TaskJob, CompletedHasReview
<1> QED
  BY <1>1, <1>2

\* The invariant holds throughout.
THEOREM AdvisoryInductive == Spec => []AdvisoryInv
<1>1. Init => AdvisoryInv
  BY InitAdvisory
<1>2. AdvisoryInv /\ [Next]_vars => AdvisoryInv'
  BY NextAdvisory
<1> QED
  BY <1>1, <1>2, PTL DEF Spec

-----------------------------------------------------------------------------
\* A job is run at most once and its end is final, however often
\* trajectory_store.py queues it, or an endpoint names it, again.
THEOREM RunOnce == Spec => JobsRunOnce
<1>1. AdvisoryInv /\ [Next]_vars => [OnceStep]_vars
  BY NextAdvisory
<1> QED
  BY <1>1, AdvisoryInductive, PTL DEF Spec, JobsRunOnce, OnceStep

\* At most as many jobs say that they are running, without being run, as there
\* were crashes: every other way out of a run closes its job.
THEOREM NoneLeftRunning == Spec => []RunningIsRun
<1>1. AdvisoryInv => RunningIsRun
  BY DEF AdvisoryInv, QueueInv
<1> QED
  BY <1>1, AdvisoryInductive, PTL

\* A completed job names a review of its snapshot that came to an end, whoever
\* shares the review or has opened it again.
THEOREM ReviewStands == Spec => []CompletedHasReview
<1>1. AdvisoryInv => CompletedHasReview
  BY DEF AdvisoryInv
<1> QED
  BY <1>1, AdvisoryInductive, PTL

-----------------------------------------------------------------------------
(* What is frozen, queued and reviewed. *)

\* The task's snapshot is one of the frozen ones, and a full review that goes on
\* to run its job has one.
TaskFrozen ==
  /\ task.step \in {"enqueue", "claim", "open"} => task.snapshot \in snapshots
  /\ task.step = "claim" =>
       \E j \in DOMAIN jobs : /\ jobs[j].snapshot = task.snapshot
                              /\ jobs[j].runner = task.runner

\* Jobs and reviews are of frozen snapshots, and a review that has ended has
\* come to an end.
FrozenInv ==
  /\ records \in Seq(DOMAIN Rank) /\ expired \in 0..Len(records)
  /\ task.step = "freeze" => expired < Len(records)
  /\ \A s \in snapshots : s.from \in Nat /\ s.to \in 0..Len(records) /\ s.from <= s.to
  /\ \A j \in DOMAIN jobs : jobs[j].snapshot \in snapshots
  /\ \A id \in DOMAIN reviews :
       /\ id.snapshot \in snapshots
       /\ reviews[id].state = "ended" => reviews[id].completed
  /\ TaskFrozen

\* What EvidenceCovered says of one record.
CoveredRecord(i) ==
  records[i] \in HighRisk =>
    \/ \E id \in DOMAIN reviews : /\ id.snapshot.reason = "heartbeat_aggregate"
                                  /\ reviews[id].completed
                                  /\ i \in Covers(id.snapshot) \/ SkippedBy(id.snapshot, i)
    \/ i <= expired
    \/ \E s \in snapshots : /\ s.reason = "heartbeat_aggregate" /\ s.by = "gateway"
                            /\ i < s.from /\ s.to - s.from + 1 = SnapshotSize

\* The heartbeat leaves nothing out before its own snapshots.
ReachInv ==
  \A s \in snapshots : s.reason = "heartbeat_aggregate" /\ s.by # "operator" =>
    \A i \in 1..(s.from - 1) : CoveredRecord(i)

\* A bounded set of numbers has a maximum.
LEMMA MaxIs ==
  ASSUME NEW n \in Nat, NEW T \in SUBSET (0..n), T # {}
  PROVE  Max(T) \in T /\ \A j \in T : j <= Max(T)
<1> DEFINE D == {n - i : i \in T}
           R == OpToRel(<, Nat)
<1>1. D \subseteq Nat /\ D # {}
  <2>1. PICK i \in T : TRUE
    OBVIOUS
  <2>2. n - i \in D
    OBVIOUS
  <2>3. \A j \in T : n - j \in Nat
    OBVIOUS
  <2> QED  BY <2>2, <2>3
<1>2. IsWellFoundedOn(R, Nat)
  BY NatLessThanWellFounded
<1>3. \A x, y \in Nat : <<y, x>> \in R <=> y < x
  BY DEF OpToRel
<1> HIDE DEF R, D
<1>4. PICK x \in D : \A y \in D : ~ (<<y, x>> \in R)
  BY <1>1, <1>2, WFMin
<1>4a. \A y \in D : ~ (y < x)
  BY <1>1, <1>3, <1>4
<1>5. PICK i \in T : x = n - i
  BY DEF D
<1>6. ASSUME NEW j \in T PROVE i >= j
  <2>1. n - j \in D
    BY DEF D
  <2>2. ~ (n - j < n - i)
    BY <1>4a, <1>5, <2>1
  <2> QED  BY <2>2
<1>7. Max(T) \in T /\ \A j \in T : Max(T) >= j
  BY <1>5, <1>6 DEF Max
<1>8. \A j \in T : j \in Nat
  OBVIOUS
<1> QED  BY <1>7, <1>8

\* A set of numbers has a minimum.
LEMMA MinIs ==
  ASSUME NEW T \in SUBSET Nat, T # {}
  PROVE  Min(T) \in T
<1> DEFINE R == OpToRel(<, Nat)
<1>1. IsWellFoundedOn(R, Nat)
  BY NatLessThanWellFounded
<1>2. \A x, y \in Nat : <<y, x>> \in R <=> y < x
  BY DEF OpToRel
<1> HIDE DEF R
<1>3. PICK x \in T : \A y \in T : ~ (<<y, x>> \in R)
  BY <1>1, WFMin
<1>4. \A y \in T : ~ (y < x)
  BY <1>2, <1>3
<1>5. \A y \in T : x <= y
  BY <1>4
<1> QED  BY <1>5 DEF Min

\* An extreme member that is there is the one.
LEMMA ExtremeIs ==
  ASSUME NEW T \in SUBSET Nat, NEW x \in T
  PROVE  /\ (\A y \in T : y <= x) => Max(T) = x
         /\ (\A y \in T : x <= y) => Min(T) = x
<1>1. ASSUME \A y \in T : y <= x PROVE Max(T) = x
  <2>1. \A y \in T : x >= y
    BY <1>1
  <2>2. Max(T) \in T /\ \A y \in T : Max(T) >= y
    BY <2>1 DEF Max
  <2>3. Max(T) >= x /\ x >= Max(T) /\ Max(T) \in Nat
    BY <2>1, <2>2
  <2> QED  BY <2>3
<1>2. ASSUME \A y \in T : x <= y PROVE Min(T) = x
  <2>1. Min(T) \in T /\ \A y \in T : Min(T) <= y
    BY <1>2 DEF Min
  <2>2. Min(T) <= x /\ x <= Min(T) /\ Min(T) \in Nat
    BY <1>2, <2>1
  <2> QED  BY <2>2
<1> QED  BY <1>1, <1>2

\* A snapshot reaches to the newest record; what it leaves out at its start is
\* deleted, or more than its size.
LEMMA SnapshotReach ==
  ASSUME Len(records) \in Nat, expired \in Nat, expired < Len(records),
         NEW from \in Nat \ {0}, from <= Len(records), NEW reason
  PROVE  LET s == Snapshot(from, Len(records), reason)
         IN  /\ s.from \in Nat /\ s.from <= s.to /\ s.to = Len(records)
             /\ s.reason = reason /\ s.by = "gateway"
             /\ \A i \in Nat : from <= i /\ i < s.from =>
                  i <= expired \/ s.to - s.from + 1 = SnapshotSize
<1> DEFINE N == Len(records)
           lo == IF from > expired THEN from ELSE expired + 1
           range == (from..N) \intersect Stored
           cut == Max(range) - SnapshotSize + 1
           newest == cut..Max(range)
           first == IF cut > lo THEN cut ELSE lo
           s == Snapshot(from, N, reason)
<1>1. N \in Nat /\ lo \in Nat /\ lo <= N /\ SnapshotSize \in Nat \ {0}
  BY AdvisoryAssumption
<1>2. range = lo..N
  BY <1>1 DEF Stored
<1>3. s = [from |-> Min(range \intersect newest), to |-> Max(range), reason |-> reason,
           by |-> "gateway"]
  BY DEF Snapshot
<1> HIDE DEF s, range
<1>4. Max(range) = N
  <2>1. range \in SUBSET Nat /\ N \in range /\ \A y \in range : y <= N
    BY <1>1, <1>2
  <2> QED  BY <2>1, ExtremeIs
<1>5. cut \in Int /\ cut <= N /\ first \in Nat /\ first <= N
  BY <1>1, <1>4
<1>6. range \intersect newest = first..N
  BY <1>1, <1>2, <1>4, <1>5
<1>7. Min(range \intersect newest) = first
  <2> DEFINE T == first..N
  <2>1. T \in SUBSET Nat /\ first \in T /\ \A y \in T : first <= y
    BY <1>1, <1>5
  <2> HIDE DEF T, first
  <2>2. Min(T) = first
    BY <2>1, ExtremeIs
  <2> QED  BY <1>6, <2>2 DEF T
<1>8. s.from = first /\ s.to = N /\ s.reason = reason /\ s.by = "gateway"
  BY <1>3, <1>4, <1>7
<1>9. \A i \in Nat : from <= i /\ i < first => i <= expired \/ N - first + 1 = SnapshotSize
  BY <1>1, <1>4
<1> QED  BY <1>1, <1>5, <1>8, <1>9 DEF s

\* The job of a snapshot is found if there is one.
LEMMA JobOfIs ==
  ASSUME JobsOK, NEW s, NEW r
  PROVE  IF \E j \in DOMAIN jobs : jobs[j].snapshot = s /\ jobs[j].runner = r
         THEN /\ JobOf(s, r) \in DOMAIN jobs
              /\ jobs[JobOf(s, r)].snapshot = s /\ jobs[JobOf(s, r)].runner = r
         ELSE JobOf(s, r) = NoJob
<1> DEFINE own == {j \in DOMAIN jobs : jobs[j].snapshot = s /\ jobs[j].runner = r}
           T == {NoJob} \union own
<1>1. DOMAIN jobs = 1..Len(jobs) /\ Len(jobs) \in Nat
  BY DEF JobsOK
<1>2. T \in SUBSET (0..Len(jobs)) /\ T # {} /\ NoJob = 0
  BY <1>1 DEF NoJob
<1>3. JobOf(s, r) = Max(T)
  BY DEF JobOf
<1> HIDE DEF T
<1>4. Max(T) \in T /\ \A j \in T : j <= Max(T)
  BY <1>1, <1>2, MaxIs
<1>5. CASE own = {}
  BY <1>3, <1>4, <1>5 DEF T
<1>6. CASE own # {}
  <2>1. PICK j \in own : TRUE
    BY <1>6
  <2>2. j \in T /\ j >= 1
    BY <1>1 DEF T
  <2>3. Max(T) # NoJob
    BY <1>1, <1>2, <1>4, <2>1, <2>2
  <2>4. Max(T) \in own
    BY <1>4, <2>3 DEF T
  <2> QED  BY <1>3, <2>4
<1> QED  BY <1>5, <1>6

\* What is covered stays covered: nothing it rests on is taken back.
LEMMA CoveredStays ==
  ASSUME NEW i, records'[i] = records[i], ReviewsKept, snapshots \subseteq snapshots',
         i <= expired => i <= expired', CoveredRecord(i)
  PROVE  CoveredRecord(i)'
<1> SUFFICES ASSUME records[i] \in HighRisk
             PROVE  \/ \E id \in DOMAIN reviews' :
                         /\ id.snapshot.reason = "heartbeat_aggregate"
                         /\ reviews'[id].completed
                         /\ i \in Covers(id.snapshot) \/ SkippedBy(id.snapshot, i)
                    \/ i <= expired'
                    \/ \E s \in snapshots' :
                         /\ s.reason = "heartbeat_aggregate" /\ s.by = "gateway"
                         /\ i < s.from /\ s.to - s.from + 1 = SnapshotSize
  BY DEF CoveredRecord, Covers, SkippedBy
<1> QED  BY DEF CoveredRecord, ReviewsKept

\* A heartbeat review that has ended was of a snapshot that reaches to its end, and
\* what lies before its snapshot was covered when that was taken.
LEMMA ReachCovers ==
  ASSUME FrozenInv, ReachInv
  PROVE  /\ LastReviewed \in 0..Len(records)
         /\ \A i \in 1..LastReviewed : CoveredRecord(i)
<1> DEFINE done == {i \in DOMAIN reviews :
                      /\ i.snapshot.reason = "heartbeat_aggregate"
                      /\ reviews[i].state = "ended"}
           T == {0} \union {id.snapshot.to : id \in done}
           N == Len(records)
<1>1. N \in Nat
  BY DEF FrozenInv
<1>2. \A id \in done : /\ id.snapshot \in snapshots /\ reviews[id].completed
                       /\ id.snapshot.to \in 0..N /\ id.snapshot.from \in Nat
  BY DEF FrozenInv
<1>3. T \in SUBSET (0..N) /\ T # {}
  BY <1>1, <1>2
<1>4. LastReviewed = Max(T)
  BY DEF LastReviewed
<1> HIDE DEF T, N
<1>5. Max(T) \in T
  BY <1>1, <1>3, MaxIs
<1>6. LastReviewed \in 0..N
  BY <1>3, <1>4, <1>5
<1>7. ASSUME NEW i \in 1..LastReviewed PROVE CoveredRecord(i)
  <2>1. LastReviewed # 0
    BY <1>1, <1>6
  <2>2. PICK id \in done : LastReviewed = id.snapshot.to
    BY <1>4, <1>5, <2>1 DEF T
  <2>3. CASE i < id.snapshot.from
    <3>1. i \in 1..(id.snapshot.from - 1)
      BY <1>1, <1>2, <1>6, <2>3
    <3>2. CASE id.snapshot.by = "operator"
      BY <1>2, <2>3, <3>2 DEF CoveredRecord, SkippedBy
    <3>3. CASE id.snapshot.by # "operator"
      BY <1>2, <3>1, <3>3 DEF ReachInv
    <3> QED  BY <3>2, <3>3
  <2>4. CASE i >= id.snapshot.from
    <3>1. i \in Covers(id.snapshot)
      BY <1>1, <1>2, <1>6, <2>2, <2>4 DEF Covers
    <3> QED  BY <1>2, <3>1 DEF CoveredRecord
  <2> QED  BY <1>1, <1>2, <1>6, <2>3, <2>4
<1> QED  BY <1>6, <1>7 DEF N

\* What a step may do to the records, snapshots, jobs and reviews.
FrozenStep ==
  /\ records' \in Seq(DOMAIN Rank) /\ Len(records) <= Len(records')
  /\ \A i \in 1..Len(records) : records'[i] = records[i]
  /\ expired' \in 0..Len(records') /\ expired <= expired'
  /\ snapshots \subseteq snapshots'
  /\ \A s \in snapshots' \ snapshots :
       /\ s.from \in Nat /\ s.to \in 0..Len(records) /\ s.from <= s.to
       /\ s.reason = "heartbeat_aggregate" /\ s.by # "operator" =>
            \A i \in 1..(s.from - 1) : CoveredRecord(i)'
  /\ \A j \in DOMAIN jobs' : jobs'[j].snapshot \in snapshots'
  /\ ReviewsKept
  /\ \A id \in DOMAIN reviews' :
       /\ id.snapshot \in snapshots'
       /\ reviews'[id].state = "ended" => reviews'[id].completed

\* Such a step keeps what the heartbeat has reached.
LEMMA ReachStays ==
  ASSUME FrozenInv, ReachInv, FrozenStep, TaskFrozen',
         task'.step = "freeze" => expired' < Len(records')
  PROVE  FrozenInv' /\ ReachInv'
<1> DEFINE N == Len(records)
           M == Len(records')
<1>1. /\ N \in Nat /\ M \in Nat /\ N <= M
      /\ \A i \in 1..N : records'[i] = records[i]
  BY DEF FrozenInv, FrozenStep
<1>2. \A s \in snapshots : s.from \in Nat /\ s.to \in 0..N /\ s.from <= s.to
  BY DEF FrozenInv
<1>3. \A s \in snapshots' \ snapshots : s.from \in Nat /\ s.to \in 0..N /\ s.from <= s.to
  BY DEF FrozenStep
<1>4. \A s \in snapshots' : s.from \in Nat /\ s.to \in 0..M /\ s.from <= s.to
  <2> HIDE DEF N, M
  <2> QED  BY <1>1, <1>2, <1>3
<1>5. FrozenInv'
  BY <1>4 DEF FrozenInv, FrozenStep
<1>6. ASSUME NEW s \in snapshots', s.reason = "heartbeat_aggregate", s.by # "operator",
             NEW i \in 1..(s.from - 1)
      PROVE  CoveredRecord(i)'
  <2>1. CASE s \in snapshots
    <3>1. CoveredRecord(i)
      BY <1>6, <2>1 DEF ReachInv
    <3>2. i \in 1..N
      BY <1>1, <1>2, <2>1
    <3>3. records'[i] = records[i]
      BY <1>1, <3>2
    <3>4. i <= expired => i <= expired'
      <4>1. expired \in Nat /\ expired' \in Nat /\ expired <= expired' /\ i \in Nat
        BY <1>1, <3>2 DEF FrozenInv, FrozenStep
      <4> QED  BY <4>1
    <3> QED  BY <3>1, <3>3, <3>4, CoveredStays DEF FrozenStep
  <2>2. CASE s \notin snapshots
    BY <1>6, <2>2 DEF FrozenStep
  <2> QED  BY <2>1, <2>2
<1>7. ReachInv'
  BY <1>6 DEF ReachInv
<1> QED  BY <1>5, <1>7

\* The task that a step leaves behind.
TaskStep ==
  TaskFrozen' /\ (task'.step = "freeze" => expired' < Len(records'))

\* A handler that has nothing to queue or to run.
LEMMA RestingTask ==
  ASSUME task'.step \notin {"enqueue", "claim", "open", "freeze"}
  PROVE  TaskStep
BY DEF TaskStep, TaskFrozen

\* A step that adds no snapshot.
LEMMA NothingFrozen ==
  ASSUME FrozenInv, UNCHANGED <<records, expired, snapshots>>, ReviewsKept,
         \A j \in DOMAIN jobs' : jobs'[j].snapshot \in snapshots,
         \A id \in DOMAIN reviews' :
           /\ id.snapshot \in snapshots
           /\ reviews'[id].state = "ended" => reviews'[id].completed
  PROVE  FrozenStep
<1>1. records \in Seq(DOMAIN Rank) /\ Len(records) \in Nat /\ expired \in 0..Len(records)
  BY DEF FrozenInv
<1>2. expired <= expired
  BY <1>1
<1> QED  BY <1>1, <1>2 DEF FrozenStep

\* Reviews that stay as they are.
LEMMA SameReviews ==
  ASSUME FrozenInv, reviews' = reviews
  PROVE  /\ ReviewsKept
         /\ \A id \in DOMAIN reviews' :
              /\ id.snapshot \in snapshots
              /\ reviews'[id].state = "ended" => reviews'[id].completed
BY DEF FrozenInv, ReviewsKept

\* Jobs that stay as they are.
LEMMA SameJobs ==
  ASSUME FrozenInv, jobs' = jobs
  PROVE  \A j \in DOMAIN jobs' : jobs'[j].snapshot \in snapshots
BY DEF FrozenInv

\* A job is queued for a snapshot that has none for the runner.
LEMMA QueuedOnce ==
  ASSUME JobsOK, NEW s, NEW r, jobs' = Enqueued(s, r)
  PROVE  \/ /\ jobs' = jobs
            /\ \E j \in DOMAIN jobs : jobs[j].snapshot = s /\ jobs[j].runner = r
         \/ /\ \A j \in DOMAIN jobs : ~(jobs[j].snapshot = s /\ jobs[j].runner = r)
            /\ Len(jobs) + 1 \notin DOMAIN jobs
            /\ DOMAIN jobs' = DOMAIN jobs \union {Len(jobs) + 1}
            /\ \A j \in DOMAIN jobs : jobs'[j] = jobs[j]
            /\ jobs'[Len(jobs) + 1] = NewJob(s, r)
<1>1. CASE \E j \in DOMAIN jobs : jobs[j].snapshot = s /\ jobs[j].runner = r
  <2>1. JobOf(s, r) \in DOMAIN jobs
    BY <1>1, JobOfIs
  <2>2. JobOf(s, r) # NoJob
    BY <2>1, NoJobInQueue
  <2> QED  BY <1>1, <2>2 DEF Enqueued
<1>2. CASE \A j \in DOMAIN jobs : ~(jobs[j].snapshot = s /\ jobs[j].runner = r)
  <2>1. JobOf(s, r) = NoJob
    BY <1>2, JobOfIs
  <2>2. jobs' = Append(jobs, NewJob(s, r)) /\ IsJob(NewJob(s, r))
    BY <2>1 DEF Enqueued, IsJob, NewJob
  <2>3. /\ Len(jobs) \in Nat
        /\ DOMAIN jobs = 1..Len(jobs) /\ DOMAIN jobs' = 1..(Len(jobs) + 1)
        /\ \A j \in DOMAIN jobs : jobs'[j] = jobs[j]
        /\ jobs'[Len(jobs) + 1] = NewJob(s, r)
    BY <2>2, AppendJob
  <2>4. /\ 1..(Len(jobs) + 1) = 1..Len(jobs) \union {Len(jobs) + 1}
        /\ Len(jobs) + 1 \notin 1..Len(jobs)
    BY <2>3
  <2> QED  BY <1>2, <2>3, <2>4
<1> QED  BY <1>1, <1>2

\* A decision is recorded, after which it is there to be frozen.
LEMMA RecordFrozen ==
  ASSUME FrozenInv, NEW e \in Events, Record(e)
  PROVE  FrozenStep /\ TaskStep
<1>1. /\ records' = Append(records, e.risk) /\ e.risk \in DOMAIN Rank
      /\ task'.step = "freeze"
      /\ UNCHANGED <<expired, snapshots, jobs, reviews>>
  BY AdvisoryAssumption DEF Record
<1>2. records \in Seq(DOMAIN Rank) /\ expired \in 0..Len(records)
  BY DEF FrozenInv
<1>3. /\ records' \in Seq(DOMAIN Rank) /\ Len(records') = Len(records) + 1
      /\ Len(records) \in Nat
      /\ \A i \in 1..Len(records) : records'[i] = records[i]
  BY <1>1, <1>2
<1>4. /\ expired' \in 0..Len(records') /\ expired <= expired'
      /\ expired' < Len(records') /\ Len(records) <= Len(records')
  BY <1>1, <1>2, <1>3
<1>5. FrozenStep
  BY <1>1, <1>3, <1>4, SameReviews, SameJobs DEF FrozenStep
<1>6. TaskStep
  BY <1>1, <1>4 DEF TaskStep, TaskFrozen
<1> QED  BY <1>5, <1>6

\* A snapshot that was not the heartbeat's, or that begins where the heartbeat has
\* come to.
LEMMA FreezeFrozen ==
  ASSUME FrozenInv, ReachInv, expired < Len(records),
         NEW from \in Nat \ {0}, from <= Len(records), NEW reason,
         reason = "heartbeat_aggregate" => from = LastReviewed + 1,
         LET s == Snapshot(from, Len(records), reason)
         IN  /\ snapshots' = snapshots \union {s}
             /\ task'.step = "enqueue" /\ task'.snapshot = s,
         UNCHANGED <<records, expired, jobs, reviews>>
  PROVE  FrozenStep /\ TaskStep
<1> DEFINE s == Snapshot(from, Len(records), reason)
           N == Len(records)
<1>1. N \in Nat /\ expired \in Nat
  BY DEF FrozenInv
<1>2. /\ s.from \in Nat /\ s.from <= s.to /\ s.to = N /\ s.reason = reason /\ s.by = "gateway"
      /\ \A i \in Nat : from <= i /\ i < s.from =>
           i <= expired \/ s.to - s.from + 1 = SnapshotSize
  BY <1>1, SnapshotReach
<1> HIDE DEF s
<1>3. /\ snapshots' = snapshots \union {s}
      /\ task'.step = "enqueue" /\ task'.snapshot = s
  BY DEF s
<1>4. ASSUME s.reason = "heartbeat_aggregate", NEW i \in 1..(s.from - 1)
      PROVE  CoveredRecord(i)'
  <2>1. i \in Nat /\ i < s.from /\ i \in 1..N /\ expired' = expired /\ records' = records
    BY <1>1, <1>2, <1>4
  <2>2. CASE i < from
    <3>1. i \in 1..LastReviewed
      BY <1>2, <1>4, <2>1, <2>2, ReachCovers
    <3>2. CoveredRecord(i)
      BY <3>1, ReachCovers
    <3> QED  BY <1>3, <2>1, <3>2, SameReviews, CoveredStays
  <2>3. CASE from <= i
    <3>1. i <= expired' \/ (i < s.from /\ s.to - s.from + 1 = SnapshotSize)
      BY <1>2, <2>1, <2>3
    <3> QED  BY <1>2, <1>3, <1>4, <3>1 DEF CoveredRecord
  <2> QED  BY <2>1, <2>2, <2>3
<1>5. FrozenStep
  <2>1. records' \in Seq(DOMAIN Rank) /\ expired' \in 0..Len(records')
    BY DEF FrozenInv
  <2>2. Len(records) <= Len(records') /\ expired <= expired'
    BY <1>1
  <2>3. s.from \in Nat /\ s.to \in 0..N /\ s.from <= s.to
    BY <1>1, <1>2
  <2> QED  BY <1>3, <1>4, <2>1, <2>2, <2>3, SameReviews, SameJobs DEF FrozenStep
<1>6. TaskStep
  BY <1>3 DEF TaskStep, TaskFrozen
<1> QED  BY <1>5, <1>6

\* A snapshot that an operator chose: what lies before it is no omission of the
\* heartbeat's.
LEMMA ChosenFrozen ==
  ASSUME FrozenInv, NEW from \in Nat, NEW to \in 0..Len(records), from <= to, NEW reason,
         snapshots' = snapshots \union {Chosen(from, to, reason)},
         UNCHANGED <<records, expired, jobs, reviews>>
  PROVE  FrozenStep
<1> DEFINE s == Chosen(from, to, reason)
<1>1. /\ s.from = from /\ s.to = to /\ s.by = "operator"
      /\ snapshots' = snapshots \union {s}
  BY DEF Chosen
<1>2. Len(records) \in Nat /\ expired \in 0..Len(records) /\ records \in Seq(DOMAIN Rank)
  BY DEF FrozenInv
<1> HIDE DEF s
<1>3. Len(records) <= Len(records') /\ expired <= expired'
  BY <1>2
<1>4. s.from \in Nat /\ s.to \in 0..Len(records) /\ s.from <= s.to
  BY <1>1
<1> QED  BY <1>1, <1>2, <1>3, <1>4, SameReviews, SameJobs DEF FrozenStep

\* A snapshot is taken after a decision, or for an operator.
LEMMA FreezingFrozen ==
  ASSUME AdvisoryInv, FrozenInv, ReachInv,
         MaybeFreeze \/ SnapshotAsked
  PROVE  FrozenStep /\ TaskStep
<1>1. Len(records) \in Nat /\ expired \in Nat
  BY DEF FrozenInv
<1>2. CASE MaybeFreeze
  <2>1. /\ task.step = "freeze" /\ expired < Len(records)
        /\ UNCHANGED <<records, expired, jobs, reviews>>
    BY <1>2 DEF MaybeFreeze, FrozenInv
  <2>2. CASE HeartbeatDue
             /\ Freeze(LastReviewed + 1, "heartbeat_aggregate", "deterministic_local")
    <3>1. LastReviewed \in 0..Len(records)
      BY ReachCovers
    <3>2. /\ LastReviewed + 1 \in Nat \ {0} /\ LastReviewed + 1 <= Len(records)
      BY <1>1, <2>2, <3>1 DEF HeartbeatDue
    <3> QED  BY <2>1, <2>2, <3>2, FreezeFrozen DEF Freeze
  <2>3. CASE Freeze(1, "threshold", "llm_provider")
    <3>1. 1 \in Nat \ {0} /\ 1 <= Len(records)
      BY <1>1, <2>1
    <3>2. "threshold" # "heartbeat_aggregate"
      OBVIOUS
    <3> QED  BY <2>1, <2>3, <3>1, <3>2, FreezeFrozen DEF Freeze
  <2>4. CASE task' = Idle /\ UNCHANGED snapshots
    <3>1. TaskStep
      BY <2>4, RestingTask DEF Idle
    <3> QED  BY <2>1, <2>4, <3>1, SameReviews, SameJobs, NothingFrozen
  <2> QED  BY <1>2, <2>2, <2>3, <2>4 DEF MaybeFreeze
<1>3. CASE SnapshotAsked
  <2>1. PICK to \in Stored : \E from \in (expired + 1)..to :
               \/ \E runner, run : RequestReview(from, to, runner, run)
               \/ \E reason : RequestSnapshot(from, to, reason)
    BY <1>3 DEF SnapshotAsked
  <2>2. PICK from \in (expired + 1)..to :
               \/ \E runner, run : RequestReview(from, to, runner, run)
               \/ \E reason : RequestSnapshot(from, to, reason)
    BY <2>1
  <2>3. /\ from \in Nat /\ to \in 0..Len(records) /\ from <= to
    BY <1>1, <2>1, <2>2 DEF Stored
  <2>4. CASE \E runner, run : RequestReview(from, to, runner, run)
    <3> DEFINE s == Chosen(from, to, "operator_full_review")
    <3>1. /\ snapshots' = snapshots \union {s}
          /\ task'.step = "enqueue" /\ task'.snapshot = s
          /\ UNCHANGED <<records, expired, jobs, reviews>>
      BY <2>4 DEF RequestReview
    <3>2. TaskStep
      BY <3>1 DEF TaskStep, TaskFrozen
    <3> QED  BY <2>3, <3>1, <3>2, ChosenFrozen
  <2>5. CASE \E reason : RequestSnapshot(from, to, reason)
    <3>1. PICK reason : RequestSnapshot(from, to, reason)
      BY <2>5
    <3>2. /\ snapshots' = snapshots \union {Chosen(from, to, reason)}
          /\ task' = task /\ task = Idle
          /\ UNCHANGED <<records, expired, jobs, reviews>>
      BY <3>1 DEF RequestSnapshot, Asking
    <3>3. TaskStep
      BY <3>2, RestingTask DEF Idle
    <3> QED  BY <2>3, <3>2, <3>3, ChosenFrozen
  <2> QED  BY <2>2, <2>4, <2>5
<1> QED  BY <1>2, <1>3

\* A job is queued.
LEMMA QueueingFrozen ==
  ASSUME AdvisoryInv, FrozenInv,
         \/ Enqueue
         \/ \E s \in snapshots, runner \in Runners : RequestJob(s, runner)
  PROVE  FrozenStep /\ TaskStep
<1>1. JobsOK
  BY DEF AdvisoryInv, QueueInv
<1>2. ASSUME NEW s \in snapshots, NEW r, jobs' = Enqueued(s, r)
      PROVE  /\ \A j \in DOMAIN jobs' : jobs'[j].snapshot \in snapshots
             /\ \E j \in DOMAIN jobs' : jobs'[j].snapshot = s /\ jobs'[j].runner = r
  <2>1. CASE /\ jobs' = jobs
             /\ \E j \in DOMAIN jobs : jobs[j].snapshot = s /\ jobs[j].runner = r
    BY <2>1 DEF FrozenInv
  <2>2. CASE /\ DOMAIN jobs' = DOMAIN jobs \union {Len(jobs) + 1}
             /\ \A j \in DOMAIN jobs : jobs'[j] = jobs[j]
             /\ jobs'[Len(jobs) + 1] = NewJob(s, r)
    BY <2>2 DEF FrozenInv, NewJob
  <2> QED  BY <1>1, <1>2, <2>1, <2>2, QueuedOnce
<1>3. CASE Enqueue
  <2>1. /\ task.step = "enqueue" /\ jobs' = Enqueued(task.snapshot, task.runner)
        /\ UNCHANGED <<records, expired, snapshots, reviews>>
    BY <1>3 DEF Enqueue
  <2>2. task.snapshot \in snapshots
    BY <2>1 DEF FrozenInv, TaskFrozen
  <2>3. /\ \A j \in DOMAIN jobs' : jobs'[j].snapshot \in snapshots
        /\ \E j \in DOMAIN jobs' : /\ jobs'[j].snapshot = task.snapshot
                                   /\ jobs'[j].runner = task.runner
    BY <1>2, <2>1, <2>2
  <2>4. TaskStep
    <3>1. \/ task' = Idle
          \/ task' = [step |-> "claim", snapshot |-> task.snapshot,
                      runner |-> task.runner]
      BY <1>3 DEF Enqueue
    <3>2. CASE task' = Idle
      BY <3>2, RestingTask DEF Idle
    <3>3. CASE task' = [step |-> "claim", snapshot |-> task.snapshot,
                        runner |-> task.runner]
      BY <2>1, <2>2, <2>3, <3>3 DEF TaskStep, TaskFrozen
    <3> QED  BY <3>1, <3>2, <3>3
  <2> QED  BY <2>1, <2>3, <2>4, SameReviews, NothingFrozen
<1>4. CASE \E s \in snapshots, runner \in Runners : RequestJob(s, runner)
  <2>1. PICK s \in snapshots, runner \in Runners : RequestJob(s, runner)
    BY <1>4
  <2>2. /\ jobs' = Enqueued(s, runner) /\ task' = task /\ task = Idle
        /\ UNCHANGED <<records, expired, snapshots, reviews>>
    BY <2>1 DEF RequestJob, Asking
  <2>3. \A j \in DOMAIN jobs' : jobs'[j].snapshot \in snapshots
    BY <1>2, <2>2
  <2>4. TaskStep
    BY <2>2, RestingTask DEF Idle
  <2> QED  BY <2>2, <2>3, <2>4, SameReviews, NothingFrozen
<1> QED  BY <1>3, <1>4

\* The job that is claimed is one of the queue: by name, the oldest that waits, or
\* the one of a full review.
LEMMA ClaimsJob ==
  ASSUME AdvisoryInv, FrozenInv,
         \/ \E j \in DOMAIN jobs : RunJob(j)
         \/ \E runner \in Runners : RunNext(runner)
         \/ RunRequested
  PROVE  \/ \E j \in DOMAIN jobs : Claim(j)
         \/ task' = Idle /\ UNCHANGED <<records, expired, snapshots, jobs, reviews, crashes>>
<1>1. JobsOK
  BY DEF AdvisoryInv, QueueInv
<1>2. CASE \E j \in DOMAIN jobs : RunJob(j)
  BY <1>2 DEF RunJob
<1>3. CASE \E runner \in Runners : RunNext(runner)
  <2>1. PICK runner \in Runners : Queued(runner) # {} /\ Claim(Min(Queued(runner)))
    BY <1>3 DEF RunNext
  <2>2. Queued(runner) \subseteq DOMAIN jobs /\ DOMAIN jobs \subseteq Nat
    BY <1>1 DEF Queued, JobsOK
  <2>3. Queued(runner) \in SUBSET Nat
    BY <2>2
  <2>4. Min(Queued(runner)) \in DOMAIN jobs
    BY <2>1, <2>2, <2>3, MinIs
  <2> QED  BY <2>1, <2>4
<1>4. CASE RunRequested
  <2> DEFINE j == JobOf(task.snapshot, task.runner)
  <2>1. task.step = "claim"
    BY <1>4 DEF RunRequested
  <2>2. j \in DOMAIN jobs
    BY <1>1, <2>1, JobOfIs DEF FrozenInv, TaskFrozen
  <2>3. \/ Claim(j)
        \/ task' = Idle /\ UNCHANGED <<tables, crashes>>
    BY <1>4 DEF RunRequested
  <2> QED  BY <2>2, <2>3 DEF tables
<1> QED  BY <1>2, <1>3, <1>4

\* A job is claimed, or a full review is refused its own.
LEMMA ClaimingFrozen ==
  ASSUME AdvisoryInv, FrozenInv,
         \/ \E j \in DOMAIN jobs : RunJob(j)
         \/ \E runner \in Runners : RunNext(runner)
         \/ RunRequested
  PROVE  FrozenStep /\ TaskStep
<1>1. JobsOK
  BY DEF AdvisoryInv, QueueInv
<1>2. ASSUME NEW j \in DOMAIN jobs, Claim(j) PROVE FrozenStep /\ TaskStep
  <2>1. /\ MarksRunning(j)
        /\ task' = [step |-> "open", job |-> j, snapshot |-> jobs[j].snapshot,
                    runner |-> jobs[j].runner]
        /\ UNCHANGED <<records, expired, snapshots, reviews>>
    BY <1>2 DEF Claim, MarksRunning
  <2>2. /\ DOMAIN jobs' = DOMAIN jobs
        /\ \A i \in DOMAIN jobs : jobs'[i].snapshot = jobs[i].snapshot
    BY <1>1, <2>1, ClaimJob
  <2>3. \A i \in DOMAIN jobs' : jobs'[i].snapshot \in snapshots
    BY <2>2 DEF FrozenInv
  <2>4. task'.step = "open" /\ task'.snapshot \in snapshots
    BY <2>1 DEF FrozenInv
  <2>5. TaskStep
    BY <2>1, <2>4 DEF TaskStep, TaskFrozen
  <2> QED  BY <2>1, <2>3, <2>5, SameReviews, NothingFrozen
<1>3. CASE task' = Idle /\ UNCHANGED <<records, expired, snapshots, jobs, reviews, crashes>>
  <2>1. TaskStep
    BY <1>3, RestingTask DEF Idle
  <2> QED  BY <1>3, <2>1, SameReviews, SameJobs, NothingFrozen
<1> QED  BY <1>2, <1>3, ClaimsJob

\* Writing a review again ends only what comes to an end.
LEMMA UpdatedReviews ==
  ASSUME FrozenInv, NEW id, NEW state, reviews' = Updated(id, state)
  PROVE  /\ ReviewsKept
         /\ \A i \in DOMAIN reviews' :
              /\ i.snapshot \in snapshots
              /\ reviews'[i].state = "ended" => reviews'[i].completed
<1>1. ReviewsKept /\ DOMAIN reviews' = DOMAIN reviews
  BY UpdatedKept
<1>2. ASSUME NEW i \in DOMAIN reviews
      PROVE  reviews'[i].state = "ended" => reviews'[i].completed
  <2>1. CASE i = id
    BY <2>1 DEF Updated
  <2>2. CASE i # id
    BY <2>2 DEF Updated, FrozenInv
  <2> QED  BY <2>1, <2>2
<1> QED  BY <1>1, <1>2 DEF FrozenInv

\* A run opens its review, goes on with it, and closes its job.
LEMMA RunFrozen ==
  ASSUME AdvisoryInv, FrozenInv,
         OpenReview \/ StartReview \/ CloseReview \/ WorkerFails \/ FinishJob
  PROVE  FrozenStep /\ TaskStep
<1>1. JobsOK /\ TaskOK
  BY DEF AdvisoryInv, QueueInv
<1>2. ASSUME NEW st, NEW rv, Close(task.job, st, rv), task' = Idle,
             UNCHANGED <<records, expired, snapshots, reviews>>
      PROVE  FrozenStep /\ TaskStep
  <2>1. /\ DOMAIN jobs' = DOMAIN jobs
        /\ \A i \in DOMAIN jobs : jobs'[i].snapshot = jobs[i].snapshot
    BY <1>1, <1>2, CloseJob
  <2>2. \A i \in DOMAIN jobs' : jobs'[i].snapshot \in snapshots
    BY <2>1 DEF FrozenInv
  <2>3. TaskStep
    BY <1>2, RestingTask DEF Idle
  <2> QED  BY <1>2, <2>2, <2>3, SameReviews, NothingFrozen
<1>3. CASE OpenReview
  <2>1. CASE Replay(task.snapshot) = {}
    BY <1>2, <1>3, <2>1 DEF OpenReview
  <2>2. CASE Replay(task.snapshot) # {}
    <3> DEFINE id == OpenedId(task.snapshot, task.runner)
    <3>1. /\ reviews' = Opened(id) /\ task.step = "open"
          /\ task' = [step |-> "start", job |-> task.job, review |-> id,
                      runner |-> task.runner]
          /\ UNCHANGED <<records, expired, snapshots, jobs>>
      BY <1>3, <2>2 DEF OpenReview
    <3>2. id.snapshot \in snapshots
      BY <3>1 DEF OpenedId, ReviewId, FrozenInv, TaskFrozen
    <3> HIDE DEF id
    <3>3. ReviewsKept
      BY <3>1, OpenedKept
    <3>4. \A i \in DOMAIN reviews' :
            /\ i.snapshot \in snapshots
            /\ reviews'[i].state = "ended" => reviews'[i].completed
      BY <3>1, <3>2 DEF Opened, FrozenInv
    <3>5. task'.step = "start"
      BY <3>1
    <3>6. TaskStep
      BY <3>5, RestingTask
    <3> QED  BY <3>1, <3>3, <3>4, <3>6, SameJobs, NothingFrozen
  <2> QED  BY <2>1, <2>2
<1>4. CASE StartReview \/ CloseReview
  <2>1. /\ task' = [task EXCEPT !.step = "close"] \/ task' = [task EXCEPT !.step = "finish"]
        /\ UNCHANGED <<records, expired, snapshots, jobs>>
    BY <1>4 DEF StartReview, CloseReview
  <2>2. \E state : reviews' = Updated(task.review, state)
    BY <1>4 DEF StartReview, CloseReview
  <2>3. task'.step \in {"close", "finish"}
    BY <1>1, <2>1 DEF TaskOK
  <2>4. TaskStep
    BY <2>3, RestingTask
  <2> QED  BY <2>1, <2>2, <2>4, UpdatedReviews, SameJobs, NothingFrozen
<1>5. CASE WorkerFails \/ FinishJob
  BY <1>2, <1>5 DEF WorkerFails, FinishJob
<1> QED  BY <1>3, <1>4, <1>5

\* Operators' reviews, retention and crashes.
LEMMA OutsideFrozen ==
  ASSUME FrozenInv,
         \/ \E s \in snapshots : RunLocalReview(s) \/ PostReview(s)
         \/ \E id \in DOMAIN reviews, state \in ReviewStates : PatchReview(id, state)
         \/ Expire \/ Crash
  PROVE  FrozenStep /\ TaskStep
<1>1. ASSUME NEW s \in snapshots, RunLocalReview(s) PROVE FrozenStep /\ TaskStep
  <2>1. /\ task' = [step |-> "open", job |-> NoJob, snapshot |-> s,
                    runner |-> "deterministic_local"]
        /\ UNCHANGED <<records, expired, snapshots, jobs, reviews>>
    BY <1>1 DEF RunLocalReview, tables
  <2>2. TaskStep
    BY <2>1 DEF TaskStep, TaskFrozen
  <2> QED  BY <2>1, <2>2, SameReviews, SameJobs, NothingFrozen
<1>2. ASSUME NEW s \in snapshots, PostReview(s) PROVE FrozenStep /\ TaskStep
  <2> DEFINE id == ReviewId(s, "medium", "inspect", "posted")
  <2>1. /\ task' = task /\ task = Idle /\ id \notin DOMAIN reviews
        /\ reviews' = [i \in DOMAIN reviews \union {id} |->
             IF i = id THEN [state |-> "ended", completed |-> TRUE] ELSE reviews[i]]
        /\ UNCHANGED <<records, expired, snapshots, jobs>>
    BY <1>2 DEF PostReview, Asking
  <2>2. id.snapshot = s
    BY DEF ReviewId
  <2> HIDE DEF id
  <2>3. ReviewsKept
    BY <2>1 DEF ReviewsKept
  <2>4. \A i \in DOMAIN reviews' :
          /\ i.snapshot \in snapshots
          /\ reviews'[i].state = "ended" => reviews'[i].completed
    BY <2>1, <2>2 DEF FrozenInv
  <2>5. TaskStep
    BY <2>1, RestingTask DEF Idle
  <2> QED  BY <2>1, <2>3, <2>4, <2>5, SameJobs, NothingFrozen
<1>3. ASSUME NEW id, NEW state, PatchReview(id, state) PROVE FrozenStep /\ TaskStep
  <2>1. /\ task' = task /\ task = Idle /\ reviews' = Updated(id, state)
        /\ UNCHANGED <<records, expired, snapshots, jobs>>
    BY <1>3 DEF PatchReview, Asking
  <2>2. TaskStep
    BY <2>1, RestingTask DEF Idle
  <2> QED  BY <2>1, <2>2, UpdatedReviews, SameJobs, NothingFrozen
<1>4. CASE Expire
  <2>1. /\ task' = task /\ task = Idle /\ Stored # {} /\ expired' = expired + 1
        /\ UNCHANGED <<records, snapshots, jobs, reviews>>
    BY <1>4 DEF Expire
  <2>2. records \in Seq(DOMAIN Rank) /\ Len(records) \in Nat /\ expired \in 0..Len(records)
    BY DEF FrozenInv
  <2>3. expired' \in 0..Len(records) /\ expired <= expired' /\ Len(records) <= Len(records')
    BY <2>1, <2>2 DEF Stored
  <2>4. FrozenStep
    BY <2>1, <2>2, <2>3, SameReviews, SameJobs DEF FrozenStep
  <2>5. TaskStep
    BY <2>1, RestingTask DEF Idle
  <2> QED  BY <2>4, <2>5
<1>5. CASE Crash
  <2>1. task' = Idle /\ UNCHANGED <<records, expired, snapshots, jobs, reviews>>
    BY <1>5 DEF Crash, tables
  <2>2. TaskStep
    BY <2>1, RestingTask DEF Idle
  <2> QED  BY <2>1, <2>2, SameReviews, SameJobs, NothingFrozen
<1> QED  BY <1>1, <1>2, <1>3, <1>4, <1>5

\* Every step keeps what the heartbeat has reached.
LEMMA NextReach ==
  ASSUME AdvisoryInv, FrozenInv, ReachInv, [Next]_vars
  PROVE  FrozenInv' /\ ReachInv'
<1>1. CASE Next
  <2>1. FrozenStep /\ TaskStep
    BY <1>1, RecordFrozen, FreezingFrozen, QueueingFrozen, ClaimingFrozen, RunFrozen,
       OutsideFrozen DEF Next, Work, Ask, SnapshotAsked
  <2> QED  BY <2>1, ReachStays DEF TaskStep
<1>2. CASE UNCHANGED vars
  BY <1>2 DEF vars, FrozenInv, TaskFrozen, ReachInv, CoveredRecord
<1> QED  BY <1>1, <1>2

\* The invariant of what the heartbeat has reached holds throughout.
LEMMA ReachHolds == Spec => [](FrozenInv /\ ReachInv)
<1>1. Init => FrozenInv /\ ReachInv
  <2> SUFFICES ASSUME Init PROVE FrozenInv /\ ReachInv
    OBVIOUS
  <2>1. /\ records = <<>> /\ expired = 0 /\ snapshots = {} /\ jobs = <<>>
        /\ DOMAIN reviews = {} /\ task.step = "idle"
    BY DEF Init, Idle
  <2> QED  BY <2>1 DEF FrozenInv, TaskFrozen, ReachInv
<1>2. AdvisoryInv /\ FrozenInv /\ ReachInv /\ [Next]_vars => FrozenInv' /\ ReachInv'
  BY NextReach
<1> QED  BY <1>1, <1>2, AdvisoryInductive, PTL DEF Spec

\* EvidenceCovered: whatever the heartbeat takes as reviewed is in a review that came
\* to an end, or is deleted, was too old for a full snapshot, or lies before a stretch that
\* an operator called a heartbeat's and had reviewed
\* (create_l3_advisory_snapshot_endpoint).
THEOREM EvidenceIsCovered == Spec => []EvidenceCovered
<1>1. FrozenInv /\ ReachInv => EvidenceCovered
  BY ReachCovers DEF EvidenceCovered, CoveredRecord
<1> QED  BY <1>1, ReachHolds, PTL

-----------------------------------------------------------------------------
(* The heartbeat's jobs and the snapshots that are without one. *)

\* The heartbeat's own snapshots, and the jobs over them that wait or run.
OwnHeartbeat(s) == s.reason = "heartbeat_aggregate" /\ s.by = "gateway"
OwnBacklog == {j \in HeartbeatBacklog : jobs[j].snapshot.by = "gateway"}

\* Those that no job was queued for.
HeartbeatJob(s, j) == jobs[j].snapshot = s /\ jobs[j].runner = "deterministic_local"

Orphans ==
  {s \in snapshots : /\ OwnHeartbeat(s)
                     /\ \A j \in DOMAIN jobs : ~HeartbeatJob(s, j)}

\* The one whose job is about to be queued.
Expected ==
  IF task.step = "enqueue" /\ OwnHeartbeat(task.snapshot)
  THEN {task.snapshot} ELSE {}

\* A heartbeat snapshot is without its job only after a crash, and as many more
\* jobs can come to wait.
BacklogInv ==
  /\ IsFiniteSet(snapshots)
  /\ task.step = "enqueue" /\ OwnHeartbeat(task.snapshot)
       => task.runner = "deterministic_local"
  /\ Cardinality(Orphans \ Expected) <= crashes
  /\ Cardinality(OwnBacklog) + Cardinality(Orphans) <= 1 + crashes

\* A part of a finite set is no larger.
LEMMA PartSize ==
  ASSUME NEW S, IsFiniteSet(S), NEW T, T \subseteq S
  PROVE  /\ IsFiniteSet(T) /\ Cardinality(T) \in Nat /\ Cardinality(S) \in Nat
         /\ Cardinality(T) <= Cardinality(S)
<1>1. T \in SUBSET S
  OBVIOUS
<1> QED  BY <1>1, FS_Subset, FS_CardinalityType

\* One element more makes a set larger by at most one.
LEMMA OneMore ==
  ASSUME NEW S, IsFiniteSet(S), NEW x, NEW T, T \subseteq S \union {x}
  PROVE  /\ IsFiniteSet(T) /\ Cardinality(T) \in Nat /\ Cardinality(S) \in Nat
         /\ Cardinality(T) <= Cardinality(S) + 1
<1>1. /\ IsFiniteSet(S \union {x})
      /\ Cardinality(S \union {x}) =
           IF x \in S THEN Cardinality(S) ELSE Cardinality(S) + 1
  BY FS_AddElement
<1>2. Cardinality(S) \in Nat
  BY FS_CardinalityType
<1>3. /\ IsFiniteSet(T) /\ Cardinality(T) \in Nat
      /\ Cardinality(T) <= Cardinality(S \union {x})
  BY <1>1, PartSize
<1> QED  BY <1>1, <1>2, <1>3

\* One element less makes it smaller by one.
LEMMA OneLess ==
  ASSUME NEW S, IsFiniteSet(S), NEW x \in S, NEW T, T \subseteq S \ {x}
  PROVE  /\ IsFiniteSet(T) /\ Cardinality(T) \in Nat /\ Cardinality(S) \in Nat
         /\ Cardinality(T) + 1 <= Cardinality(S)
<1>1. /\ IsFiniteSet(S \ {x})
      /\ Cardinality(S \ {x}) = Cardinality(S) - 1
  BY FS_RemoveElement
<1>2. Cardinality(S) \in Nat
  BY FS_CardinalityType
<1>3. /\ IsFiniteSet(T) /\ Cardinality(T) \in Nat
      /\ Cardinality(T) <= Cardinality(S \ {x})
  BY <1>1, PartSize
<1> QED  BY <1>1, <1>2, <1>3

\* Both sets are finite.
LEMMA BacklogFinite ==
  ASSUME JobsOK, BacklogInv
  PROVE  IsFiniteSet(OwnBacklog) /\ IsFiniteSet(Orphans)
<1>1. IsFiniteSet(DOMAIN jobs)
  <2>1. DOMAIN jobs = 1..Len(jobs) /\ Len(jobs) \in Nat
    BY DEF JobsOK
  <2> QED  BY <2>1, FS_Interval
<1>2. OwnBacklog \subseteq DOMAIN jobs /\ Orphans \subseteq snapshots
  BY DEF OwnBacklog, HeartbeatBacklog, Orphans
<1>3. IsFiniteSet(snapshots)
  BY DEF BacklogInv
<1> QED  BY <1>1, <1>2, <1>3, PartSize

\* What the handler has at hand to queue a job for the heartbeat.
RunnerOK ==
  task.step = "enqueue" /\ OwnHeartbeat(task.snapshot)
    => task.runner = "deterministic_local"

\* A step after which there are no more of either.
LEMMA NoMoreWaiting ==
  ASSUME AdvisoryInv, BacklogInv, IsFiniteSet(snapshots'), RunnerOK',
         OwnBacklog' \subseteq OwnBacklog, Orphans' \subseteq Orphans,
         Orphans' \ Expected' \subseteq Orphans \ Expected, crashes' = crashes
  PROVE  BacklogInv'
<1>1. JobsOK /\ crashes \in Nat
  BY DEF AdvisoryInv, QueueInv
<1>2. /\ IsFiniteSet(OwnBacklog) /\ IsFiniteSet(Orphans)
      /\ IsFiniteSet(Orphans \ Expected)
  BY <1>1, BacklogFinite, PartSize
<1> DEFINE b == Cardinality(OwnBacklog)
           o == Cardinality(Orphans)
           l == Cardinality(Orphans \ Expected)
<1>3. /\ b \in Nat /\ Cardinality(OwnBacklog') \in Nat
      /\ Cardinality(OwnBacklog') <= b
  BY <1>2, PartSize
<1>4. o \in Nat /\ Cardinality(Orphans') \in Nat /\ Cardinality(Orphans') <= o
  BY <1>2, PartSize
<1>5. /\ l \in Nat /\ Cardinality(Orphans' \ Expected') \in Nat
      /\ Cardinality(Orphans' \ Expected') <= l
  BY <1>2, PartSize
<1>6. l <= crashes /\ b + o <= 1 + crashes
  BY DEF BacklogInv
<1> HIDE DEF b, o, l
<1>7. /\ Cardinality(OwnBacklog') + Cardinality(Orphans') <= 1 + crashes'
      /\ Cardinality(Orphans' \ Expected') <= crashes'
  BY <1>1, <1>3, <1>4, <1>5, <1>6
<1> QED  BY <1>7 DEF BacklogInv, RunnerOK

\* A step that queues no job and freezes nothing for the heartbeat.
LEMMA NothingQueued ==
  ASSUME AdvisoryInv, BacklogInv, RunnerOK', task.step # "enqueue", crashes' = crashes,
         IsFiniteSet(snapshots'),
         \A s \in snapshots' \ snapshots : ~OwnHeartbeat(s),
         DOMAIN jobs' = DOMAIN jobs,
         \A j \in DOMAIN jobs :
           /\ jobs'[j].snapshot = jobs[j].snapshot
           /\ jobs'[j].runner = jobs[j].runner
           /\ jobs'[j].state \in {"queued", "running"} =>
                jobs[j].state \in {"queued", "running"}
  PROVE  BacklogInv'
<1>1. OwnBacklog' \subseteq OwnBacklog
  BY DEF OwnBacklog, HeartbeatBacklog, InBacklog
<1>2. Orphans' \subseteq Orphans
  BY DEF Orphans, HeartbeatJob
<1>3. Expected = {}
  BY DEF Expected
<1>4. Orphans' \ Expected' \subseteq Orphans \ Expected
  BY <1>2, <1>3
<1> QED  BY <1>1, <1>2, <1>4, NoMoreWaiting

\* A job that is queued takes its snapshot's place among those that wait for one.
LEMMA JobQueued ==
  ASSUME AdvisoryInv, BacklogInv, RunnerOK', NEW s \in snapshots, NEW r,
         jobs' = Enqueued(s, r), snapshots' = snapshots, crashes' = crashes,
         Expected' = {},
         Expected = {} \/ (Expected = {s} /\ r = "deterministic_local")
  PROVE  BacklogInv'
<1>1. JobsOK /\ crashes \in Nat /\ IsFiniteSet(snapshots')
  BY DEF AdvisoryInv, QueueInv, BacklogInv
<1>2. CASE /\ jobs' = jobs
           /\ \E j \in DOMAIN jobs : jobs[j].snapshot = s /\ jobs[j].runner = r
  <2>1. OwnBacklog' = OwnBacklog /\ Orphans' = Orphans
    BY <1>2 DEF OwnBacklog, HeartbeatBacklog, InBacklog, Orphans, HeartbeatJob
  <2>2. Orphans' \ Expected' \subseteq Orphans \ Expected
    BY <1>2, <2>1 DEF Orphans, HeartbeatJob
  <2> QED  BY <1>1, <2>1, <2>2, NoMoreWaiting
<1>3. CASE /\ \A j \in DOMAIN jobs : ~(jobs[j].snapshot = s /\ jobs[j].runner = r)
           /\ Len(jobs) + 1 \notin DOMAIN jobs
           /\ DOMAIN jobs' = DOMAIN jobs \union {Len(jobs) + 1}
           /\ \A j \in DOMAIN jobs : jobs'[j] = jobs[j]
           /\ jobs'[Len(jobs) + 1] = NewJob(s, r)
  <2> DEFINE k == Len(jobs) + 1
  <2>1. jobs'[k].snapshot = s /\ jobs'[k].runner = r
    BY <1>3 DEF NewJob
  <2>2. k \in DOMAIN jobs' /\ DOMAIN jobs \subseteq DOMAIN jobs'
        /\ \A j \in DOMAIN jobs' : j \in DOMAIN jobs \/ j = k
    BY <1>3
  <2>3. \A j \in DOMAIN jobs : jobs'[j] = jobs[j]
    BY <1>3
  <2> HIDE DEF k
  <2>4. Orphans' \subseteq Orphans
    BY <2>2, <2>3 DEF Orphans, HeartbeatJob
  <2>5. CASE OwnHeartbeat(s) /\ r = "deterministic_local"
    <3>1. s \in Orphans
      BY <1>3, <2>5 DEF Orphans, HeartbeatJob
    <3>2. s \notin Orphans'
      BY <2>1, <2>2, <2>5 DEF Orphans, HeartbeatJob
    <3>3. Orphans' \subseteq Orphans \ {s}
      BY <2>4, <3>2
    <3>4. OwnBacklog' \subseteq OwnBacklog \union {k}
      BY <2>2, <2>3 DEF OwnBacklog, HeartbeatBacklog, InBacklog
    <3> DEFINE b == Cardinality(OwnBacklog)
               o == Cardinality(Orphans)
               l == Cardinality(Orphans \ Expected)
    <3>5. IsFiniteSet(OwnBacklog) /\ IsFiniteSet(Orphans)
      BY <1>1, BacklogFinite
    <3>6. /\ b \in Nat /\ Cardinality(OwnBacklog') \in Nat
          /\ Cardinality(OwnBacklog') <= b + 1
      BY <3>4, <3>5, OneMore
    <3>7. /\ o \in Nat /\ Cardinality(Orphans') \in Nat
          /\ Cardinality(Orphans') + 1 <= o
      BY <3>1, <3>3, <3>5, OneLess
    <3>8. IsFiniteSet(Orphans \ Expected) /\ Orphans' \subseteq Orphans \ Expected
      BY <3>3, <3>5, PartSize
    <3>9. l \in Nat /\ Cardinality(Orphans') <= l
      BY <3>8, PartSize
    <3>10. l <= crashes /\ b + o <= 1 + crashes
      BY DEF BacklogInv
    <3> HIDE DEF b, o, l
    <3>11. /\ Cardinality(OwnBacklog') + Cardinality(Orphans') <= 1 + crashes'
           /\ Cardinality(Orphans') <= crashes'
      BY <1>1, <3>6, <3>7, <3>9, <3>10
    <3>12. Orphans' \ Expected' = Orphans'
      OBVIOUS
    <3> QED  BY <1>1, <3>11, <3>12 DEF BacklogInv, RunnerOK
  <2>6. CASE ~(OwnHeartbeat(s) /\ r = "deterministic_local")
    <3>1. OwnBacklog' \subseteq OwnBacklog
      BY <2>1, <2>2, <2>3, <2>6 DEF OwnBacklog, HeartbeatBacklog, InBacklog, OwnHeartbeat
    <3>2. Expected \intersect Orphans = {}
      BY <2>6 DEF Orphans
    <3>3. Orphans' \ Expected' \subseteq Orphans \ Expected
      BY <2>4, <3>2
    <3> QED  BY <1>1, <2>4, <3>1, <3>3, NoMoreWaiting
  <2> QED  BY <2>5, <2>6
<1> QED  BY <1>1, <1>2, <1>3, QueuedOnce

\* The heartbeat takes a snapshot only when no job waits, so that all that is without
\* a job was left so by crashes.
LEMMA HeartbeatFrozen ==
  ASSUME AdvisoryInv, BacklogInv, RunnerOK', task.step # "enqueue", crashes' = crashes,
         HeartbeatBacklog = {}, jobs' = jobs,
         NEW s, snapshots' = snapshots \union {s}, Expected' \in {{}, {s}},
         OwnHeartbeat(s) => Expected' = {s}
  PROVE  BacklogInv'
<1>1. JobsOK /\ crashes \in Nat
  BY DEF AdvisoryInv, QueueInv
<1>2. IsFiniteSet(snapshots')
  BY FS_AddElement DEF BacklogInv
<1>3. OwnBacklog' = {}
  BY DEF OwnBacklog, HeartbeatBacklog, InBacklog
<1>4. Orphans' \subseteq Orphans \union {s} /\ Orphans' \ Expected' \subseteq Orphans
  BY DEF Orphans, HeartbeatJob
<1>5. IsFiniteSet(Orphans) /\ Orphans \ Expected = Orphans
  BY <1>1, BacklogFinite DEF Expected
<1>6. Cardinality(Orphans) <= crashes
  BY <1>5 DEF BacklogInv
<1>7. /\ Cardinality(Orphans) \in Nat /\ Cardinality(Orphans') \in Nat
      /\ Cardinality(Orphans') <= Cardinality(Orphans) + 1
  BY <1>4, <1>5, OneMore
<1>8. /\ Cardinality(Orphans' \ Expected') \in Nat
      /\ Cardinality(Orphans' \ Expected') <= Cardinality(Orphans)
  BY <1>4, <1>5, PartSize
<1>9. Cardinality(OwnBacklog') = 0
  BY <1>3, FS_EmptySet
<1>10. /\ Cardinality(Orphans' \ Expected') <= crashes'
       /\ Cardinality(OwnBacklog') + Cardinality(Orphans') <= 1 + crashes'
  BY <1>1, <1>6, <1>7, <1>8, <1>9
<1> QED  BY <1>2, <1>10 DEF BacklogInv, RunnerOK

\* Handlers that neither freeze nor queue.
LEMMA RestBacklog ==
  ASSUME AdvisoryInv, FrozenInv, BacklogInv,
         \/ \E e \in Events : Record(e)
         \/ \E j \in DOMAIN jobs : RunJob(j)
         \/ \E runner \in Runners : RunNext(runner)
         \/ RunRequested
         \/ OpenReview \/ StartReview \/ CloseReview \/ WorkerFails \/ FinishJob
         \/ \E s \in snapshots : RunLocalReview(s) \/ PostReview(s)
         \/ \E id \in DOMAIN reviews, state \in ReviewStates : PatchReview(id, state)
         \/ Expire
  PROVE  BacklogInv'
<1>1. JobsOK /\ TaskOK /\ IsFiniteSet(snapshots)
  BY DEF AdvisoryInv, QueueInv, BacklogInv
<1>2. ASSUME task.step # "enqueue", task'.step # "enqueue", jobs' = jobs,
             snapshots' = snapshots, crashes' = crashes
      PROVE  BacklogInv'
  <2>1. RunnerOK'
    BY <1>2 DEF RunnerOK
  <2> QED  BY <1>1, <1>2, <2>1, NothingQueued
<1>3. ASSUME NEW j \in DOMAIN jobs, Claim(j), task.step # "enqueue"
      PROVE  BacklogInv'
  <2>1. /\ MarksRunning(j) /\ jobs[j].state = "queued"
        /\ task' = [step |-> "open", job |-> j, snapshot |-> jobs[j].snapshot,
                    runner |-> jobs[j].runner]
        /\ UNCHANGED <<snapshots, crashes>>
    BY <1>3 DEF Claim, CanClaim, MarksRunning
  <2>2. /\ DOMAIN jobs' = DOMAIN jobs
        /\ \A i \in DOMAIN jobs : /\ i # j => jobs'[i] = jobs[i]
                                  /\ jobs'[i].snapshot = jobs[i].snapshot
                                  /\ jobs'[i].runner = jobs[i].runner
    BY <1>1, <2>1, ClaimJob
  <2>3. RunnerOK'
    BY <2>1 DEF RunnerOK
  <2> QED  BY <1>1, <1>3, <2>1, <2>2, <2>3, NothingQueued
<1>4. ASSUME NEW st \in {"completed", "failed"}, NEW rv, Close(task.job, st, rv),
             task.step # "enqueue", task' = Idle, UNCHANGED <<snapshots, crashes>>
      PROVE  BacklogInv'
  <2>1. /\ DOMAIN jobs' = DOMAIN jobs
        /\ \A i \in DOMAIN jobs : /\ i # task.job => jobs'[i] = jobs[i]
                                  /\ i = task.job => jobs'[i].state = st
                                  /\ jobs'[i].snapshot = jobs[i].snapshot
                                  /\ jobs'[i].runner = jobs[i].runner
    BY <1>1, <1>4, CloseJob
  <2>2. \A i \in DOMAIN jobs : jobs'[i].state \in {"queued", "running"} =>
          jobs[i].state \in {"queued", "running"}
    BY <1>4, <2>1
  <2>3. RunnerOK'
    BY <1>4 DEF RunnerOK, Idle
  <2> QED  BY <1>1, <1>4, <2>1, <2>2, <2>3, NothingQueued
<1>5. CASE \E e \in Events : Record(e)
  BY <1>2, <1>5 DEF Record, Idle
<1>6. CASE \/ \E j \in DOMAIN jobs : RunJob(j)
           \/ \E runner \in Runners : RunNext(runner)
           \/ RunRequested
  <2>1. task.step # "enqueue"
    BY <1>6 DEF RunJob, RunNext, RunRequested, Idle
  <2>2. CASE task' = Idle /\ UNCHANGED <<records, expired, snapshots, jobs, reviews, crashes>>
    BY <1>2, <2>1, <2>2 DEF Idle
  <2> QED  BY <1>3, <1>6, <2>1, <2>2, ClaimsJob
<1>7. CASE OpenReview
  <2>1. CASE Replay(task.snapshot) = {}
    <3>1. /\ Close(task.job, "failed", "none") /\ task.step # "enqueue" /\ task' = Idle
          /\ UNCHANGED <<snapshots, crashes>>
      BY <1>7, <2>1 DEF OpenReview
    <3>2. "failed" \in {"completed", "failed"}
      OBVIOUS
    <3> QED  BY <1>4, <3>1, <3>2
  <2>2. CASE Replay(task.snapshot) # {}
    <3>1. /\ task.step = "open" /\ task'.step = "start"
          /\ UNCHANGED <<snapshots, jobs, crashes>>
      BY <1>7, <2>2 DEF OpenReview
    <3> QED  BY <1>2, <3>1
  <2> QED  BY <2>1, <2>2
<1>8. CASE StartReview \/ CloseReview
  <2>1. /\ task' = [task EXCEPT !.step = "close"] \/ task' = [task EXCEPT !.step = "finish"]
        /\ task.step # "enqueue" /\ UNCHANGED <<snapshots, jobs, crashes>>
    BY <1>8 DEF StartReview, CloseReview
  <2>2. task'.step \in {"close", "finish"}
    BY <1>1, <2>1 DEF TaskOK
  <2> QED  BY <1>2, <2>1, <2>2
<1>9. CASE WorkerFails \/ FinishJob
  BY <1>4, <1>9 DEF WorkerFails, FinishJob
<1>10. CASE \E s \in snapshots : RunLocalReview(s) \/ PostReview(s)
  BY <1>2, <1>10 DEF RunLocalReview, PostReview, Asking, Idle, tables
<1>11. CASE \E id \in DOMAIN reviews, state \in ReviewStates : PatchReview(id, state)
  BY <1>2, <1>11 DEF PatchReview, Asking, Idle
<1>12. CASE Expire
  BY <1>2, <1>12 DEF Expire, Idle
<1> QED  BY <1>5, <1>6, <1>7, <1>8, <1>9, <1>10, <1>11, <1>12

\* Handlers that freeze.
LEMMA FreezingBacklog ==
  ASSUME AdvisoryInv, BacklogInv,
         MaybeFreeze \/ SnapshotAsked
  PROVE  BacklogInv'
<1>1. IsFiniteSet(snapshots)
  BY DEF BacklogInv
<1>2. ASSUME NEW s, ~OwnHeartbeat(s), snapshots' = snapshots \union {s},
             jobs' = jobs, crashes' = crashes, task.step # "enqueue",
             task'.step = "enqueue" => task'.snapshot = s
      PROVE  BacklogInv'
  <2>1. IsFiniteSet(snapshots')
    BY <1>1, <1>2, FS_AddElement
  <2>2. RunnerOK'
    BY <1>2 DEF RunnerOK
  <2>3. \A x \in snapshots' \ snapshots : ~OwnHeartbeat(x)
    BY <1>2
  <2> QED  BY <1>2, <2>1, <2>2, <2>3, NothingQueued
<1>3. CASE MaybeFreeze
  <2>1. task.step = "freeze" /\ jobs' = jobs /\ crashes' = crashes
    BY <1>3 DEF MaybeFreeze
  <2>2. CASE HeartbeatDue
             /\ Freeze(LastReviewed + 1, "heartbeat_aggregate", "deterministic_local")
    <3> DEFINE s == Snapshot(LastReviewed + 1, Len(records), "heartbeat_aggregate")
    <3>1. /\ snapshots' = snapshots \union {s}
          /\ task' = [step |-> "enqueue", snapshot |-> s,
                      runner |-> "deterministic_local", run |-> FALSE]
          /\ HeartbeatBacklog = {}
      BY <2>2 DEF Freeze, HeartbeatDue
    <3>2. OwnHeartbeat(s)
      BY DEF Snapshot, OwnHeartbeat
    <3> HIDE DEF s
    <3>3. Expected' = {s} /\ RunnerOK'
      BY <3>1, <3>2 DEF Expected, RunnerOK
    <3> QED  BY <2>1, <3>1, <3>3, HeartbeatFrozen
  <2>3. CASE Freeze(1, "threshold", "llm_provider")
    <3> DEFINE s == Snapshot(1, Len(records), "threshold")
    <3>1. snapshots' = snapshots \union {s} /\ task'.snapshot = s
      BY <2>3 DEF Freeze
    <3>2. ~OwnHeartbeat(s)
      BY DEF Snapshot, OwnHeartbeat
    <3> HIDE DEF s
    <3> QED  BY <1>2, <2>1, <3>1, <3>2
  <2>4. CASE task' = Idle /\ UNCHANGED snapshots
    <3>1. RunnerOK'
      BY <2>4 DEF RunnerOK, Idle
    <3> QED  BY <1>1, <2>1, <2>4, <3>1, NothingQueued
  <2> QED  BY <1>3, <2>2, <2>3, <2>4 DEF MaybeFreeze
<1>4. CASE SnapshotAsked
  <2>1. PICK from, to :
               \/ \E runner, run : RequestReview(from, to, runner, run)
               \/ \E reason : RequestSnapshot(from, to, reason)
    BY <1>4 DEF SnapshotAsked
  <2>2. \A reason : ~OwnHeartbeat(Chosen(from, to, reason))
    BY DEF Chosen, OwnHeartbeat
  <2>3. CASE \E runner, run : RequestReview(from, to, runner, run)
    <3> DEFINE s == Chosen(from, to, "operator_full_review")
    <3>1. /\ snapshots' = snapshots \union {s} /\ task'.snapshot = s
          /\ jobs' = jobs /\ crashes' = crashes /\ task.step # "enqueue"
      BY <2>3 DEF RequestReview, Asking, Idle
    <3>2. ~OwnHeartbeat(s)
      BY <2>2
    <3> HIDE DEF s
    <3> QED  BY <1>2, <3>1, <3>2
  <2>4. CASE \E reason : RequestSnapshot(from, to, reason)
    <3>1. PICK reason : RequestSnapshot(from, to, reason)
      BY <2>4
    <3> DEFINE s == Chosen(from, to, reason)
    <3>2. /\ snapshots' = snapshots \union {s} /\ task'.step # "enqueue"
          /\ jobs' = jobs /\ crashes' = crashes /\ task.step # "enqueue"
      BY <3>1 DEF RequestSnapshot, Asking, Idle
    <3>3. ~OwnHeartbeat(s)
      BY <2>2
    <3> HIDE DEF s
    <3> QED  BY <1>2, <3>2, <3>3
  <2> QED  BY <2>1, <2>3, <2>4
<1> QED  BY <1>3, <1>4

\* Handlers that queue, and crashes.
LEMMA QueueingBacklog ==
  ASSUME AdvisoryInv, FrozenInv, BacklogInv,
         \/ Enqueue
         \/ \E s \in snapshots, runner \in Runners : RequestJob(s, runner)
         \/ Crash
  PROVE  BacklogInv'
<1>1. CASE Enqueue
  <2>1. /\ task.step = "enqueue" /\ jobs' = Enqueued(task.snapshot, task.runner)
        /\ task'.step \in {"idle", "claim"}
        /\ UNCHANGED <<snapshots, crashes>>
    BY <1>1 DEF Enqueue, Idle
  <2>2. task.snapshot \in snapshots
    BY <2>1 DEF FrozenInv, TaskFrozen
  <2>3. RunnerOK' /\ Expected' = {}
    BY <2>1 DEF RunnerOK, Expected
  <2>4. \/ Expected = {}
        \/ Expected = {task.snapshot} /\ task.runner = "deterministic_local"
    BY <2>1 DEF Expected, BacklogInv
  <2> QED  BY <2>1, <2>2, <2>3, <2>4, JobQueued
<1>2. CASE \E s \in snapshots, runner \in Runners : RequestJob(s, runner)
  <2>1. PICK s \in snapshots, runner \in Runners : RequestJob(s, runner)
    BY <1>2
  <2>2. /\ jobs' = Enqueued(s, runner) /\ task' = task /\ task.step = "idle"
        /\ UNCHANGED <<snapshots, crashes>>
    BY <2>1 DEF RequestJob, Asking, Idle
  <2>3. RunnerOK' /\ Expected' = {} /\ Expected = {}
    BY <2>2 DEF RunnerOK, Expected
  <2> QED  BY <2>2, <2>3, JobQueued
<1>3. CASE Crash
  <2>1. /\ crashes' = crashes + 1 /\ task'.step = "idle"
        /\ UNCHANGED <<snapshots, jobs>>
    BY <1>3 DEF Crash, tables, Idle
  <2>2. JobsOK /\ crashes \in Nat
    BY DEF AdvisoryInv, QueueInv
  <2>3. OwnBacklog' = OwnBacklog /\ Orphans' = Orphans
    BY <2>1 DEF OwnBacklog, HeartbeatBacklog, InBacklog, Orphans, HeartbeatJob
  <2>4. Expected' = {} /\ Orphans' \ Expected' = Orphans
    BY <2>1, <2>3 DEF Expected
  <2> DEFINE b == Cardinality(OwnBacklog)
             o == Cardinality(Orphans)
  <2>5. b \in Nat /\ o \in Nat
    BY <2>2, BacklogFinite, FS_CardinalityType
  <2>6. b + o <= 1 + crashes
    BY DEF BacklogInv
  <2> HIDE DEF b, o
  <2>7. o <= crashes' /\ b + o <= 1 + crashes'
    BY <2>1, <2>2, <2>5, <2>6
  <2>8. /\ Cardinality(Orphans' \ Expected') <= crashes'
        /\ Cardinality(OwnBacklog') + Cardinality(Orphans') <= 1 + crashes'
    BY <2>3, <2>4, <2>7 DEF b, o
  <2>9. IsFiniteSet(snapshots') /\ RunnerOK'
    BY <2>1 DEF BacklogInv, RunnerOK
  <2> QED  BY <2>8, <2>9 DEF BacklogInv, RunnerOK
<1> QED  BY <1>1, <1>2, <1>3

\* The invariant of the backlog holds throughout.
LEMMA BacklogHolds == Spec => []BacklogInv
<1>1. Init => BacklogInv
  <2> SUFFICES ASSUME Init PROVE BacklogInv
    OBVIOUS
  <2>1. /\ snapshots = {} /\ jobs = <<>> /\ task.step = "idle" /\ crashes = 0
    BY DEF Init, Idle
  <2>2. DOMAIN jobs = {}
    BY <2>1
  <2>3. OwnBacklog = {} /\ Orphans = {} /\ Orphans \ Expected = {}
    BY <2>1, <2>2 DEF OwnBacklog, HeartbeatBacklog, Orphans
  <2> QED  BY <2>1, <2>3, FS_EmptySet DEF BacklogInv
<1>2. AdvisoryInv /\ FrozenInv /\ BacklogInv /\ [Next]_vars => BacklogInv'
  <2> SUFFICES ASSUME AdvisoryInv, FrozenInv, BacklogInv, [Next]_vars PROVE BacklogInv'
    OBVIOUS
  <2>1. CASE Next
    BY <2>1, RestBacklog, FreezingBacklog, QueueingBacklog
       DEF Next, Work, Ask, SnapshotAsked
  <2>2. CASE UNCHANGED vars
    BY <2>2 DEF vars, BacklogInv, OwnBacklog, HeartbeatBacklog, InBacklog, Orphans,
       HeartbeatJob, Expected
  <2> QED  BY <2>1, <2>2
<1> QED  BY <1>1, <1>2, AdvisoryInductive, ReachHolds, PTL DEF Spec

\* OneHeartbeatBacklog: the heartbeat's own jobs wait one at a time, and one more for each
\* crash that can have left a snapshot without its job.
THEOREM OneBacklog == Spec => []OneHeartbeatBacklog
<1>1. AdvisoryInv /\ BacklogInv => OneHeartbeatBacklog
  <2> SUFFICES ASSUME AdvisoryInv, BacklogInv PROVE OneHeartbeatBacklog
    OBVIOUS
  <2>1. JobsOK /\ crashes \in Nat
    BY DEF AdvisoryInv, QueueInv
  <2> DEFINE b == Cardinality(OwnBacklog)
             o == Cardinality(Orphans)
  <2>2. b \in Nat /\ o \in Nat
    BY <2>1, BacklogFinite, FS_CardinalityType
  <2>3. b + o <= 1 + crashes
    BY DEF BacklogInv
  <2> HIDE DEF b, o
  <2>4. b <= 1 + crashes
    BY <2>1, <2>2, <2>3
  <2> QED  BY <2>4 DEF OneHeartbeatBacklog, OwnBacklog, b
<1> QED  BY <1>1, AdvisoryInductive, BacklogHolds, PTL
=============================================================================
