---------------------------- MODULE AutonomyJobs ----------------------------
(***************************************************************************)
(* The autonomy job queue: the SQLite job store                            *)
(* (task-runtime/autonomy-job-store.mjs) with the worker loop that drains  *)
(* it (worker/autonomy-worker-loop.mjs) and the operator that closes its   *)
(* incidents.  Every store operation is one SQLite transaction and one     *)
(* action here; what a worker does between two transactions (the await of  *)
(* executeJob) is the interval between its claim and its settling step.    *)
(*                                                                         *)
(* A run is one call of runAutonomyWorkerOnce.  Two runs may carry the     *)
(* same worker id: stop() of a worker loop does not cancel the call in     *)
(* flight, and a restarted manager reuses a configured id.                 *)
(*                                                                         *)
(* Time is abstracted to what the code compares with it: lease says        *)
(* whether lease_expires_at is in the future ("live"), next_run whether    *)
(* next_run_at is ("later"), ahead orders the jobs by next_run_at, and     *)
(* operatorView says whether the updated_at an operator read is still the  *)
(* row's.  "none" is NULL.                                                 *)
(***************************************************************************)
EXTENDS Naturals, RecoveryDecision

CONSTANTS
  Jobs,          \* ids of the jobs that are ever enqueued
  Runs,          \* concurrent calls of runAutonomyWorkerOnce
  Workers,       \* worker ids
  WorkerOf,      \* the worker id each run passes to the store
  NoWorker,      \* NULL in autonomy_jobs.lease_owner
  NoJob,         \* the job of a run that has none
  AttemptCap,    \* bound: attempts one job may ever have
  Failures,      \* the failures executeJob and the verifier gate may report
  Stalls         \* may a lease expire while its run is still executing?

ASSUME ConstantsAssumption ==
  /\ WorkerOf \in [Runs -> Workers]
  /\ NoWorker \notin Workers
  /\ NoJob \notin Jobs
  /\ AttemptCap \in Nat \ {0}
  /\ Stalls \in BOOLEAN

ASSUME FailuresAssumption ==
  \A f \in Failures :
    /\ f.failure_class \in FailureClasses
    /\ f.retryable \in Retryable
    /\ f.missing_slot \in BOOLEAN
    /\ f.policy_failed \in BOOLEAN
    /\ f.max_retries \in 0 .. AttemptCap   \* 0: the result names no budget

VARIABLES
  jobs,          \* the rows of autonomy_jobs
  attempts,      \* the rows of autonomy_job_attempts, by job and attempt number
  ahead,         \* <<i, j>>: job i sorts before job j by next_run_at
  runs,          \* what each run holds in memory: its claim
  operatorView   \* the updated_at the operator holds for a job

vars == <<jobs, attempts, ahead, runs, operatorView>>

AttemptNo == 1 .. AttemptCap

JobStatus == {"absent", "queued", "running", "completed", "failed"}

\* operator_disposition.latest.action; the two acks suppress alike.
Dispositions == {"none", "resume_same_job", "ack", "runtime_failure"}

JobRow == [status        : JobStatus,
           lease_owner   : Workers \cup {NoWorker},
           lease         : {"none", "live", "expired"},
           next_run      : {"none", "later", "due"},
           attempt_count : 0 .. AttemptCap,
           max_attempts  : 0 .. AttemptCap,
           result        : 0 .. AttemptCap,  \* attempt whose result is stored
           sink          : Sinks,            \* error.lifecycle_sink.state
           disposition   : Dispositions]     \* error.operator_disposition.latest

AttemptRow == [status : {"none", "running", "completed", "failed"},
               worker : Workers \cup {NoWorker}]

RunState == [phase   : {"idle", "executing"},
             job     : Jobs \cup {NoJob},
             attempt : 0 .. AttemptCap,
             max     : 0 .. AttemptCap]      \* claim.job.max_attempts

TypeOK ==
  /\ jobs \in [Jobs -> JobRow]
  /\ attempts \in [Jobs -> [AttemptNo -> AttemptRow]]
  /\ ahead \in SUBSET (Jobs \X Jobs)
  /\ runs \in [Runs -> RunState]
  /\ operatorView \in [Jobs -> {"none", "current", "stale"}]

AbsentJob == [status |-> "absent", lease_owner |-> NoWorker, lease |-> "none",
              next_run |-> "none", attempt_count |-> 0, max_attempts |-> 0,
              result |-> 0, sink |-> "none", disposition |-> "none"]

IdleRun == [phase |-> "idle", job |-> NoJob, attempt |-> 0, max |-> 0]

Init ==
  /\ jobs = [j \in Jobs |-> AbsentJob]
  /\ attempts = [j \in Jobs |->
                   [n \in AttemptNo |-> [status |-> "none", worker |-> NoWorker]]]
  /\ ahead = {}
  /\ runs = [r \in Runs |-> IdleRun]
  /\ operatorView = [j \in Jobs |-> "none"]

-----------------------------------------------------------------------------
\* next_run_at := now puts j behind every other job.
MoveToBack(j) ==
  ahead' = {p \in ahead : p[1] # j /\ p[2] # j} \cup {<<i, j>> : i \in Jobs \ {j}}

\* Every UPDATE of a row sets updated_at, so a view the operator holds goes stale.
Touched(j) ==
  [operatorView EXCEPT ![j] = IF @ = "current" THEN "stale" ELSE @]

-----------------------------------------------------------------------------
(* Enqueue and time *)

\* enqueueAutonomyJobRecord; when = "later" is a not-before time in the future.
Enqueue(j, max, when) ==
  /\ jobs[j].status = "absent"
  /\ jobs' = [jobs EXCEPT ![j] = [AbsentJob EXCEPT !.status = "queued",
                                                   !.next_run = when,
                                                   !.max_attempts = max]]
  /\ MoveToBack(j)
  /\ UNCHANGED <<attempts, runs, operatorView>>

\* The clock passes the not-before time of a queued job.
BecomesDue(j) ==
  /\ jobs[j].status = "queued"
  /\ jobs[j].next_run = "later"
  /\ jobs' = [jobs EXCEPT ![j].next_run = "due"]
  /\ MoveToBack(j)
  /\ UNCHANGED <<attempts, runs, operatorView>>

\* A run whose heartbeat timer renews the lease of j.
Renews(r, j) ==
  /\ runs[r].phase = "executing"
  /\ runs[r].job = j
  /\ WorkerOf[r] = jobs[j].lease_owner

\* The clock passes lease_expires_at.  Without Stalls this happens only once
\* no run renews the lease; with Stalls the event loop or the machine may
\* have slept for longer than the lease.
LeaseExpires(j) ==
  /\ jobs[j].status = "running"
  /\ jobs[j].lease = "live"
  /\ Stalls \/ \A r \in Runs : ~Renews(r, j)
  /\ jobs' = [jobs EXCEPT ![j].lease = "expired"]
  /\ UNCHANGED <<attempts, ahead, runs, operatorView>>

-----------------------------------------------------------------------------
(* Claim *)

\* Mutants of the two selections: by next_run_at alone; a running job only when
\* it is unowned; a running job whether or not its lease has expired.
QueuedDueAnyStatus(j) == jobs[j].next_run = "due"
LeaseExpiredUnowned(j) == jobs[j].status = "running" /\ jobs[j].lease_owner = NoWorker
LeaseExpiredEarly(j) == jobs[j].status = "running" /\ jobs[j].lease # "none"

QueuedDue(j) == jobs[j].status = "queued" /\ jobs[j].next_run = "due"

LeaseExpired(j) == jobs[j].status = "running" /\ jobs[j].lease = "expired"

\* The row the SELECT of claimNextAutonomyJob returns: queued rows before
\* expired ones, the earliest next_run_at first.
IsNextCandidate(j) ==
  \/ /\ QueuedDue(j)
     /\ \A i \in Jobs \ {j} : QueuedDue(i) => <<j, i>> \in ahead
  \/ /\ LeaseExpired(j)
     /\ \A i \in Jobs : ~QueuedDue(i)
     /\ \A i \in Jobs \ {j} : LeaseExpired(i) => <<j, i>> \in ahead

\* A candidate without budget is failed on the spot and nothing is claimed.
\* Its error is replaced: no lifecycle sink, no operator disposition.
ClaimExhausted(r, j) ==
  /\ runs[r].phase = "idle"
  /\ IsNextCandidate(j)
  /\ jobs[j].attempt_count >= jobs[j].max_attempts
  /\ jobs' = [jobs EXCEPT ![j] = [@ EXCEPT !.status = "failed",
                                           !.lease_owner = NoWorker,
                                           !.lease = "none",
                                           !.sink = "none",
                                           !.disposition = "none"]]
  /\ operatorView' = Touched(j)
  /\ UNCHANGED <<attempts, ahead, runs>>

\* The claim itself: attempt n of job j for run r.
ClaimAs(r, j, n) ==
  /\ jobs' = [jobs EXCEPT ![j] = [@ EXCEPT !.status = "running",
                                           !.lease_owner = WorkerOf[r],
                                           !.lease = "live",
                                           !.attempt_count = n]]
  /\ runs' = [runs EXCEPT ![r] = [phase |-> "executing", job |-> j,
                                  attempt |-> n, max |-> jobs[j].max_attempts]]
  /\ operatorView' = Touched(j)
  /\ UNCHANGED ahead

\* Mutants: one attempt too many; the superseded attempt is closed.
ClaimPastBudget(r, j) ==
  LET n == jobs[j].attempt_count + 1 IN
  /\ runs[r].phase = "idle"
  /\ IsNextCandidate(j)
  /\ jobs[j].attempt_count <= jobs[j].max_attempts
  /\ ClaimAs(r, j, n)
  /\ attempts' = [attempts EXCEPT ![j][n] = [status |-> "running",
                                             worker |-> WorkerOf[r]]]
ClaimClosesSuperseded(r, j) ==
  LET n == jobs[j].attempt_count + 1 IN
  /\ runs[r].phase = "idle"
  /\ IsNextCandidate(j)
  /\ jobs[j].attempt_count < jobs[j].max_attempts
  /\ ClaimAs(r, j, n)
  /\ attempts' = [attempts EXCEPT ![j] = [m \in AttemptNo |->
                    IF m = n THEN [status |-> "running", worker |-> WorkerOf[r]]
                    ELSE IF @[m].status = "running" THEN [@[m] EXCEPT !.status = "failed"]
                    ELSE @[m]]]

\* The attempt row of a previous, expired lease stays as it is.
Claim(r, j) ==
  LET n == jobs[j].attempt_count + 1 IN
  /\ runs[r].phase = "idle"
  /\ IsNextCandidate(j)
  /\ jobs[j].attempt_count < jobs[j].max_attempts
  /\ ClaimAs(r, j, n)
  /\ attempts' = [attempts EXCEPT ![j][n] = [status |-> "running",
                                             worker |-> WorkerOf[r]]]

-----------------------------------------------------------------------------
(* A run in flight *)

\* Mutant: the UPDATE of the heartbeat has lost its WHERE conditions.
HeartbeatUnguarded(r) ==
  LET j == runs[r].job IN
  /\ runs[r].phase = "executing"
  /\ jobs' = [jobs EXCEPT ![j] = [@ EXCEPT !.status = "running",
                                           !.lease_owner = WorkerOf[r],
                                           !.lease = "live"]]
  /\ UNCHANGED <<attempts, ahead, runs, operatorView>>

\* heartbeatAutonomyAttempt.  The lease of the job is extended for the worker
\* id that owns it, whichever attempt the heartbeat is for; when the attempt
\* is not running the call reports an error, which the timer only logs.
Heartbeat(r) ==
  LET j == runs[r].job IN
  /\ runs[r].phase = "executing"
  /\ jobs[j].status = "running"
  /\ jobs[j].lease_owner = WorkerOf[r]
  /\ jobs' = [jobs EXCEPT ![j].lease = "live"]
  /\ operatorView' = Touched(j)
  /\ UNCHANGED <<attempts, ahead, runs>>

\* The run still owns a running attempt row: the fence of both settling calls.
AttemptRunning(r) ==
  /\ runs[r].phase = "executing"
  /\ attempts[runs[r].job][runs[r].attempt] =
       [status |-> "running", worker |-> WorkerOf[r]]

SetAttempt(r, status) ==
  attempts' = [attempts EXCEPT ![runs[r].job][runs[r].attempt] =
                 [@ EXCEPT !.status = status]]

EndRun(r) == runs' = [runs EXCEPT ![r] = IdleRun]

\* Mutant: the result is filed under the job's newest attempt.
CompleteNewest(r) ==
  LET j == runs[r].job IN
  /\ AttemptRunning(r)
  /\ SetAttempt(r, "completed")
  /\ jobs[j].lease_owner = WorkerOf[r]
  /\ jobs' = [jobs EXCEPT ![j] = [@ EXCEPT !.status = "completed",
                                           !.lease_owner = NoWorker,
                                           !.lease = "none",
                                           !.result = jobs[j].attempt_count]]
  /\ EndRun(r)
  /\ UNCHANGED <<ahead, operatorView>>

\* completeAutonomyAttempt after execute success and verifier pass.  The job
\* row changes only when its lease still belongs to the worker id.
Complete(r) ==
  LET j == runs[r].job IN
  /\ AttemptRunning(r)
  /\ SetAttempt(r, "completed")
  /\ IF jobs[j].lease_owner = WorkerOf[r]
       THEN /\ jobs' = [jobs EXCEPT ![j] = [@ EXCEPT !.status = "completed",
                                                     !.lease_owner = NoWorker,
                                                     !.lease = "none",
                                                     !.result = runs[r].attempt,
                                                     !.sink = "none",
                                                     !.disposition = "none"]]
            /\ operatorView' = Touched(j)
       ELSE UNCHANGED <<jobs, operatorView>>
  /\ EndRun(r)
  /\ UNCHANGED ahead

\* normalizeAutonomyFailure: the decision is taken from the run's own copy of
\* the job, as it was when the run claimed it.
FailureDecision(r, f) ==
  ResolveRecoveryDecisionV1(
    [failure_class |-> f.failure_class, missing_slot |-> f.missing_slot,
     retryable     |-> f.retryable,     policy_failed |-> f.policy_failed,
     candidates    |-> 0,
     retry_count   |-> runs[r].attempt,
     max_retries   |-> IF f.max_retries # 0 THEN f.max_retries ELSE runs[r].max])

\* mergeFailureErrorWithOperatorDispositionHistory
MergedDisposition(d) == IF d = "none" THEN "none" ELSE "runtime_failure"

\* Mutant: the lease is not released.
FailJobRowKeepsLease(job, retryable, sink) ==
  LET canRetry == retryable /\ job.attempt_count < job.max_attempts IN
  [job EXCEPT !.status = IF canRetry THEN "queued" ELSE "failed",
              !.next_run = IF canRetry THEN "due" ELSE "none",
              !.sink = sink]

\* failAutonomyAttempt: the attempt row is fenced, the job row is not: it is
\* updated whoever holds its lease and whatever its status is.
FailJobRow(job, retryable, sink) ==
  LET canRetry == retryable /\ job.attempt_count < job.max_attempts IN
  [job EXCEPT !.status = IF canRetry THEN "queued" ELSE "failed",
              !.lease_owner = NoWorker,
              !.lease = "none",
              !.next_run = IF canRetry THEN "due" ELSE "none",
              !.sink = sink,
              !.disposition = MergedDisposition(@)]

\* An execution that failed, was rejected by the verifier gate, threw or
\* timed out.
Fail(r, f) ==
  LET j == runs[r].job
      decision == FailureDecision(r, f)
      row == FailJobRow(jobs[j], decision.next_state = "executing",
                        LifecycleSink(decision))
  IN
  /\ AttemptRunning(r)
  /\ SetAttempt(r, "failed")
  /\ jobs' = [jobs EXCEPT ![j] = row]
  /\ IF row.status = "queued" THEN MoveToBack(j) ELSE UNCHANGED ahead
  /\ operatorView' = Touched(j)
  /\ EndRun(r)

\* The process dies (or the settling transaction itself throws): the rows
\* stay, the memory of the run is gone, and a restarted worker polls again.
Crash(r) ==
  /\ runs[r].phase = "executing"
  /\ EndRun(r)
  /\ UNCHANGED <<jobs, attempts, ahead, operatorView>>

-----------------------------------------------------------------------------
(* The operator *)

\* Mutant: acknowledged incidents are still open.
OpenIncidentIgnoresAck(j) == jobs[j].status = "failed" /\ jobs[j].sink # "none"

\* readAutonomyOpenIncidentByJobId
OpenIncident(j) ==
  /\ jobs[j].status = "failed"
  /\ jobs[j].sink # "none"
  /\ jobs[j].disposition # "ack"

\* list-open, then the operator holds the row's updated_at.
ReadIncident(j) ==
  /\ OpenIncident(j)
  /\ operatorView' = [operatorView EXCEPT ![j] = "current"]
  /\ UNCHANGED <<jobs, attempts, ahead, runs>>

\* The precondition expected_updated_at; conditional = FALSE: none was given.
PreconditionHolds(j, conditional) ==
  conditional => operatorView[j] = "current"

\* Mutant: the budget is not raised for the resumed attempt.
ResumeSameBudget(j, conditional) ==
  /\ OpenIncident(j)
  /\ PreconditionHolds(j, conditional)
  /\ jobs' = [jobs EXCEPT ![j] = [@ EXCEPT !.status = "queued",
                                           !.next_run = "due",
                                           !.disposition = "resume_same_job"]]
  /\ MoveToBack(j)
  /\ operatorView' = [operatorView EXCEPT ![j] = "none"]
  /\ UNCHANGED <<attempts, runs>>

\* applyAutonomyIncidentDisposition, resume_same_job
Resume(j, conditional) ==
  LET job == jobs[j] IN
  /\ OpenIncident(j)
  /\ PreconditionHolds(j, conditional)
  /\ job.attempt_count < AttemptCap                       \* bound
  /\ jobs' = [jobs EXCEPT ![j] = [job EXCEPT
                !.status = "queued",
                !.next_run = "due",
                !.max_attempts = IF job.max_attempts <= job.attempt_count
                                   THEN job.attempt_count + 1
                                   ELSE job.max_attempts,
                !.disposition = "resume_same_job"]]
  /\ MoveToBack(j)
  /\ operatorView' = [operatorView EXCEPT ![j] = "none"]
  /\ UNCHANGED <<attempts, runs>>

\* applyAutonomyIncidentDisposition, ack_waiting_user or ack_escalated,
\* whichever matches the sink.
Acknowledge(j, conditional) ==
  /\ OpenIncident(j)
  /\ PreconditionHolds(j, conditional)
  /\ jobs' = [jobs EXCEPT ![j].disposition = "ack"]
  /\ operatorView' = [operatorView EXCEPT ![j] = "none"]
  /\ UNCHANGED <<attempts, ahead, runs>>

\* precondition_failed or open_incident_not_found: the operator looks again.
DispositionRefused(j) ==
  /\ operatorView[j] = "stale"
  /\ operatorView' = [operatorView EXCEPT ![j] = "none"]
  /\ UNCHANGED <<jobs, attempts, ahead, runs>>

-----------------------------------------------------------------------------
RunStep(r) ==
  \/ \E j \in Jobs : Claim(r, j) \/ ClaimExhausted(r, j)
  \/ Heartbeat(r)
  \/ Complete(r)
  \/ \E f \in Failures : Fail(r, f)
  \/ Crash(r)

OperatorStep(j) ==
  \/ ReadIncident(j)
  \/ \E c \in BOOLEAN : Resume(j, c) \/ Acknowledge(j, c)
  \/ DispositionRefused(j)

JobStep(j) ==
  \/ \E m \in AttemptNo, when \in {"due", "later"} : Enqueue(j, m, when)
  \/ BecomesDue(j)
  \/ LeaseExpires(j)

Next ==
  \/ \E j \in Jobs : JobStep(j) \/ OperatorStep(j)
  \/ \E r \in Runs : RunStep(r)

Spec == Init /\ [][Next]_vars

(***************************************************************************)
(* Fairness: a worker loop re-arms its poll timer after every call; every  *)
(* execution settles because withAutonomyExecuteTimeout rejects it after a *)
(* bounded time; clocks advance.  Nothing is assumed of operators, of      *)
(* heartbeats or of crashes.                                               *)
(***************************************************************************)
Settles(r) == Complete(r) \/ \E f \in Failures : Fail(r, f)

Polls(r) == \E j \in Jobs : Claim(r, j) \/ ClaimExhausted(r, j)

Fairness ==
  /\ \A r \in Runs : WF_vars(Settles(r)) /\ WF_vars(Polls(r))
  /\ \A j \in Jobs : WF_vars(BecomesDue(j)) /\ WF_vars(LeaseExpires(j))

FairSpec == Spec /\ Fairness

-----------------------------------------------------------------------------
(* Properties that hold whatever expires when *)

\* A run in flight owns its attempt row until it settles it itself: no other
\* claim, reclaim, completion or disposition closes it.  So the settling
\* calls never return attempt_not_running, and their result is never lost.
RunOwnsItsAttempt ==
  \A r \in Runs : runs[r].phase = "executing" => AttemptRunning(r)

\* A running job is held by its newest attempt: that row is running and was
\* made by the lease owner.  A late complete or fail of an older attempt can
\* end the job, but never leave it running under a lease nobody works for.
LeaseBelongsToNewestAttempt ==
  \A j \in Jobs :
    /\ jobs[j].status = "running" <=> jobs[j].lease_owner # NoWorker
    /\ jobs[j].status = "running" =>
         attempts[j][jobs[j].attempt_count] =
           [status |-> "running", worker |-> jobs[j].lease_owner]

\* The attempt budget: never more attempts than max_attempts, one row per
\* attempt counted, and a queued job always has an attempt left, so a claim
\* never burns a job that an operator or a retry just put back in the queue.
AttemptBudget ==
  \A j \in Jobs :
    /\ jobs[j].attempt_count <= jobs[j].max_attempts
    /\ \A n \in AttemptNo :
         attempts[j][n].status # "none" <=> n <= jobs[j].attempt_count
    /\ jobs[j].status = "queued" => jobs[j].attempt_count < jobs[j].max_attempts

\* A stored result comes from an attempt that completed: a job is completed
\* only by execute success and verifier pass of one of its attempts.
ResultComesFromCompletedAttempt ==
  \A j \in Jobs :
    /\ jobs[j].status = "completed" => jobs[j].result # 0
    /\ jobs[j].result # 0 => attempts[j][jobs[j].result].status = "completed"

\* A completed job is undone only by the failure of another attempt that a run
\* is still executing: an earlier one, or, when an earlier one of the same worker
\* id completed the job, the newest.
CompletedUndoneOnlyByOtherAttempt ==
  [][\A j \in Jobs :
       jobs[j].status = "completed" /\ jobs'[j].status # "completed" =>
         \E r \in Runs :
           /\ runs[r].job = j
           /\ runs[r].attempt # jobs[j].result
           /\ attempts[j][runs[r].attempt].status = "running"
           /\ attempts'[j][runs[r].attempt].status = "failed"]_vars

\* An acknowledged incident stays closed until a run of the job fails again;
\* then the incident is open again if the failure has a sink.
AcknowledgedUntilNewFailure ==
  [][\A j \in Jobs :
       jobs[j].disposition = "ack" /\ jobs'[j].disposition # "ack" =>
         /\ \E n \in AttemptNo : /\ attempts[j][n].status = "running"
                                 /\ attempts'[j][n].status = "failed"
         /\ jobs'[j].sink # "none" /\ jobs'[j].status = "failed" =>
              OpenIncident(j)']_vars

\* Every accepted job ends: no lease, retry, crash or reclaim order strands it.
JobsSettle ==
  \A j \in Jobs : jobs[j].status \in {"queued", "running"} ~>
                    jobs[j].status \in {"completed", "failed"}

\* What the invariants above rest on: runs work on different attempts, a job
\* that was not enqueued has no history, and a running job has an attempt.
RunsDisjoint ==
  \A r, s \in Runs :
    /\ r # s
    /\ runs[r].phase = "executing"
    /\ runs[s].phase = "executing"
    /\ runs[r].job = runs[s].job
    => runs[r].attempt # runs[s].attempt

RowsWellFormed ==
  /\ \A j \in Jobs :
       /\ jobs[j].status = "absent" => jobs[j] = AbsentJob
       /\ jobs[j].status = "running" => jobs[j].attempt_count > 0
  /\ \A r \in Runs : runs[r].phase = "executing" =>
       runs[r].job \in Jobs /\ runs[r].attempt \in AttemptNo

IndInv ==
  /\ TypeOK
  /\ RowsWellFormed
  /\ RunsDisjoint
  /\ RunOwnsItsAttempt
  /\ LeaseBelongsToNewestAttempt
  /\ AttemptBudget
  /\ ResultComesFromCompletedAttempt

-----------------------------------------------------------------------------
(* Properties of the deployment in which a lease outlives only a dead run  *)

\* At most one run executes a job: the one that holds its lease, which is live.
ExclusiveExecution ==
  \A r \in Runs : runs[r].phase = "executing" =>
    LET job == jobs[runs[r].job] IN
    /\ job.status = "running"
    /\ job.lease_owner = WorkerOf[r]
    /\ job.lease = "live"
    /\ job.attempt_count = runs[r].attempt

\* Completed is final.
CompletedIsFinal ==
  [][\A j \in Jobs :
       jobs[j].status = "completed" => jobs'[j].status = "completed"]_vars

\* A job that stopped for the user or for an operator (missing slot,
\* permission denied, effect committed, commit unknown) is executed again
\* only after resume_same_job.
SinkHeldForOperator ==
  [][\A j \in Jobs :
       /\ jobs[j].status = "failed"
       /\ jobs[j].sink # "none"
       /\ jobs'[j].status # "failed"
       => /\ jobs[j].disposition # "ack"
          /\ jobs'[j].disposition = "resume_same_job"]_vars

-----------------------------------------------------------------------------
\* What the docs say of operator dispositions: a job that fails after one
\* keeps the disposition history.
DispositionHistoryKept ==
  [][\A j \in Jobs :
       jobs[j].disposition # "none" /\ jobs'[j].status = "failed" =>
         jobs'[j].disposition # "none"]_vars
=============================================================================
