------------------------- MODULE AutonomyJobsProofs -------------------------
(***************************************************************************)
(* What AutonomyJobs guarantees for every set of jobs, runs and workers,   *)
(* every assignment of worker ids to runs and every attempt cap.           *)
(***************************************************************************)
EXTENDS AutonomyJobs, TLAPS

-----------------------------------------------------------------------------
(* Facts about the rows *)

\* The row of a job that was never enqueued is a row.
LEMMA AbsentJobType == AbsentJob \in JobRow
BY ConstantsAssumption DEF AbsentJob, JobRow, JobStatus, Sinks, Dispositions

\* Moving a job to the back of the queue keeps the order a relation on jobs.
LEMMA MoveToBackType ==
  ASSUME TypeOK, NEW j \in Jobs, MoveToBack(j)
  PROVE  ahead' \in SUBSET (Jobs \X Jobs)
BY DEF MoveToBack, TypeOK

\* Touching updated_at keeps operatorView well typed.
LEMMA TouchedType ==
  ASSUME TypeOK, NEW j \in Jobs
  PROVE  Touched(j) \in [Jobs -> {"none", "current", "stale"}]
BY DEF Touched, TypeOK

\* A run in flight names a job, an attempt of it and its own worker id.
LEMMA ExecutingRun ==
  ASSUME IndInv, NEW r \in Runs, runs[r].phase = "executing"
  PROVE  /\ runs[r].job \in Jobs
         /\ runs[r].attempt \in AttemptNo
         /\ runs[r].attempt <= jobs[runs[r].job].attempt_count
         /\ attempts[runs[r].job][runs[r].attempt].status = "running"
         /\ attempts[runs[r].job][runs[r].attempt].worker = WorkerOf[r]
<1>1. runs[r].job \in Jobs /\ runs[r].attempt \in AttemptNo
  BY DEF IndInv, RowsWellFormed
<1>2. attempts[runs[r].job][runs[r].attempt] =
        [status |-> "running", worker |-> WorkerOf[r]]
  BY DEF IndInv, RunOwnsItsAttempt, AttemptRunning
<1>3. attempts[runs[r].job][runs[r].attempt].status # "none"
  BY <1>2
<1> QED BY <1>1, <1>2, <1>3 DEF IndInv, AttemptBudget

-----------------------------------------------------------------------------
(* Every step keeps the inductive invariant: one lemma per action *)

\* Enqueue preserves the invariant: the new row has no history.
LEMMA EnqueueInv ==
  ASSUME IndInv, NEW j \in Jobs, NEW m \in AttemptNo, NEW when \in {"due", "later"},
         Enqueue(j, m, when)
  PROVE  IndInv'
<1> DEFINE row == [AbsentJob EXCEPT !.status = "queued", !.next_run = when,
                                    !.max_attempts = m]
<1>t. TypeOK /\ AttemptCap \in Nat
  BY ConstantsAssumption DEF IndInv
<1>m. m \in 0 .. AttemptCap
  BY <1>t DEF AttemptNo
<1>r. row \in JobRow
  BY <1>m, AbsentJobType DEF JobRow, JobStatus
<1>f. /\ row.status = "queued" /\ row.lease_owner = NoWorker
      /\ row.attempt_count = 0 /\ row.max_attempts = m /\ row.result = 0
  BY DEF AbsentJob
<1>j. /\ jobs' = [jobs EXCEPT ![j] = row]
      /\ jobs[j] = AbsentJob
      /\ UNCHANGED <<attempts, runs, operatorView>>
      /\ ahead' \in SUBSET (Jobs \X Jobs)
  BY <1>t, MoveToBackType DEF Enqueue, IndInv, RowsWellFormed
<1> HIDE DEF row
<1>1. TypeOK'
  BY <1>t, <1>r, <1>j DEF TypeOK
<1>2. RowsWellFormed' /\ RunsDisjoint'
  BY <1>t, <1>f, <1>j DEF TypeOK, IndInv, RowsWellFormed, RunsDisjoint
<1>3. RunOwnsItsAttempt'
  BY <1>j DEF IndInv, RunOwnsItsAttempt, AttemptRunning
<1>4. LeaseBelongsToNewestAttempt'
  BY <1>t, <1>f, <1>j DEF TypeOK, IndInv, LeaseBelongsToNewestAttempt
<1>5. AttemptBudget'
  BY <1>t, <1>f, <1>j DEF TypeOK, IndInv, AttemptBudget, AbsentJob, AttemptNo
<1>6. ResultComesFromCompletedAttempt'
  BY <1>t, <1>f, <1>j DEF TypeOK, IndInv, ResultComesFromCompletedAttempt
<1> QED BY <1>1, <1>2, <1>3, <1>4, <1>5, <1>6 DEF IndInv

\* Claim preserves the invariant: its attempt number is a fresh one.
LEMMA ClaimInv ==
  ASSUME IndInv, NEW r \in Runs, NEW j \in Jobs, Claim(r, j)
  PROVE  IndInv'
<1> DEFINE n == jobs[j].attempt_count + 1
           row == [jobs[j] EXCEPT !.status = "running", !.lease_owner = WorkerOf[r],
                                  !.lease = "live", !.attempt_count = n]
           att == [status |-> "running", worker |-> WorkerOf[r]]
           run == [phase |-> "executing", job |-> j, attempt |-> n,
                   max |-> jobs[j].max_attempts]
<1>t. TypeOK /\ AttemptCap \in Nat /\ WorkerOf[r] \in Workers /\ WorkerOf[r] # NoWorker
  BY ConstantsAssumption DEF IndInv
<1>c. jobs[j] \in JobRow /\ jobs[j].attempt_count < jobs[j].max_attempts
  BY <1>t DEF TypeOK, Claim, ClaimAs
<1>n. /\ n \in AttemptNo /\ n \in 0 .. AttemptCap /\ n \in Nat
      /\ n <= jobs[j].max_attempts
  BY <1>t, <1>c DEF JobRow, AttemptNo
<1>r. row \in JobRow /\ att \in AttemptRow /\ run \in RunState
  BY <1>t, <1>c, <1>n DEF JobRow, JobStatus, AttemptRow, RunState
<1>f. /\ row.status = "running" /\ row.lease_owner = WorkerOf[r]
      /\ row.attempt_count = n /\ row.max_attempts = jobs[j].max_attempts
      /\ row.result = jobs[j].result
  BY <1>c DEF JobRow
<1>j. /\ jobs' = [jobs EXCEPT ![j] = row]
      /\ attempts' = [attempts EXCEPT ![j] = [@ EXCEPT ![n] = att]]
      /\ runs' = [runs EXCEPT ![r] = run]
      /\ operatorView' = Touched(j) /\ UNCHANGED ahead
  BY DEF Claim, ClaimAs
<1>g. run.phase = "executing" /\ run.job = j /\ run.attempt = n
  OBVIOUS
<1>u. \A s \in Runs : runs[s].phase = "executing" =>
         ~(runs[s].job = j /\ runs[s].attempt = n)
  BY <1>c, ExecutingRun DEF JobRow
<1>v. \A k \in Jobs, i \in AttemptNo :
        attempts'[k][i] = IF k = j /\ i = n THEN att ELSE attempts[k][i]
  BY <1>t, <1>j, <1>n DEF TypeOK
<1>w. att.status = "running" /\ att.worker = WorkerOf[r]
  OBVIOUS
<1> HIDE DEF row, run, att
<1>1. TypeOK'
  BY <1>t, <1>r, <1>j, <1>n, TouchedType DEF TypeOK
<1>2. RowsWellFormed'
  BY <1>t, <1>f, <1>g, <1>j, <1>n DEF TypeOK, IndInv, RowsWellFormed, AttemptNo
<1>3. RunsDisjoint'
  BY <1>t, <1>g, <1>j, <1>u DEF TypeOK, IndInv, RunsDisjoint
<1>4. RunOwnsItsAttempt'
  <2> USE DEF RunOwnsItsAttempt, AttemptRunning
  <2> TAKE s \in Runs
  <2>1. CASE s = r
    BY <2>1, <1>t, <1>g, <1>j, <1>n, <1>v DEF TypeOK, att
  <2>2. CASE s # r
    BY <2>2, <1>t, <1>j, <1>u, <1>v DEF TypeOK, IndInv, RowsWellFormed
  <2> QED BY <2>1, <2>2
<1>5. LeaseBelongsToNewestAttempt'
  BY <1>t, <1>f, <1>j, <1>n, <1>v DEF TypeOK, JobRow, IndInv, RowsWellFormed,
     AttemptNo, LeaseBelongsToNewestAttempt, att
<1>6. AttemptBudget'
  <2> USE DEF AttemptBudget
  <2> TAKE k \in Jobs
  <2>1. CASE k # j
    BY <2>1, <1>t, <1>j, <1>v DEF TypeOK, IndInv, AttemptBudget
  <2>2. CASE k = j
    BY <2>2, <1>t, <1>c, <1>f, <1>j, <1>n, <1>v, <1>w DEF TypeOK, JobRow, IndInv,
       AttemptBudget, AttemptNo
  <2> QED BY <2>1, <2>2
<1>7. ResultComesFromCompletedAttempt'
  <2> USE DEF ResultComesFromCompletedAttempt
  <2> TAKE k \in Jobs
  <2>1. jobs[k].result # 0 => /\ jobs[k].result \in AttemptNo
                              /\ jobs[k].result <= jobs[k].attempt_count
                              /\ attempts[k][jobs[k].result].status = "completed"
    BY <1>t DEF TypeOK, JobRow, AttemptNo, IndInv, ResultComesFromCompletedAttempt,
       AttemptBudget
  <2>2. jobs'[k].result = jobs[k].result
        /\ (jobs'[k].status = "completed" => jobs[k].status = "completed")
    BY <1>t, <1>f, <1>j DEF TypeOK
  <2>3. jobs[k].result # 0 => ~(k = j /\ jobs[k].result = n)
    BY <2>1, <1>c DEF JobRow
  <2> QED BY <2>1, <2>2, <2>3, <1>v DEF IndInv, ResultComesFromCompletedAttempt
<1> QED BY <1>1, <1>2, <1>3, <1>4, <1>5, <1>6, <1>7 DEF IndInv

\* A step that rewrites only the row of j, keeps its counters and its result,
\* and takes it out of the hands of its worker.
LEMMA ReleasedRowInv ==
  ASSUME IndInv, NEW j \in Jobs, NEW row \in JobRow,
         jobs' = [jobs EXCEPT ![j] = row],
         UNCHANGED <<attempts, runs>>,
         ahead' \in SUBSET (Jobs \X Jobs),
         operatorView' \in [Jobs -> {"none", "current", "stale"}],
         row.status \in {"queued", "failed"},
         row.lease_owner = NoWorker,
         row.attempt_count = jobs[j].attempt_count,
         row.max_attempts >= jobs[j].max_attempts,
         row.result = jobs[j].result,
         row.status = "queued" => row.attempt_count < row.max_attempts
  PROVE  IndInv'
<1>t. TypeOK /\ jobs[j] \in JobRow
  BY DEF IndInv, TypeOK
<1>1. TypeOK'
  BY <1>t DEF TypeOK
<1>2. RowsWellFormed' /\ RunsDisjoint'
  BY <1>t DEF TypeOK, IndInv, RowsWellFormed, RunsDisjoint
<1>3. RunOwnsItsAttempt'
  BY DEF IndInv, RunOwnsItsAttempt, AttemptRunning
<1>4. LeaseBelongsToNewestAttempt'
  BY <1>t DEF TypeOK, IndInv, LeaseBelongsToNewestAttempt
<1>5. AttemptBudget'
  BY <1>t DEF TypeOK, JobRow, IndInv, AttemptBudget
<1>6. ResultComesFromCompletedAttempt'
  BY <1>t DEF TypeOK, IndInv, ResultComesFromCompletedAttempt
<1> QED BY <1>1, <1>2, <1>3, <1>4, <1>5, <1>6 DEF IndInv

\* A candidate failed for want of budget is a released row.
LEMMA ClaimExhaustedInv ==
  ASSUME IndInv, NEW r \in Runs, NEW j \in Jobs, ClaimExhausted(r, j)
  PROVE  IndInv'
<1> DEFINE row == [jobs[j] EXCEPT !.status = "failed", !.lease_owner = NoWorker,
                                  !.lease = "none", !.sink = "none",
                                  !.disposition = "none"]
<1>t. TypeOK /\ jobs[j] \in JobRow
  BY DEF IndInv, TypeOK
<1>r. row \in JobRow
  BY <1>t DEF JobRow, JobStatus, Sinks, Dispositions
<1>f. /\ row.status = "failed" /\ row.lease_owner = NoWorker
      /\ row.attempt_count = jobs[j].attempt_count
      /\ row.max_attempts >= jobs[j].max_attempts
      /\ row.result = jobs[j].result
  BY <1>t, ConstantsAssumption DEF JobRow
<1>j. /\ jobs' = [jobs EXCEPT ![j] = row]
      /\ UNCHANGED <<attempts, ahead, runs>>
      /\ operatorView' = Touched(j)
  BY DEF ClaimExhausted
<1> HIDE DEF row
<1> QED BY <1>t, <1>r, <1>f, <1>j, ReleasedRowInv, TouchedType DEF TypeOK

\* Resume leaves the resumed job an attempt to run.
LEMMA ResumeInv ==
  ASSUME IndInv, NEW j \in Jobs, NEW c \in BOOLEAN, Resume(j, c)
  PROVE  IndInv'
<1> DEFINE max == IF jobs[j].max_attempts <= jobs[j].attempt_count
                    THEN jobs[j].attempt_count + 1 ELSE jobs[j].max_attempts
           row == [jobs[j] EXCEPT !.status = "queued", !.next_run = "due",
                                  !.max_attempts = max,
                                  !.disposition = "resume_same_job"]
<1>t. TypeOK /\ jobs[j] \in JobRow /\ AttemptCap \in Nat
  BY ConstantsAssumption DEF IndInv, TypeOK
<1>g. jobs[j].status = "failed" /\ jobs[j].attempt_count < AttemptCap
  BY DEF Resume, OpenIncident
<1>m. /\ max \in 0 .. AttemptCap
      /\ jobs[j].attempt_count < max
      /\ max >= jobs[j].max_attempts
  BY <1>t, <1>g DEF JobRow
<1>j. /\ jobs' = [jobs EXCEPT ![j] = row]
      /\ UNCHANGED <<attempts, runs>>
      /\ MoveToBack(j)
      /\ operatorView' = [operatorView EXCEPT ![j] = "none"]
  BY DEF Resume
<1> HIDE DEF max
<1>r. row \in JobRow
  BY <1>t, <1>m DEF JobRow, JobStatus, Dispositions
<1>f. /\ row.status = "queued" /\ row.lease_owner = jobs[j].lease_owner
      /\ row.attempt_count = jobs[j].attempt_count
      /\ row.max_attempts = max /\ row.result = jobs[j].result
  BY <1>t DEF JobRow
<1>o. jobs[j].lease_owner = NoWorker
  BY <1>g DEF IndInv, LeaseBelongsToNewestAttempt
<1>v. operatorView' \in [Jobs -> {"none", "current", "stale"}]
  BY <1>t, <1>j DEF TypeOK
<1>a. ahead' \in SUBSET (Jobs \X Jobs)
  BY <1>t, <1>j, MoveToBackType
<1> HIDE DEF row
<1> QED BY <1>r, <1>f, <1>j, <1>o, <1>m, <1>v, <1>a, ReleasedRowInv

\* An acknowledgement changes only the disposition.
LEMMA AcknowledgeInv ==
  ASSUME IndInv, NEW j \in Jobs, NEW c \in BOOLEAN, Acknowledge(j, c)
  PROVE  IndInv'
<1> DEFINE row == [jobs[j] EXCEPT !.disposition = "ack"]
<1>t. TypeOK /\ jobs[j] \in JobRow
  BY DEF IndInv, TypeOK
<1>r. row \in JobRow
  BY <1>t DEF JobRow, Dispositions
<1>o. jobs[j].status = "failed" /\ jobs[j].lease_owner = NoWorker
  BY DEF Acknowledge, OpenIncident, IndInv, LeaseBelongsToNewestAttempt
<1>f. /\ row.status = "failed" /\ row.lease_owner = NoWorker
      /\ row.attempt_count = jobs[j].attempt_count
      /\ row.max_attempts >= jobs[j].max_attempts
      /\ row.result = jobs[j].result
  BY <1>t, <1>o, ConstantsAssumption DEF JobRow
<1>j. /\ jobs' = [jobs EXCEPT ![j] = row]
      /\ UNCHANGED <<attempts, ahead, runs>>
      /\ operatorView' = [operatorView EXCEPT ![j] = "none"]
  BY DEF Acknowledge
<1>v. operatorView' \in [Jobs -> {"none", "current", "stale"}]
  BY <1>t, <1>j DEF TypeOK
<1> HIDE DEF row
<1> QED BY <1>t, <1>r, <1>f, <1>j, <1>v, ReleasedRowInv DEF TypeOK

\* The clock and the heartbeat only move next_run and lease.
LEMMA ClockInv ==
  ASSUME IndInv, NEW j \in Jobs,
         NEW lease \in {"none", "live", "expired"},
         NEW next \in {"none", "later", "due"},
         jobs' = [jobs EXCEPT ![j] = [@ EXCEPT !.lease = lease, !.next_run = next]],
         UNCHANGED <<attempts, runs>>,
         jobs[j].status \in {"queued", "running"},
         ahead' \in SUBSET (Jobs \X Jobs),
         operatorView' \in [Jobs -> {"none", "current", "stale"}]
  PROVE  IndInv'
<1> DEFINE row == [jobs[j] EXCEPT !.lease = lease, !.next_run = next]
<1>t. TypeOK /\ jobs[j] \in JobRow
  BY DEF IndInv, TypeOK
<1>r. row \in JobRow
  BY <1>t DEF JobRow
<1>f. /\ row.status = jobs[j].status /\ row.lease_owner = jobs[j].lease_owner
      /\ row.attempt_count = jobs[j].attempt_count
      /\ row.max_attempts = jobs[j].max_attempts
      /\ row.result = jobs[j].result
  BY <1>t DEF JobRow
<1>j. jobs' = [jobs EXCEPT ![j] = row]
  OBVIOUS
<1> HIDE DEF row
<1>1. TypeOK'
  BY <1>t, <1>r, <1>j DEF TypeOK
<1>2. RowsWellFormed' /\ RunsDisjoint'
  BY <1>t, <1>f, <1>j DEF TypeOK, IndInv, RowsWellFormed, RunsDisjoint
<1>3. RunOwnsItsAttempt'
  BY DEF IndInv, RunOwnsItsAttempt, AttemptRunning
<1>4. LeaseBelongsToNewestAttempt'
  BY <1>t, <1>f, <1>j DEF TypeOK, IndInv, LeaseBelongsToNewestAttempt
<1>5. AttemptBudget' /\ ResultComesFromCompletedAttempt'
  BY <1>t, <1>f, <1>j DEF TypeOK, IndInv, AttemptBudget, ResultComesFromCompletedAttempt
<1> QED BY <1>1, <1>2, <1>3, <1>4, <1>5 DEF IndInv

\* A run settles its attempt: the row of the job is left alone when the lease
\* went to another worker, or it is released with its counters unchanged.
LEMMA SettledInv ==
  ASSUME IndInv, NEW r \in Runs, runs[r].phase = "executing",
         NEW st \in {"completed", "failed"}, SetAttempt(r, st), EndRun(r),
         NEW row \in JobRow, jobs' = [jobs EXCEPT ![runs[r].job] = row],
         ahead' \in SUBSET (Jobs \X Jobs),
         operatorView' \in [Jobs -> {"none", "current", "stale"}],
         \/ row = jobs[runs[r].job] /\ row.lease_owner # WorkerOf[r]
         \/ row.status \in {"completed", "queued", "failed"} /\ row.lease_owner = NoWorker,
         row.attempt_count = jobs[runs[r].job].attempt_count,
         row.max_attempts = jobs[runs[r].job].max_attempts,
         row.status = "queued" => row.attempt_count < row.max_attempts,
         \/ row.result = jobs[runs[r].job].result
         \/ row.result = runs[r].attempt /\ st = "completed",
         row.status = "completed" => row.result # 0
  PROVE  IndInv'
<1> DEFINE j == runs[r].job
           n == runs[r].attempt
<1>t. TypeOK /\ AttemptCap \in Nat
  BY ConstantsAssumption DEF IndInv
<1>x. /\ j \in Jobs /\ n \in AttemptNo
      /\ n <= jobs[j].attempt_count
      /\ attempts[j][n].status = "running"
      /\ attempts[j][n].worker = WorkerOf[r]
  BY ExecutingRun
<1> DEFINE att == [attempts[j][n] EXCEPT !.status = st]
<1>b. attempts' = [attempts EXCEPT ![j] = [attempts[j] EXCEPT ![n] = att]]
  BY DEF SetAttempt
<1>c. attempts[j][n] \in AttemptRow
  BY <1>t, <1>x DEF TypeOK
<1>a. runs' = [runs EXCEPT ![r] = IdleRun]
  BY DEF EndRun
<1>w. att \in AttemptRow /\ att.status = st
  BY <1>c DEF AttemptRow
<1>s. att.status = st
  BY <1>w
<1> HIDE DEF att
<1>v. \A k \in Jobs, i \in AttemptNo :
        attempts'[k][i] = IF k = j /\ i = n THEN att ELSE attempts[k][i]
  BY <1>t, <1>b, <1>x DEF TypeOK
<1>i. IdleRun \in RunState /\ IdleRun.phase = "idle"
  BY <1>t DEF IdleRun, RunState
<1>1. TypeOK'
  BY <1>t, <1>a, <1>b, <1>w, <1>i, <1>x DEF TypeOK
<1>2. RowsWellFormed'
  <2>1. jobs[j].status = "absent" => FALSE
    BY <1>x, <1>t DEF IndInv, RowsWellFormed, AbsentJob, AttemptNo
  <2>2. row.status # "absent" /\ (row.status = "running" => row.attempt_count > 0)
    BY <2>1, <1>x DEF IndInv, RowsWellFormed
  <2> QED BY <2>2, <1>t, <1>a, <1>i, <1>x DEF TypeOK, IndInv, RowsWellFormed
<1>3. RunsDisjoint'
  BY <1>t, <1>a, <1>i DEF TypeOK, IndInv, RunsDisjoint
<1>4. RunOwnsItsAttempt'
  <2> USE DEF RunOwnsItsAttempt, AttemptRunning
  <2> TAKE s \in Runs
  <2>1. CASE s = r
    BY <2>1, <1>t, <1>a, <1>i DEF TypeOK
  <2>2. CASE s # r
    <3>1. runs'[s] = runs[s]
      BY <2>2, <1>t, <1>a DEF TypeOK
    <3>2. runs[s].phase = "executing" => ~(runs[s].job = j /\ runs[s].attempt = n)
      BY <2>2 DEF IndInv, RunsDisjoint
    <3> QED BY <3>1, <3>2, <1>v DEF IndInv, RowsWellFormed
  <2> QED BY <2>1, <2>2
<1>5. LeaseBelongsToNewestAttempt'
  <2> USE DEF LeaseBelongsToNewestAttempt
  <2> TAKE k \in Jobs
  <2>1. jobs[k].status = "running" => jobs[k].attempt_count \in AttemptNo
    BY <1>t DEF TypeOK, JobRow, IndInv, RowsWellFormed, AttemptNo
  <2>2. CASE k # j
    BY <2>1, <2>2, <1>t, <1>v DEF TypeOK, IndInv
  <2>3. CASE k = j /\ row.status \in {"completed", "queued", "failed"} /\ row.lease_owner = NoWorker
    BY <2>3, <1>t, <1>x DEF TypeOK
  <2>4. CASE k = j /\ row = jobs[j] /\ row.lease_owner # WorkerOf[r]
    <3>1. jobs'[k] = jobs[k]
      BY <2>4, <1>t, <1>x DEF TypeOK
    <3>2. jobs[k].status = "running" => jobs[k].attempt_count # n
      <4>1. jobs[j].status = "running" =>
              attempts[j][jobs[j].attempt_count].worker = jobs[j].lease_owner
        <5>1. jobs[j].status = "running" =>
                attempts[j][jobs[j].attempt_count] =
                  [status |-> "running", worker |-> jobs[j].lease_owner]
          BY <1>x DEF IndInv
        <5> QED BY <5>1
      <4> QED BY <4>1, <2>4, <1>x
    <3> QED BY <2>1, <2>4, <3>1, <3>2, <1>v DEF IndInv
  <2> QED BY <2>2, <2>3, <2>4
<1>6. AttemptBudget'
  <2> USE DEF AttemptBudget
  <2> TAKE k \in Jobs
  <2>1. \A i \in AttemptNo : attempts'[k][i].status # "none" <=> attempts[k][i].status # "none"
    BY <1>v, <1>x, <1>s
  <2>2. /\ jobs'[k].attempt_count = jobs[k].attempt_count
        /\ jobs'[k].max_attempts = jobs[k].max_attempts
        /\ jobs'[k].status = "queued" => jobs'[k].attempt_count < jobs'[k].max_attempts
    BY <1>t, <1>x DEF TypeOK, IndInv
  <2> QED BY <2>1, <2>2 DEF IndInv
<1>7. ResultComesFromCompletedAttempt'
  <2> USE DEF ResultComesFromCompletedAttempt
  <2> TAKE k \in Jobs
  <2>1. jobs[k].result # 0 => jobs[k].result \in AttemptNo
    BY <1>t DEF TypeOK, JobRow, AttemptNo
  <2>2. CASE k # j
    BY <2>1, <2>2, <1>t, <1>v DEF TypeOK, IndInv
  <2>3. CASE k = j
    <3>1. jobs'[k] = row
      BY <2>3, <1>t, <1>x DEF TypeOK
    <3>2. CASE row.result = jobs[j].result
      BY <2>1, <2>3, <3>1, <3>2, <1>v, <1>x DEF IndInv
    <3>3. CASE row.result = n /\ st = "completed"
      BY <2>3, <3>1, <3>3, <1>v, <1>x, <1>s
    <3> QED BY <3>2, <3>3
  <2> QED BY <2>2, <2>3
<1> QED BY <1>1, <1>2, <1>3, <1>4, <1>5, <1>6, <1>7 DEF IndInv

\* completeAutonomyAttempt settles its own attempt row.
LEMMA CompleteInv ==
  ASSUME IndInv, NEW r \in Runs, Complete(r)
  PROVE  IndInv'
<1> DEFINE j == runs[r].job
           row == [jobs[j] EXCEPT !.status = "completed", !.lease_owner = NoWorker,
                                  !.lease = "none", !.result = runs[r].attempt,
                                  !.sink = "none", !.disposition = "none"]
<1>t. /\ TypeOK /\ AttemptCap \in Nat /\ WorkerOf[r] \in Workers
      /\ runs[r].phase = "executing"
      /\ SetAttempt(r, "completed") /\ EndRun(r) /\ UNCHANGED ahead
  BY ConstantsAssumption DEF IndInv, Complete, AttemptRunning
<1>x. j \in Jobs /\ runs[r].attempt \in AttemptNo /\ jobs[j] \in JobRow
      /\ ahead \in SUBSET (Jobs \X Jobs)
  BY <1>t, ExecutingRun DEF TypeOK
<1>1. CASE jobs[j].lease_owner = WorkerOf[r]
  <2>1. jobs' = [jobs EXCEPT ![j] = row] /\ operatorView' = Touched(j)
    BY <1>1 DEF Complete
  <2>2. runs[r].attempt \in 0 .. AttemptCap /\ runs[r].attempt # 0
    BY <1>t, <1>x DEF AttemptNo
  <2>3. row \in JobRow
    BY <1>x, <2>2 DEF JobRow, JobStatus, Sinks, Dispositions
  <2>4. /\ row.status = "completed" /\ row.lease_owner = NoWorker
        /\ row.attempt_count = jobs[j].attempt_count
        /\ row.max_attempts = jobs[j].max_attempts /\ row.result = runs[r].attempt
    BY <1>x DEF JobRow
  <2> HIDE DEF row
  <2> QED BY <1>t, <1>x, <2>1, <2>2, <2>3, <2>4, SettledInv, TouchedType
<1>2. CASE jobs[j].lease_owner # WorkerOf[r]
  <2>1. jobs' = [jobs EXCEPT ![j] = jobs[j]] /\ UNCHANGED operatorView
    BY <1>2, <1>t, <1>x DEF Complete, TypeOK
  <2>2. jobs[j].status = "completed" => jobs[j].result # 0
    BY <1>x DEF IndInv, ResultComesFromCompletedAttempt
  <2>3. jobs[j].status = "queued" => jobs[j].attempt_count < jobs[j].max_attempts
    BY <1>x DEF IndInv, AttemptBudget
  <2>4. operatorView' \in [Jobs -> {"none", "current", "stale"}]
    BY <2>1, <1>t DEF TypeOK
  <2> QED BY <1>2, <1>t, <1>x, <2>1, <2>2, <2>3, <2>4, SettledInv
<1> QED BY <1>1, <1>2

\* A recovery decision leads to one of the sinks.
LEMMA DecisionType ==
  ASSUME NEW f PROVE LifecycleSink(ResolveRecoveryDecisionV1(f)) \in Sinks
BY DEF LifecycleSink, ResolveRecoveryDecisionV1, Decision, Sinks

\* failAutonomyAttempt settles its own attempt row, whoever owns the job.
LEMMA FailInv ==
  ASSUME IndInv, NEW r \in Runs, NEW f \in Failures, Fail(r, f)
  PROVE  IndInv'
<1> DEFINE j == runs[r].job
           sink == LifecycleSink(FailureDecision(r, f))
           retryable == FailureDecision(r, f).next_state = "executing"
           row == FailJobRow(jobs[j], retryable, sink)
<1>t. /\ TypeOK /\ runs[r].phase = "executing"
      /\ SetAttempt(r, "failed") /\ EndRun(r)
      /\ jobs' = [jobs EXCEPT ![j] = row] /\ operatorView' = Touched(j)
      /\ MoveToBack(j) \/ UNCHANGED ahead
  BY DEF IndInv, Fail, AttemptRunning
<1>x. j \in Jobs /\ jobs[j] \in JobRow
  BY <1>t, ExecutingRun DEF TypeOK
<1>s. sink \in Sinks
  BY DecisionType DEF FailureDecision
<1>a. ahead' \in SUBSET (Jobs \X Jobs)
  BY <1>t, <1>x, MoveToBackType DEF TypeOK
<1> HIDE DEF sink, retryable
<1>r. row \in JobRow
  BY <1>x, <1>s DEF FailJobRow, MergedDisposition, JobRow, JobStatus, Dispositions
<1>f. /\ row.status \in {"queued", "failed"} /\ row.lease_owner = NoWorker
      /\ row.attempt_count = jobs[j].attempt_count
      /\ row.max_attempts = jobs[j].max_attempts /\ row.result = jobs[j].result
      /\ row.status = "queued" => row.attempt_count < row.max_attempts
  BY <1>x DEF FailJobRow, JobRow
<1> HIDE DEF row
<1> QED BY <1>t, <1>x, <1>a, <1>r, <1>f, SettledInv, TouchedType

\* The remaining operations leave the rows of jobs and attempts alone.
LEMMA MemoryInv ==
  ASSUME IndInv,
         \/ \E r \in Runs : Crash(r)
         \/ \E j \in Jobs : ReadIncident(j) \/ DispositionRefused(j)
         \/ UNCHANGED vars
  PROVE  IndInv'
<1>t. TypeOK /\ AttemptCap \in Nat
  BY ConstantsAssumption DEF IndInv
<1>i. IdleRun \in RunState /\ IdleRun.phase = "idle"
  BY <1>t DEF IdleRun, RunState
<1>1. /\ UNCHANGED <<jobs, attempts, ahead>>
      /\ operatorView' \in [Jobs -> {"none", "current", "stale"}]
      /\ \/ UNCHANGED runs
         \/ \E r \in Runs : runs' = [runs EXCEPT ![r] = IdleRun]
  BY <1>t DEF Crash, EndRun, ReadIncident, DispositionRefused, vars, TypeOK
<1>2. runs' \in [Runs -> RunState]
      /\ \A s \in Runs : runs'[s].phase = "executing" => runs'[s] = runs[s]
  BY <1>t, <1>i, <1>1 DEF TypeOK
<1>3. TypeOK'
  BY <1>t, <1>1, <1>2 DEF TypeOK
<1>4. RowsWellFormed' /\ RunsDisjoint'
  BY <1>1, <1>2 DEF IndInv, RowsWellFormed, RunsDisjoint
<1>5. RunOwnsItsAttempt'
  BY <1>1, <1>2 DEF IndInv, RunOwnsItsAttempt, AttemptRunning
<1>6. LeaseBelongsToNewestAttempt' /\ AttemptBudget' /\ ResultComesFromCompletedAttempt'
  BY <1>1 DEF IndInv, LeaseBelongsToNewestAttempt, AttemptBudget,
              ResultComesFromCompletedAttempt
<1> QED BY <1>3, <1>4, <1>5, <1>6 DEF IndInv

\* The passing of next_run_at preserves the invariant.
LEMMA BecomesDueInv ==
  ASSUME IndInv, NEW j \in Jobs, BecomesDue(j) PROVE IndInv'
<1>t. TypeOK /\ jobs[j] \in JobRow
  BY DEF IndInv, TypeOK
<1>l. jobs[j].lease \in {"none", "live", "expired"} /\ jobs[j].status = "queued"
  BY <1>t DEF JobRow, BecomesDue
<1>j. jobs' = [jobs EXCEPT ![j] = [@ EXCEPT !.lease = jobs[j].lease, !.next_run = "due"]]
  BY <1>t DEF BecomesDue, TypeOK, JobRow
<1>a. ahead' \in SUBSET (Jobs \X Jobs)
  BY <1>t, MoveToBackType DEF BecomesDue
<1>u. /\ UNCHANGED <<attempts, runs>>
      /\ operatorView' \in [Jobs -> {"none", "current", "stale"}]
  BY <1>t DEF BecomesDue, TypeOK
<1> QED BY <1>l, <1>j, <1>a, <1>u, ClockInv

\* The passing of lease_expires_at preserves the invariant.
LEMMA LeaseExpiresInv ==
  ASSUME IndInv, NEW j \in Jobs, LeaseExpires(j) PROVE IndInv'
<1>t. TypeOK /\ jobs[j] \in JobRow
  BY DEF IndInv, TypeOK
<1>l. jobs[j].next_run \in {"none", "later", "due"} /\ jobs[j].status = "running"
  BY <1>t DEF JobRow, LeaseExpires
<1>j. jobs' = [jobs EXCEPT ![j] = [@ EXCEPT !.lease = "expired", !.next_run = jobs[j].next_run]]
  BY <1>t DEF LeaseExpires, TypeOK, JobRow
<1>u. /\ UNCHANGED <<attempts, runs>>
      /\ ahead' \in SUBSET (Jobs \X Jobs)
      /\ operatorView' \in [Jobs -> {"none", "current", "stale"}]
  BY <1>t DEF LeaseExpires, TypeOK
<1> QED BY <1>l, <1>j, <1>u, ClockInv

\* A heartbeat preserves the invariant, also one for an older attempt.
LEMMA HeartbeatInv ==
  ASSUME IndInv, NEW r \in Runs, Heartbeat(r) PROVE IndInv'
<1> DEFINE j == runs[r].job
<1>t. TypeOK /\ j \in Jobs /\ jobs[j] \in JobRow
  BY ExecutingRun DEF IndInv, TypeOK, Heartbeat
<1>l. jobs[j].next_run \in {"none", "later", "due"} /\ jobs[j].status = "running"
  BY <1>t DEF JobRow, Heartbeat
<1>j. jobs' = [jobs EXCEPT ![j] = [@ EXCEPT !.lease = "live", !.next_run = jobs[j].next_run]]
  BY <1>t DEF Heartbeat, TypeOK, JobRow
<1>u. /\ UNCHANGED <<attempts, runs>>
      /\ ahead' \in SUBSET (Jobs \X Jobs)
      /\ operatorView' \in [Jobs -> {"none", "current", "stale"}]
  BY <1>t, TouchedType DEF Heartbeat, TypeOK
<1> QED BY <1>t, <1>l, <1>j, <1>u, ClockInv

\* The empty store satisfies the invariant.
LEMMA InitInv == Init => IndInv
<1> SUFFICES ASSUME Init PROVE IndInv
  OBVIOUS
<1>i. AttemptCap \in Nat /\ IdleRun \in RunState /\ IdleRun.phase = "idle"
  BY ConstantsAssumption DEF IdleRun, RunState
<1>a. /\ AbsentJob.status = "absent" /\ AbsentJob.lease_owner = NoWorker
      /\ AbsentJob.attempt_count = 0 /\ AbsentJob.max_attempts = 0
      /\ AbsentJob.result = 0
  BY DEF AbsentJob
<1>1. TypeOK
  BY <1>i, AbsentJobType DEF Init, TypeOK, AttemptRow
<1>2. RowsWellFormed /\ RunsDisjoint /\ RunOwnsItsAttempt
  BY <1>i, <1>a DEF Init, RowsWellFormed, RunsDisjoint, RunOwnsItsAttempt
<1>3. LeaseBelongsToNewestAttempt /\ ResultComesFromCompletedAttempt
  BY <1>a DEF Init, LeaseBelongsToNewestAttempt, ResultComesFromCompletedAttempt
<1>4. AttemptBudget
  BY <1>a, <1>i DEF Init, AttemptBudget, AttemptNo
<1> QED BY <1>1, <1>2, <1>3, <1>4 DEF IndInv

\* The invariant is inductive.
LEMMA NextInv == IndInv /\ [Next]_vars => IndInv'
<1> SUFFICES ASSUME IndInv, [Next]_vars PROVE IndInv'
  OBVIOUS
<1>1. ASSUME NEW j \in Jobs, JobStep(j) PROVE IndInv'
  BY <1>1, EnqueueInv, BecomesDueInv, LeaseExpiresInv DEF JobStep
<1>2. ASSUME NEW j \in Jobs, OperatorStep(j) PROVE IndInv'
  BY <1>2, ResumeInv, AcknowledgeInv, MemoryInv DEF OperatorStep
<1>3. ASSUME NEW r \in Runs, RunStep(r) PROVE IndInv'
  BY <1>3, ClaimInv, ClaimExhaustedInv, HeartbeatInv, CompleteInv, FailInv, MemoryInv
     DEF RunStep
<1>4. CASE UNCHANGED vars
  BY <1>4, MemoryInv
<1> QED BY <1>1, <1>2, <1>3, <1>4 DEF Next

-----------------------------------------------------------------------------
\* The rows of the store and the memory of the runs keep their types.
THEOREM TypeCorrect == Spec => []TypeOK
<1>1. IndInv => TypeOK
  BY DEF IndInv
<1> QED BY <1>1, InitInv, NextInv, PTL DEF Spec

\* The safety of the queue under every interleaving of claims, late settling
\* calls, expiries, crashes and operators: a run owns its attempt row until
\* it settles it, a lease belongs to the newest attempt, the attempt budget
\* holds, and a stored result comes from an attempt that completed.
THEOREM QueueSafety ==
  Spec => [](/\ RunOwnsItsAttempt
             /\ LeaseBelongsToNewestAttempt
             /\ AttemptBudget
             /\ ResultComesFromCompletedAttempt)
<1>1. IndInv => /\ RunOwnsItsAttempt
                /\ LeaseBelongsToNewestAttempt
                /\ AttemptBudget
                /\ ResultComesFromCompletedAttempt
  BY DEF IndInv
<1> QED BY <1>1, InitInv, NextInv, PTL DEF Spec

\* No claim, expiry, late call or operator takes the attempt row of a run that is
\* still executing away from it.
THEOREM RunsOwnAttempts == Spec => []RunOwnsItsAttempt
BY QueueSafety, PTL

\* Over claims, exhaustions, failures and the resumes of operators, a job has as
\* many attempt rows as it was claimed, never more than its budget.
THEOREM BudgetKept == Spec => []AttemptBudget
BY QueueSafety, PTL

\* The result of a completed job is that of an attempt that completed, also when
\* attempts of one worker id overlap.
THEOREM ResultsAreReal == Spec => []ResultComesFromCompletedAttempt
BY QueueSafety, PTL

-----------------------------------------------------------------------------
(* What may happen to a job that settled *)

\* The row of a completed or failed job changes only through the operator or
\* through a run that fails late: the complete call is fenced by the lease.
LEMMA SettledRow ==
  ASSUME IndInv, Next, NEW j \in Jobs, jobs[j].status \in {"completed", "failed"},
         jobs'[j] # jobs[j]
  PROVE  \/ \E c \in BOOLEAN : Resume(j, c) \/ Acknowledge(j, c)
         \/ \E r \in Runs, f \in Failures : runs[r].job = j /\ Fail(r, f)
<1>t. jobs \in [Jobs -> JobRow] /\ jobs[j].lease_owner = NoWorker
  BY DEF IndInv, TypeOK, LeaseBelongsToNewestAttempt
<1>1. ASSUME NEW k \in Jobs, JobStep(k)  PROVE FALSE
  BY <1>1, <1>t DEF JobStep, Enqueue, BecomesDue, LeaseExpires
<1>2. ASSUME NEW k \in Jobs, OperatorStep(k)
      PROVE  \E c \in BOOLEAN : Resume(j, c) \/ Acknowledge(j, c)
  <2>1. CASE k = j
    BY <1>2, <2>1 DEF OperatorStep, ReadIncident, DispositionRefused
  <2>2. CASE k # j
    BY <1>2, <1>t, <2>2 DEF OperatorStep, ReadIncident, DispositionRefused, Resume, Acknowledge
  <2> QED BY <2>1, <2>2
<1>3. ASSUME NEW r \in Runs, NEW k \in Jobs, Claim(r, k) \/ ClaimExhausted(r, k)  PROVE FALSE
  <2>1. k # j
    BY <1>3 DEF Claim, ClaimExhausted, IsNextCandidate, QueuedDue, LeaseExpired
  <2> QED BY <1>3, <1>t, <2>1 DEF Claim, ClaimAs, ClaimExhausted
<1>4. ASSUME NEW r \in Runs, Heartbeat(r) \/ Crash(r)  PROVE FALSE
  BY <1>4, <1>t DEF Heartbeat, Crash
<1>5. ASSUME NEW r \in Runs, Complete(r)  PROVE FALSE
  <2>1. WorkerOf[r] # NoWorker  BY ConstantsAssumption
  <2> QED BY <1>5, <1>t, <2>1 DEF Complete
<1>6. ASSUME NEW r \in Runs, NEW f \in Failures, Fail(r, f)  PROVE runs[r].job = j
  BY <1>6, <1>t DEF Fail
<1> QED BY <1>1, <1>2, <1>3, <1>4, <1>5, <1>6 DEF Next, RunStep

\* A run that fails closes the attempt it owns, which was running.
LEMMA FailClosesAttempt ==
  ASSUME IndInv, NEW r \in Runs, NEW f \in Failures, Fail(r, f)
  PROVE  /\ runs[r].job \in Jobs /\ runs[r].attempt \in AttemptNo
         /\ attempts[runs[r].job][runs[r].attempt].status = "running"
         /\ attempts'[runs[r].job][runs[r].attempt].status = "failed"
<1>1. /\ runs[r].job \in Jobs /\ runs[r].attempt \in AttemptNo
      /\ attempts[runs[r].job][runs[r].attempt].status = "running"
  BY ExecutingRun DEF Fail, AttemptRunning
<1>2. attempts \in [Jobs -> [AttemptNo -> AttemptRow]]  BY DEF IndInv, TypeOK
<1>3. attempts[runs[r].job][runs[r].attempt] \in AttemptRow  BY <1>1, <1>2
<1>4. SetAttempt(r, "failed")  BY DEF Fail
<1> QED BY <1>1, <1>2, <1>3, <1>4 DEF SetAttempt, AttemptRow

\* A completed job is undone only by the failure of another attempt that a run is
\* still executing, be it older or newer than the one that completed the job:
\* failAutonomyAttempt checks the attempt, not the job, and nothing else in the
\* store reaches a completed row.
THEOREM CompletionUndoneByOther == Spec => CompletedUndoneOnlyByOtherAttempt
<1> DEFINE FailedElsewhere(j) ==
             \E r \in Runs :
               /\ runs[r].job = j
               /\ runs[r].attempt # jobs[j].result
               /\ attempts[j][runs[r].attempt].status = "running"
               /\ attempts'[j][runs[r].attempt].status = "failed"
           Undone ==
             \A j \in Jobs :
               jobs[j].status = "completed" /\ jobs'[j].status # "completed" =>
                 FailedElsewhere(j)
<1>1. IndInv /\ [Next]_vars => [Undone]_vars
  <2>1. SUFFICES ASSUME IndInv, Next, NEW j \in Jobs, jobs[j].status = "completed",
                        jobs'[j].status # "completed"
                 PROVE  FailedElsewhere(j)
    BY DEF vars
  <2>2. ~(\E c \in BOOLEAN : Resume(j, c) \/ Acknowledge(j, c))
    BY <2>1 DEF Resume, Acknowledge, OpenIncident
  <2>3. PICK r \in Runs, f \in Failures : runs[r].job = j /\ Fail(r, f)
    BY <2>1, <2>2, SettledRow
  <2>4. /\ runs[r].attempt \in AttemptNo
        /\ attempts[j][runs[r].attempt].status = "running"
        /\ attempts'[j][runs[r].attempt].status = "failed"
    BY <2>1, <2>3, FailClosesAttempt
  <2>5. attempts[j][jobs[j].result].status = "completed"
    BY <2>1 DEF IndInv, ResultComesFromCompletedAttempt
  <2> QED BY <2>3, <2>4, <2>5
<1> QED BY <1>1, InitInv, NextInv, PTL DEF Spec, CompletedUndoneOnlyByOtherAttempt

\* Only failed jobs are acknowledged.
AckOfFailed == \A j \in Jobs : jobs[j].disposition = "ack" => jobs[j].status = "failed"

\* A late failure takes the acknowledgement away.
LEMMA FailedRow ==
  ASSUME IndInv, NEW r \in Runs, NEW f \in Failures, Fail(r, f)
  PROVE  /\ runs[r].job \in Jobs
         /\ jobs'[runs[r].job].disposition # "ack"
         /\ \A k \in Jobs : k # runs[r].job => jobs'[k] = jobs[k]
<1> DEFINE j == runs[r].job
           d == FailureDecision(r, f)
           row == FailJobRow(jobs[j], d.next_state = "executing", LifecycleSink(d))
<1>1. j \in Jobs  BY FailClosesAttempt
<1>2. jobs' = [jobs EXCEPT ![j] = row] /\ jobs \in [Jobs -> JobRow]
  BY DEF Fail, IndInv, TypeOK
<1>3. jobs[j] \in JobRow  BY <1>1, <1>2
<1>4. row.disposition # "ack"
  <2> HIDE DEF d, j
  <2> QED BY <1>3 DEF FailJobRow, MergedDisposition, JobRow
<1> HIDE DEF row, j
<1>5. jobs'[j] = row /\ \A k \in Jobs : k # j => jobs'[k] = jobs[k]  BY <1>1, <1>2
<1> QED BY <1>1, <1>4, <1>5 DEF j

LEMMA AckNext == IndInv /\ AckOfFailed /\ [Next]_vars => AckOfFailed'
<1>1. SUFFICES ASSUME IndInv, AckOfFailed, [Next]_vars, NEW j \in Jobs,
                      jobs'[j].disposition = "ack"
               PROVE  jobs'[j].status = "failed"
  BY DEF AckOfFailed
<1>t. jobs \in [Jobs -> JobRow] /\ jobs[j] \in JobRow  BY <1>1 DEF IndInv, TypeOK
<1>2. CASE jobs'[j] = jobs[j]  BY <1>1, <1>2 DEF AckOfFailed
<1>3. ASSUME NEW c \in BOOLEAN, Acknowledge(j, c)  PROVE jobs'[j].status = "failed"
  BY <1>3, <1>t DEF Acknowledge, OpenIncident, JobRow
<1>4. ASSUME jobs'[j].disposition = jobs[j].disposition, jobs[j].status # "failed"  PROVE FALSE
  BY <1>1, <1>4 DEF AckOfFailed
<1>5. ASSUME NEW k \in Jobs, JobStep(k), jobs'[j] # jobs[j]  PROVE FALSE
  <2>1. k = j  BY <1>5, <1>t DEF JobStep, Enqueue, BecomesDue, LeaseExpires
  <2>2. ASSUME NEW m, NEW w, Enqueue(j, m, w)  PROVE FALSE
    BY <1>1, <1>t, <2>2 DEF Enqueue, AbsentJob
  <2>3. CASE BecomesDue(j) \/ LeaseExpires(j)
    BY <1>4, <1>t, <2>3 DEF BecomesDue, LeaseExpires, JobRow
  <2> QED BY <1>5, <2>1, <2>2, <2>3 DEF JobStep
<1>6. ASSUME NEW k \in Jobs, OperatorStep(k), jobs'[j] # jobs[j]
      PROVE  jobs'[j].status = "failed"
  <2>1. k = j
    BY <1>6, <1>t DEF OperatorStep, ReadIncident, DispositionRefused, Resume, Acknowledge
  <2>2. ASSUME NEW c \in BOOLEAN, Resume(j, c)  PROVE FALSE
    <3> DEFINE m == IF jobs[j].max_attempts <= jobs[j].attempt_count
                      THEN jobs[j].attempt_count + 1 ELSE jobs[j].max_attempts
    <3>1. jobs' = [jobs EXCEPT ![j] = [jobs[j] EXCEPT !.status = "queued",
                     !.next_run = "due", !.max_attempts = m,
                     !.disposition = "resume_same_job"]]
      BY <2>2 DEF Resume
    <3> HIDE DEF m
    <3> QED BY <1>1, <1>t, <3>1 DEF JobRow
  <2> QED BY <1>3, <1>6, <2>1, <2>2 DEF OperatorStep, ReadIncident, DispositionRefused
<1>7. ASSUME NEW r \in Runs, RunStep(r), jobs'[j] # jobs[j]  PROVE FALSE
  <2>1. ASSUME NEW k \in Jobs, Claim(r, k)  PROVE FALSE
    <3>1. k = j  BY <1>7, <1>t, <2>1 DEF Claim, ClaimAs
    <3>2. jobs[j].status # "failed"
      BY <2>1, <3>1 DEF Claim, IsNextCandidate, QueuedDue, LeaseExpired
    <3> DEFINE n == jobs[j].attempt_count + 1
    <3>3. jobs' = [jobs EXCEPT ![j] = [jobs[j] EXCEPT !.status = "running",
                     !.lease_owner = WorkerOf[r], !.lease = "live", !.attempt_count = n]]
      BY <2>1, <3>1 DEF Claim, ClaimAs
    <3> HIDE DEF n
    <3> QED BY <1>4, <1>t, <3>2, <3>3 DEF JobRow
  <2>2. ASSUME NEW k \in Jobs, ClaimExhausted(r, k)  PROVE FALSE
    BY <1>1, <1>7, <1>t, <2>2 DEF ClaimExhausted, JobRow
  <2>3. CASE Heartbeat(r)
    BY <1>4, <1>7, <1>t, <2>3 DEF Heartbeat, JobRow
  <2>4. CASE Complete(r)
    BY <1>1, <1>7, <1>t, <2>4 DEF Complete, JobRow
  <2>5. ASSUME NEW f \in Failures, Fail(r, f)  PROVE FALSE
    BY <1>1, <1>7, <2>5, FailedRow
  <2>6. CASE Crash(r)  BY <1>7, <2>6 DEF Crash
  <2> QED BY <1>7, <2>1, <2>2, <2>3, <2>4, <2>5, <2>6 DEF RunStep
<1> QED BY <1>1, <1>2, <1>5, <1>6, <1>7 DEF Next, vars

\* An acknowledgement lasts until a run of the job fails again, and then an incident
\* with a sink is open again: no claim, expiry, completion or second disposition
\* drops it on the way.
THEOREM AcknowledgementLasts == Spec => AcknowledgedUntilNewFailure
<1> DEFINE Lasts == \A j \in Jobs :
       jobs[j].disposition = "ack" /\ jobs'[j].disposition # "ack" =>
         /\ \E n \in AttemptNo : /\ attempts[j][n].status = "running"
                                 /\ attempts'[j][n].status = "failed"
         /\ jobs'[j].sink # "none" /\ jobs'[j].status = "failed" =>
              OpenIncident(j)'
<1>1. IndInv /\ AckOfFailed /\ [Next]_vars => [Lasts]_vars
  <2>1. SUFFICES ASSUME IndInv, AckOfFailed, Next, NEW j \in Jobs,
                        jobs[j].disposition = "ack", jobs'[j].disposition # "ack"
                 PROVE  /\ \E n \in AttemptNo : /\ attempts[j][n].status = "running"
                                                /\ attempts'[j][n].status = "failed"
                        /\ jobs'[j].sink # "none" /\ jobs'[j].status = "failed" =>
                             OpenIncident(j)'
    BY DEF vars
  <2>2. jobs[j].status = "failed"  BY <2>1 DEF AckOfFailed
  <2>3. ~(\E c \in BOOLEAN : Resume(j, c) \/ Acknowledge(j, c))
    BY <2>1 DEF Resume, Acknowledge, OpenIncident
  <2>4. PICK r \in Runs, f \in Failures : runs[r].job = j /\ Fail(r, f)
    BY <2>1, <2>2, <2>3, SettledRow
  <2>5. /\ runs[r].attempt \in AttemptNo
        /\ attempts[j][runs[r].attempt].status = "running"
        /\ attempts'[j][runs[r].attempt].status = "failed"
    BY <2>1, <2>4, FailClosesAttempt
  <2> QED BY <2>1, <2>5 DEF OpenIncident
<1>2. Init => AckOfFailed  BY DEF Init, AckOfFailed, AbsentJob
<1> QED BY <1>1, <1>2, AckNext, InitInv, NextInv, PTL DEF Spec, AcknowledgedUntilNewFailure

-----------------------------------------------------------------------------
(* The deployment in which a lease outlives only a dead run *)

\* One run per job: runs are disjoint by attempt, and here each one works on
\* the newest attempt of its job.
LEMMA OneRunPerJob ==
  ASSUME IndInv, ExclusiveExecution,
         NEW r \in Runs, NEW s \in Runs, r # s,
         runs[r].phase = "executing", runs[s].phase = "executing"
  PROVE  runs[r].job # runs[s].job
BY DEF IndInv, RunsDisjoint, ExclusiveExecution

\* A job whose lease is not live, or that is not running, has no run.
LEMMA NoRunWithoutLease ==
  ASSUME ExclusiveExecution, NEW j \in Jobs,
         jobs[j].status # "running" \/ jobs[j].lease # "live"
  PROVE  \A s \in Runs : runs[s].phase = "executing" => runs[s].job # j
BY DEF ExclusiveExecution

\* A step that changes only rows of jobs without a run, or the lease of none.
LEMMA ExclusiveFrame ==
  ASSUME IndInv, ExclusiveExecution, NEW j \in Jobs,
         \A s \in Runs : runs'[s].phase = "executing" =>
            /\ runs[s].phase = "executing" /\ runs'[s] = runs[s]
            /\ runs[s].job # j,
         \A k \in Jobs : k # j => jobs'[k] = jobs[k]
  PROVE  ExclusiveExecution'
BY DEF ExclusiveExecution, IndInv, RowsWellFormed

\* Every step keeps execution exclusive when a lease outlives only a dead run.
LEMMA ExclusiveNext ==
  ASSUME Stalls = FALSE
  PROVE  IndInv /\ ExclusiveExecution /\ [Next]_vars => ExclusiveExecution'
<1> SUFFICES ASSUME IndInv, ExclusiveExecution, [Next]_vars PROVE ExclusiveExecution'
  OBVIOUS
<1>t. TypeOK
  BY DEF IndInv
<1>i. IdleRun.phase = "idle"
  BY DEF IdleRun
\* A run that ends leaves no other run on its job.
<1>e. ASSUME NEW r \in Runs, runs[r].phase = "executing", EndRun(r),
             \A k \in Jobs : k # runs[r].job => jobs'[k] = jobs[k]
      PROVE  ExclusiveExecution'
  <2>1. runs[r].job \in Jobs
    BY <1>e, ExecutingRun
  <2>2. \A s \in Runs : runs'[s].phase = "executing" =>
            /\ runs[s].phase = "executing" /\ runs'[s] = runs[s]
            /\ runs[s].job # runs[r].job
    BY <1>e, <1>t, <1>i, OneRunPerJob DEF EndRun, TypeOK
  <2> QED BY <2>1, <2>2, <1>e, ExclusiveFrame
\* A step that leaves every run alone and rewrites a row nobody works on.
<1>q. ASSUME NEW j \in Jobs, jobs[j].status # "running" \/ jobs[j].lease # "live",
             \A k \in Jobs : k # j => jobs'[k] = jobs[k],
             UNCHANGED runs
      PROVE  ExclusiveExecution'
  BY <1>q, NoRunWithoutLease, ExclusiveFrame
<1>1. ASSUME NEW j \in Jobs, NEW m \in AttemptNo, NEW w \in {"due", "later"},
             Enqueue(j, m, w)
      PROVE  ExclusiveExecution'
  BY <1>1, <1>q, <1>t DEF Enqueue, TypeOK
<1>2. ASSUME NEW j \in Jobs, BecomesDue(j) PROVE ExclusiveExecution'
  BY <1>2, <1>q, <1>t DEF BecomesDue, TypeOK
<1>3. ASSUME NEW j \in Jobs, LeaseExpires(j) PROVE ExclusiveExecution'
  <2>1. \A r \in Runs : runs[r].phase = "executing" => runs[r].job # j
    BY <1>3 DEF LeaseExpires, Renews, ExclusiveExecution
  <2> QED BY <2>1, <1>3, <1>t, ExclusiveFrame DEF LeaseExpires, TypeOK
<1>4. ASSUME NEW j \in Jobs, OperatorStep(j) PROVE ExclusiveExecution'
  <2>1. ASSUME NEW c \in BOOLEAN, Resume(j, c) PROVE ExclusiveExecution'
    BY <2>1, <1>q, <1>t DEF Resume, OpenIncident, TypeOK
  <2>2. ASSUME NEW c \in BOOLEAN, Acknowledge(j, c) PROVE ExclusiveExecution'
    BY <2>2, <1>q, <1>t DEF Acknowledge, OpenIncident, TypeOK
  <2>3. CASE ReadIncident(j) \/ DispositionRefused(j)
    BY <2>3 DEF ReadIncident, DispositionRefused, ExclusiveExecution
  <2> QED BY <1>4, <2>1, <2>2, <2>3 DEF OperatorStep
<1>5. ASSUME NEW r \in Runs, NEW j \in Jobs, Claim(r, j) PROVE ExclusiveExecution'
  <2> DEFINE n == jobs[j].attempt_count + 1
             row == [jobs[j] EXCEPT !.status = "running", !.lease_owner = WorkerOf[r],
                                    !.lease = "live", !.attempt_count = n]
             run == [phase |-> "executing", job |-> j, attempt |-> n,
                     max |-> jobs[j].max_attempts]
  <2>1. \A s \in Runs : runs[s].phase = "executing" => runs[s].job # j
    BY <1>5, NoRunWithoutLease DEF Claim, ClaimAs, IsNextCandidate, QueuedDue, LeaseExpired
  <2>2. /\ jobs' = [jobs EXCEPT ![j] = row] /\ runs' = [runs EXCEPT ![r] = run]
        /\ jobs[j] \in JobRow
    BY <1>5, <1>t DEF Claim, ClaimAs, TypeOK
  <2>3. /\ row.status = "running" /\ row.lease_owner = WorkerOf[r]
        /\ row.lease = "live" /\ row.attempt_count = n
    BY <2>2 DEF JobRow
  <2>4. run.job = j /\ run.attempt = n
    OBVIOUS
  <2> HIDE DEF row, run
  <2> USE DEF ExclusiveExecution
  <2> TAKE s \in Runs
  <2>5. CASE s = r
    BY <2>5, <2>2, <2>3, <2>4, <1>t DEF TypeOK
  <2>6. CASE s # r
    BY <2>6, <2>1, <2>2, <1>t DEF TypeOK, IndInv, RowsWellFormed
  <2> QED BY <2>5, <2>6
<1>6. ASSUME NEW r \in Runs, NEW j \in Jobs, ClaimExhausted(r, j) PROVE ExclusiveExecution'
  BY <1>6, <1>q, <1>t DEF ClaimExhausted, IsNextCandidate, QueuedDue, LeaseExpired, TypeOK
<1>7. ASSUME NEW r \in Runs, Heartbeat(r) PROVE ExclusiveExecution'
  <2>1. /\ runs[r].job \in Jobs /\ jobs[runs[r].job].lease = "live"
        /\ jobs[runs[r].job] \in JobRow
    BY <1>7, <1>t, ExecutingRun DEF Heartbeat, ExclusiveExecution, TypeOK
  <2>2. UNCHANGED <<jobs, runs>>
    BY <1>7, <1>t, <2>1 DEF Heartbeat, TypeOK, JobRow
  <2> QED BY <2>2 DEF ExclusiveExecution
<1>8. ASSUME NEW r \in Runs, Complete(r) PROVE ExclusiveExecution'
  BY <1>8, <1>e, <1>t DEF Complete, AttemptRunning, TypeOK
<1>9. ASSUME NEW r \in Runs, NEW f \in Failures, Fail(r, f) PROVE ExclusiveExecution'
  BY <1>9, <1>e, <1>t DEF Fail, AttemptRunning, TypeOK
<1>10. ASSUME NEW r \in Runs, Crash(r) PROVE ExclusiveExecution'
  BY <1>10, <1>e DEF Crash
<1>11. CASE UNCHANGED vars
  BY <1>11 DEF vars, ExclusiveExecution
<1> QED BY <1>1, <1>2, <1>3, <1>4, <1>5, <1>6, <1>7, <1>8, <1>9, <1>10, <1>11
        DEF Next, JobStep, RunStep

\* When no lease expires under a living run, a job is executed by one run at
\* a time, the one that holds its live lease and its newest attempt.
THEOREM Exclusion ==
  ASSUME Stalls = FALSE
  PROVE  Spec => []ExclusiveExecution
<1>1. Init => ExclusiveExecution
  BY DEF Init, ExclusiveExecution, IdleRun
<1> QED BY <1>1, InitInv, NextInv, ExclusiveNext, PTL DEF Spec

\* In that deployment a completed job stays completed: the unfenced update of
\* failAutonomyAttempt cannot reach it.
THEOREM CompletionFinal ==
  ASSUME Stalls = FALSE
  PROVE  Spec => CompletedIsFinal
<1> DEFINE Final == \A j \in Jobs :
             jobs[j].status = "completed" => jobs'[j].status = "completed"
<1>1. IndInv /\ ExclusiveExecution /\ [Next]_vars => [Final]_vars
  <2> SUFFICES ASSUME IndInv, ExclusiveExecution, Next, NEW j \in Jobs,
                      jobs[j].status = "completed"
               PROVE  jobs'[j].status = "completed"
    BY DEF vars
  <2>t. TypeOK /\ jobs[j] \in JobRow
    BY DEF IndInv, TypeOK
  <2>1. ASSUME NEW k \in Jobs, JobStep(k) \/ OperatorStep(k)
        PROVE  jobs'[j].status = "completed"
    BY <2>1, <2>t DEF JobStep, OperatorStep, Enqueue, BecomesDue, LeaseExpires,
       ReadIncident, Resume, Acknowledge, DispositionRefused, OpenIncident, TypeOK
  <2>2. ASSUME NEW r \in Runs, RunStep(r) PROVE jobs'[j].status = "completed"
    <3>1. runs[r].phase = "executing" => runs[r].job # j
      BY NoRunWithoutLease
    <3>2. ASSUME NEW k \in Jobs, Claim(r, k) \/ ClaimExhausted(r, k)
          PROVE  k # j
      BY <3>2 DEF Claim, ClaimAs, ClaimExhausted, IsNextCandidate, QueuedDue, LeaseExpired
    <3>3. jobs'[j] = jobs[j]
      BY <2>2, <2>t, <3>1, <3>2 DEF RunStep, Claim, ClaimAs, ClaimExhausted, Heartbeat, Complete,
         Fail, Crash, AttemptRunning, TypeOK
    <3> QED BY <3>3
  <2> QED BY <2>1, <2>2 DEF Next
<1> QED BY <1>1, Exclusion, InitInv, NextInv, PTL DEF Spec, CompletedIsFinal

\* In that deployment a job that stopped for the user or for an operator leaves its
\* incident only through resume_same_job, and not once it is acknowledged: no run is
\* left that could fail late and put it back in the queue.
THEOREM SinksAreHeld ==
  ASSUME Stalls = FALSE
  PROVE  Spec => SinkHeldForOperator
<1> DEFINE Held == \A j \in Jobs :
       /\ jobs[j].status = "failed"
       /\ jobs[j].sink # "none"
       /\ jobs'[j].status # "failed"
       => /\ jobs[j].disposition # "ack"
          /\ jobs'[j].disposition = "resume_same_job"
<1>1. IndInv /\ ExclusiveExecution /\ [Next]_vars => [Held]_vars
  <2>1. SUFFICES ASSUME IndInv, ExclusiveExecution, Next, NEW j \in Jobs,
                        jobs[j].status = "failed", jobs'[j].status # "failed"
                 PROVE  /\ jobs[j].disposition # "ack"
                        /\ jobs'[j].disposition = "resume_same_job"
    BY DEF vars
  <2>t. jobs \in [Jobs -> JobRow] /\ jobs[j] \in JobRow  BY <2>1 DEF IndInv, TypeOK
  <2>2. ASSUME NEW r \in Runs, NEW f \in Failures, runs[r].job = j, Fail(r, f)  PROVE FALSE
    BY <2>1, <2>2, NoRunWithoutLease DEF Fail, AttemptRunning
  <2>3. PICK c \in BOOLEAN : Resume(j, c) \/ Acknowledge(j, c)
    BY <2>1, <2>2, SettledRow
  <2>4. CASE Resume(j, c)
    <3> DEFINE m == IF jobs[j].max_attempts <= jobs[j].attempt_count
                      THEN jobs[j].attempt_count + 1 ELSE jobs[j].max_attempts
    <3>1. /\ jobs[j].disposition # "ack"
          /\ jobs' = [jobs EXCEPT ![j] = [jobs[j] EXCEPT !.status = "queued",
                        !.next_run = "due", !.max_attempts = m,
                        !.disposition = "resume_same_job"]]
      BY <2>4 DEF Resume, OpenIncident
    <3> HIDE DEF m
    <3> QED BY <2>t, <3>1 DEF JobRow
  <2>5. CASE Acknowledge(j, c)
    BY <2>1, <2>t, <2>5 DEF Acknowledge, JobRow
  <2> QED BY <2>3, <2>4, <2>5
<1> QED BY <1>1, Exclusion, InitInv, NextInv, PTL DEF Spec, SinkHeldForOperator
=============================================================================
