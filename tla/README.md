# TLA+ models of the executive team runtime

This directory holds specifications of the parts of the repository that carry
its concurrency and recovery logic, the TLC configurations that check them on
small instances, and TLAPS proofs of their main properties for every value of
the constants. `PROJECT.json` lists the components, the runs, the lines each
definition translates, the hazards and the theorems.

Paths below are relative to the repository root; most code is in `src/`.

## 1. The system

A Node.js service answers chat messages and HTTP requests with a team of
language-model agents, writes Lark documents, and runs long tasks in the
background. Everything runs on one machine, in one or a few processes that
share a SQLite file and some JSON files.

| Component | State | Operations | Talks to |
| --- | --- | --- | --- |
| Autonomy job store (`task-runtime/autonomy-job-store.mjs`) | tables `autonomy_jobs`, `autonomy_job_attempts` | enqueue, claim, heartbeat, complete, fail, list incidents, dispose of an incident | called by workers, the planner edge and the operator CLI |
| Worker loop (`worker/autonomy-worker-loop.mjs`) | the claim of the run in flight, a poll and a heartbeat timer | poll, execute with timeout, verifier gate, settle | job store, work graph, planner |
| Recovery decision (`recovery-decision.mjs`) | none | pure function from a failure to the next state | worker loop, closed loop |
| Executive work graph (`executive-work-graph.mjs`) | graphs, nodes, edges, attempts, leases, artifacts, deadletters | persist, schedule, claim, start, heartbeat, complete, fail, summarise, replay a deadletter | worker loop, orchestrator, operator |
| Session coordination (`single-machine-runtime-coordination.mjs`) | map from session to the last promise | run a piece of work in its session's turn | orchestrator |
| Runtime manager (`worker/autonomy-runtime-manager.mjs`) | the running loops | start, stop, readiness | worker loop |
| HTTP idempotency (`http-idempotency-store.mjs`, `http-server.mjs`) | in-flight map, stored responses | replay, wait, lead, record, time out | every mutating route |
| Mutation runtime (`mutation-runtime.mjs`, admission, verifier) | idempotency entries in memory | admit, execute, verify, roll back | Lark writes |
| Lark write pipeline (`execute-lark-write.mjs`, `lark-write-budget-guard.mjs`, `doc-update-confirmations.mjs`) | JSON stores of budget events and confirmations | confirm, budget, write | mutation runtime, routes |
| Orchestrator, lifecycle, task state (`executive-*.mjs`) | a JSON file of tasks, the active task of each session | ensure, mark, finalize, turn, clear | session coordination, work graph, planner, routes, lanes |
| Message de-duplication, long connection (`runtime-message-deduper.mjs`, `index.mjs`) | ids seen lately | accept, drop | lane executor |
| Planner, lanes, company brain, meetings, sync, monitoring, evals | various | see `PROJECT.json` | |

What is hard in it:

- **Leases and overlapping executions.** A job is reclaimed when its lease has
  expired, whether or not the previous run is still executing. The execution
  timeout and `stop()` give up on an execution without stopping it. So two
  runs, or two passes over one work graph, may settle the same rows in any
  order, and the worker ids that fence them can coincide.
- **Crashes.** A process may die between any two transactions.
- **Operators.** They act on what they read some time ago.
- **Retry budgets** that are compared in several places and raised by
  operators.
- **Promise order.** The session queue works only if two reactions of one
  promise run in the order in which they were registered.
- **Read-modify-write of JSON files** with awaits in between: confirmations,
  the write budget, executive tasks. A file is truncated before it is filled,
  and a truncated file reads like a missing one.
- **Late answers.** A request timer answers for a handler that runs on; a
  workflow finalizes a task some time after it marked it.

## 2. Modules

| Module | What it is |
| --- | --- |
| `RecoveryDecision` | the pure recovery decision, an operator over failure records |
| `AutonomyJobs` | job store, worker runs and operator; extends `RecoveryDecision` |
| `AutonomyJobsProofs` | its theorems |
| `ExecutiveWorkGraph` | one work graph and the passes over it |
| `ExecutiveWorkGraphProofs` | its theorems |
| `SessionGate` | abstract specification: a first-come-first-served gate per session |
| `SessionGateProofs` | what the gate keeps |
| `SessionQueue` | the promise chain that implements the gate |
| `SessionQueueProofs` | its theorems, the refinement among them |
| `HttpIdempotency` | requests with an idempotency key on one event loop |
| `HttpIdempotencyProofs` | its theorems |
| `LarkWrite` | mutation runtime, confirmations and write budget over JSON files |
| `LarkWriteProofs` | types, keys and confirmations |
| `LarkWriteBudgetProofs` | the write budget and its files; extends `LarkWriteProofs` |
| `ExecutiveTask` | the tasks of one session and the flows that use them; extends `RecoveryDecision` |
| `ExecutiveTaskProofs` | its theorems |
| `MC...` | instances of these for TLC |

The operators named *Mutant* in comments are wrong variants of the definition
that follows them; nothing uses them. Each property is paired with one that
breaks it (`PROJECT.json`, "mutants"), to show that the property depends on
the code it is about.

### AutonomyJobs

`jobs` and `attempts` are the rows of the two tables; `runs` is what a call of
`runAutonomyWorkerOnce` keeps in memory (its claim, with the copy of
`max_attempts` the failure decision uses); `operatorView` is the `updated_at`
an operator has read. A store operation is one SQLite transaction and one
action: `Enqueue`, `Claim`, `ClaimExhausted`, `Heartbeat`, `Complete`, `Fail`,
`ReadIncident`, `Resume`, `Acknowledge`, `DispositionRefused`. The awaits of a
run lie between its `Claim` and its `Complete` or `Fail`. `Fail` covers a
failed execution, a rejection by the verifier gate, an exception and the
execution timeout: all of them go through `normalizeAutonomyFailure` and
`failAutonomyAttempt`.

Time is abstracted to the comparisons the code makes: is the lease in the
future, is `next_run_at`, which of two jobs sorts first. `LeaseExpires`,
`BecomesDue` and `Crash` are the environment. The constant `Stalls` separates
two deployments: with `Stalls` a lease may expire under a run that is still
executing (the event loop or the machine slept through the heartbeats);
without, it expires only when no run renews it.

The fences are the code's: `completeAutonomyAttempt` and `failAutonomyAttempt`
require the attempt row to be running and owned by the worker id; the job row
is then updated by `complete` only for the lease owner, by `fail`
unconditionally.

### ExecutiveWorkGraph

The graph is the star `buildWorkGraphFromDecision` compiles. A pass is one
call of `executeExecutiveWorkGraphAutonomyJob`: rounds of `Schedule`,
`ClaimNode`, `StopClaiming`, `StartNode`, then, when all results are there
(`Promise.all`), `CompleteNode` or `FailNode` for each, and `Finish`. Start,
heartbeat and merge gate of one node follow each other without an await and
share `StartNode`. Passes overlap freely, also with the same worker id.
`ReplayDeadletter` is the operator; `CarefulReplays` says whether the operator
takes the care the code does not take. Left out: lease expiry (no operation
reads it), the order of the claiming SELECT (any candidate may come first),
node contents, soft dependencies (never compiled).

### SessionQueue and SessionGate

A promise `current` is named by its call. `jobs` is the queue of promise jobs,
run in order; `Arrive` is the code before the await, `PassThrough`, `Arm`,
`Enter` and `Settle` are promise jobs, `Leave` is the finally block. New calls
and ends of works may come between any two jobs, which allows more than the
event loop does. `SessionGate` says what callers rely on; `ImplementsGate` is
its specification with `phase` mapped to `pc`. `earlier` is a history variable
that no action reads.

### HttpIdempotency

`record` is the table of stored answers, `inFlight` the map of leaders, `pc`
where a request is, `res` its socket. `Arrive` starts the timer and reads the
body; `PrepareUnkeyed`, `PrepareReplay`, `PrepareWait` and `PrepareLead` are the
four ways through `prepareIdempotentRequest`, `PrepareFails` is the table that cannot
be read; `Resume` is the continuation of a
waiter, a promise job, which is why every other action waits until no such job
is queued. A handler ends by an answer, an error, a timeout of its own or an
abort. The end of a leader's buffered response (`BufferedEnd`) stores the
answer, settles the promise, deletes the map entry and writes to the socket,
whether the handler or the timer calls it; the insert may fail, or succeed and not be
read back. A rejected promise that nobody awaits
and an exception in the timer's callback end the process (`EndTurn`): no handler
for either is installed. The constant `KeyOf` stands for method, path, account and key,
of which the scope key is built.

### LarkWrite

A call is one run of `runCanonicalLarkMutation`: `idem` is the store of
`runMutation`, the two files are read and written by `executeLarkWrite`. Every
stretch between two awaits is an action, and a write to a file is two
(`WriteOpen` truncates, `WriteData` fills), so another call may read in between.
`Goto(a, p, ws)` says that actor `a` goes on at `p` once the writes `ws` are
done. `IoFails` is a read or write that fails at any of these places, also the
record of a write that was already made: the executor throws, the key is cleared, and
the file may be left torn. Loading a store drops what is out of date and writes the rest back
first. Policy, admission, verification and the comparison of a confirmation with
the request are functions of the request alone: the model lets them say
either. Three history variables, which no guard reads: `overlapped` records
whether two actors were ever under way at once, `ioFailed` whether a file operation
ever failed, `life` in which life of the
process a call began. The key store is in memory and a restart empties it, so
`RepeatOnlyAfterFailure` speaks of two calls of one life.

Two differences of the code that look accidental are kept: blocked writes are
recorded in the budget and count, and a refusal is no error, so that the
mutation runtime stores it and replays it for the key.

### ExecutiveTask

`tasks` and `active` are the store for one session, `turn` the entry point that
holds the session (the gate of `SessionGate`). A flow is a request or message:
`Kinds` says in which sort of session it comes, of which workflow its task is
and which stages its preview goes through. `Ensure`, `Mark`, `Gate` and
`Recover` are the three entry points of each workflow (the last split where the
gate has stored a status and the recovery has not yet); `ExecBegin` and `ExecEnd` are
the executive turn around the agents' work. A message that is no meeting command first
has to get past an active capture, which keeps what has a text for its minutes
(`PassCapture`; `capturing` is the row of `meeting-capture-store`, set and reset by
the commands that start and stop a capture); a message that got past may still be
under way when a capture begins. `Route`, `LoadApply` and `Cleanup`
are reads of the active task outside the session queue, which delete a stale
entry in a later step. Between the entry points other flows may come, work may
fail (`Abandon`), a task may expire or a proposal be applied. The verdicts of
the verifier are restricted to those the callers' evidence allows
(`VerdictsOf`). `Advance` takes a lifecycle through two transitions, one after
the other; a transition that is not allowed leaves it where it is, as in
`applyLifecycle`. `StageReached`, `Verified` and `ProposalsReached` are the
sequences of transitions the orchestrator makes.

## 3. Runs

| Run | Instance | Shows |
| --- | --- | --- |
| `jobs_stall` | 1 job, 3 runs (two share a worker id), at most 3 attempts, `Stalls` | `RunOwnsItsAttempt`, `LeaseBelongsToNewestAttempt`, `AttemptBudget`, `ResultComesFromCompletedAttempt`, `CompletedUndoneOnlyByOtherAttempt`, `AcknowledgedUntilNewFailure` |
| `jobs_exclusive` | 2 jobs, 2 runs, at most 2 attempts, no `Stalls`, fairness | `ExclusiveExecution`, `CompletedIsFinal`, `SinkHeldForOperator`, `JobsSettle` |
| `jobs_history` (violated) | 1 job, 2 runs | the doc's promise about disposition history |
| `graph_replay` | 1 specialist and merge, 3 passes, at most 2 replays, any replay | `HeldNodeHasHolder`, `DeadletterIsListed`, `NodeAttemptBudget`, `MergeHasInputs` |
| `graph_careful` | 2 specialists and merge, 3 passes, 1 careful replay | `NodeExclusive`, `SucceededIsFinal`, `MergeAfterInputs` |
| `graph_safe_resume` (violated) | as `graph_replay` | the doc's promise of safe resume |
| `session_queue` | 5 calls, 2 sessions, fairness | `ImplementsGate`, `MapHoldsLiveTail`, `TurnComes` |
| `http_idempotency` | 3 requests, 1 key, 1 failing read or insert, 1 crash, fairness | `ReplayMatchesRecord`, `InFlightEntryIsLive`, `RerunOnlyAfterFailure`, `NoRunAfterRecord`, `RequestAnswered`, `WaiterReleased` |
| `write_pipeline` | 2 calls of 4 sorts, 1 confirmation, 1 key, file errors, 1 crash, fairness | `SingleUseAlone`, `BudgetHeldAlone`, `NoDuplicateAlone`, `RepeatOnlyAfterFailure`, `PendingEnds` |
| `write_single_use` (violated) | as `write_pipeline`, no crash | the doc's promise that confirmations are single-use |
| `exec_session` | 3 flows of any kind, 3 tasks, 1 torn read, 1 crash | `RetryResumesAlone`, `AppliedOnce`, `OwnerKept`, `EndedStaysEnded` |
| `exec_late_completion` (violated) | 4 flows of a chat: preview, confirm, turn | the doc's promise about late completions |

Each passing run of a component with a type invariant checks that too.

**Bounds.** Three attempts let an attempt be superseded by one that is itself
superseded, or be resumed by an operator after the budget was used up; three
runs let two stale runs, one with the worker id of the lease owner, settle
around a third. Two jobs are what the claim order needs. `MaxRetries = 1`
gives each node a retry and a deadletter; two replays allow a deadletter to be
replayed twice. `RoundLimit = 2` rounds suffice to reach the merge node and
the end of the rounds. Three calls of one session are what the deletion of
the map entry needs: one leaves, one waits, one arrives. Three requests are a leader and two
waiters, or a leader, a waiter and a newcomer after the leader failed. Two
calls over one confirmation are what its double use needs; `SoftLimit = 1` and
`HardLimit = 2` with or without an older event put both limits within reach. Three
flows give a task, an apply of it and somebody between two steps of the apply;
`MaxRetries = 2` lets a task be retried once and then be blocked. The proofs do not
depend on any of these numbers. Flows are interchangeable, hence the symmetry of
the `ExecutiveTask` runs, which check no liveness.

**Fairness.** `FairSpec` of `AutonomyJobs` assumes that an idle run polls
(`tick` re-arms its timer in a finally block, and a dead process is
restarted), that an execution settles (`withAutonomyExecuteTimeout` rejects it
after a bounded time), and that clocks advance. It assumes nothing of
operators, heartbeats or crashes; crashes are bounded all the same, because
each burns an attempt. `FairSpec` of `SessionQueue` assumes only that queued
promise jobs run. Works may never end.
`FairSpec` of `HttpIdempotency` assumes that timers fire and promise jobs run,
nothing of handlers or clients; `WaiterReleased` states its own assumption, that
handlers end. `FairSpec` of `LarkWrite` assumes that a call that was started
goes on, that is, that file operations and calls to Lark end. `ExecutiveTask`
has no fairness and no liveness property: whether a user comes back to a task
is the user's affair.

**Deadlock** is not checked: a queue with nothing to do, a graph whose passes
have ended, a session whose calls are over, and a server whose requests, writes
or flows are over may stop.

**Violations.** `jobs_history`: a job fails, an operator resumes it, the worker
of the resumed attempt dies, the lease expires, and the next claim finds the
budget used up and replaces the whole error, the operator's disposition
included; `docs/system/modules.md` says that later failures preserve the
history. `graph_safe_resume`: a deadletter is replayed, the node succeeds, the
same deadletter is replayed again and the finished node is queued again;
`docs/system/data_flow.md` says that replay re-queues "for safe resume".
`write_single_use`: two calls with the same confirmation id and without a key
both load the confirmations before either has written the file without that
id, and both write; `docs/lark_rollout_test_plan.md` says that confirmations are
single-use. `SingleUseAlone` shows that this takes an overlap. A rewrite from
comments is protected all the same, by the task it marks (`AppliedOnce`).
`exec_late_completion`: a meeting's confirmation is being written, the user ends
the task and asks for the summary of another meeting, and the completion of the first, which
carries no task id, finalizes the second task and takes its place in the
session away; `docs/system/closed_loop.md` says that a late completion must not
do so.
`data_flow.md` (332-338) also describes a guard on the age of queued jobs that
the store does not have; no run states it.

## 4. Proofs

All theorems hold for arbitrary constants under the named assumptions of the
modules (`ConstantsAssumption`, `FailuresAssumption`, `GraphAssumption`,
`SessionAssumption`, `RequestAssumption`, `LarkWriteAssumption`,
`ExecutiveTaskAssumption`): worker ids and keys are assigned, null values are
not ids, bounds are positive or at least natural numbers, the budget file
starts with finitely many events and with none of a modelled call. Every
invariant below was first checked with TLC on the instance of the component's
run. Every invariant and action property of a passing run is stated by a
theorem.

- `AutonomyJobsProofs`: `TypeCorrect`, `QueueSafety`, and, with `Stalls =
  FALSE`, `Exclusion` and `CompletionFinal`. `RunsOwnAttempts`, `BudgetKept` and
  `ResultsAreReal` state the parts of `QueueSafety` one by one. The inductive invariant `IndInv`
  adds to the checked invariants that two runs never hold the same attempt
  (`RunsDisjoint`), which is what keeps one run from closing another's row, and
  that rows are well formed. The key case is `Fail`, which changes a job row
  it may not own: the row is then neither running nor leased, so nothing is
  claimed about a holder. For `Exclusion`, `ExclusiveExecution` is inductive
  relative to `IndInv`: a reclaim needs an expired lease, and by the invariant
  an executing run has a live one. The action properties rest on
  `SettledRow`: `complete` reaches a job row only through its lease, which a
  settled row does not have, so a settled row changes only by an operator or by
  the `fail` of another attempt that is still executing
  (`CompletionUndoneByOther`, `AcknowledgementLasts`): an older one whose lease
  ran out, or the newest, when an older one of the same worker id completed the
  job. Without stalls there is no such attempt, and only the operator is left
  (`SinksAreHeld`).
- `ExecutiveWorkGraphProofs`: `GraphTypeCorrect` and `GraphSafety` for any
  replays; `PassExclusion` and `SuccessFinal` for careful ones. `DeadNodesListed`,
  `NodeBudgetKept`, `NothingMergedEarly` and, for careful replays, `MergeInOrder`
  state their parts one by one. `GraphInv` adds
  that an executing claim of the merge node has seen the artifacts of all
  specialists, which are never deleted, and that passes have rounds left.
  `CarefulInv` says that each claim of a pass holds its node in the node's
  newest attempt; without it `FailNode`, which checks nothing, could requeue a
  node that has moved on, and indeed does once replays are careless.
- `SessionGateProofs`: `GateExcludes` and `GateInOrder`, that the abstract gate is
  worth implementing: works of one session never overlap, and nobody who waits
  is overtaken. `GateInv`: of two calls that have arrived one came before the
  other, and who came before is over when the later one works.
- `SessionQueueProofs`: `MapInOrder`, `QueueImplementsGate` and, by instantiating
  the theorems about the gate, `SessionsExclude` and `SessionsInOrder`. `QueueInv` says
  that `previous` is the call right before (so that one resolved promise
  stands for all earlier ones), that a call's jobs are queued only after its
  `previous` is resolved, and that at most one queued job can enter a call or
  resolve its promise.
- `HttpIdempotencyProofs`: `HttpTypeCorrect`, `ReplaysAreRecorded`,
  `EntriesAreLive`, `RerunsFollowFailures` and `RecordEndsRuns`. `HttpInv` adds
  that a promise belongs to a keyed leader, that who waits does so on a request
  of the same key, that a resolved promise holds the row of the table, and
  `RanSettled`: a request whose handler was started is in flight, or its key
  has a record or a failed leader. The last is what a second leader relies on: it
  found neither record nor entry, so somebody failed. The finally block deletes
  whatever entry the key has, also another leader's; by then `RanSettled` has a
  record or a failed leader of the key to show for it.
- `LarkWriteProofs`: `LarkTypeCorrect`, `RepeatsFollowFailures` and
  `SingleUseWhenAlone`, in layers. `KeysInv`: a call under way has its key
  pending and shares it with nobody, and a call that wrote and did not fail has
  left its answer under its key. Overlap does no harm here, because `runMutation`
  tests and marks the key without an await. `ConfirmInv`: a call that may write
  has deleted its id, and no write under way, of a call or a preview, brings the
  id back. This one needs that nothing overlapped, as `write_single_use` shows; it
  survives crashes and file errors, because a torn file has no ids.
- `LarkWriteBudgetProofs`: `BudgetHeldWhenAlone` and `NoDuplicateWhenAlone`, for
  calls that neither overlap nor are cut short by a crash or a file error. `BudgetInv`
  says that the budget file holds the event of every call that wrote, except of
  one that is about to record its own; that a torn file is one that its writer is
  about to fill; and that an admitted call still fits below its limit when it
  writes. `FiniteInv`, which holds without these hypotheses, lets cardinalities
  be compared. The hypotheses are needed: after a crash the file may be empty, and the
  count starts anew; a write whose record fails leaves no event.
- `ExecutiveTaskProofs`: `ExecTypeCorrect`, `EndedTasksStayEnded`,
  `RetriesAreResumed`, `OwnersAreKept` and `ConfirmationsApplyOnce`. Each action
  has a lemma that says what it makes of task, entry and flow; the invariants are
  proved from these. `ProposalsInv`: tasks with proposals are over and a task
  being finalized has none, so that applying an improvement revives nothing.
  `EntryInv`, as long as no read fell between a gate and its recovery: a flow about
  to delete an entry deletes that of a task that is dead for good, and the newest
  task, if live or being finalized, has the entry unless a preview without comments
  deleted it.
  `ApplyInv`: a task awaits a review with a confirmation that one preview issued,
  no two tasks await the same, and a confirmation that was let through is awaited
  by no task, now or later.

Only model-checked are the liveness properties `JobsSettle`, `TurnComes`,
`RequestAnswered`, `WaiterReleased` and `PendingEnds`: they depend on fairness,
which is beyond the prover.

## 5. What is not modelled

See "components" in `PROJECT.json`. Language-model calls, Lark, SQLite and the
file system are environment. Most of the code is routing of texts, building of
prompts, parsing of model output, formatting of replies, retrieval, monitoring
and evaluation: functions of their input, without a protocol to check. Of the
orchestrator, work items and handoffs inside a turn, the document review
workflow (which no route calls) and the rejection and rollback of improvement
proposals are left out. `LarkWrite` leaves out the ageing of budget events
during a behaviour (it starts with some that have aged) and the journal.
`HttpIdempotency` leaves out a handler that throws after it has answered: handlers
answer as their last act, and by then the promise is settled and the socket written,
so that the listener's error answer would change nothing; the same end is modelled where a
handler answers after its timer has. `ExecutiveTask` knows of a meeting
capture only whether one is active, not its entries, document and audio. The branch of
`deriveRecoveryWorkflowState` that waits for the user is in the model and never
taken: the workflows' callers report no missing slot.

## 6. Plan

Done: the modules of section 2 and their proofs. Next, in this order:

1. `JobOverGraph`: `AutonomyJobs` and `ExecutiveWorkGraph` composed (a pass is
   the execution of a run), for the attempts a graph in backoff burns.
2. `MessageDeduper`, the planner's task lifecycle and the runtime manager.
