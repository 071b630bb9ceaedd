--------------------------- MODULE ExecutiveTask ---------------------------
(***************************************************************************)
(* The tasks of one session of one account: executive-task-state with the  *)
(* session's entry in active_by_session, the entry points of               *)
(* executive-orchestrator that start, mark and finalize the tasks of the   *)
(* workflows, the verification gate of executive-closed-loop, and their    *)
(* callers, the routes and lanes that make several such calls with other   *)
(* work in between.  Three sorts of sessions share the code: that of a     *)
(* document (rewrite from comments), that of a folder or wiki (organize),  *)
(* and that of a chat.                                                     *)
(*                                                                         *)
(* The entry points of a session run one at a time (SessionQueue); `turn`  *)
(* is the one inside.  One that shows others no status in between is one   *)
(* step: what runs beside it only removes the session's entry, which       *)
(* commutes with its writes to the task.  The store's own queue makes each *)
(* read-change-write of the file one step.  Reads are not queued: they may *)
(* find the file truncated by a write of any session, both times they try. *)
(***************************************************************************)
EXTENDS Naturals, Sequences, RecoveryDecision

CONSTANTS
  Flows,        \* requests and messages of this session
  Offered,      \* what they may do
  None,
  MaxTasks,     \* bound on tasks
  MaxRetries,   \* max_retries, 2 where nobody gives one
  MaxTorn,      \* bound on reads of a truncated file
  MaxCrashes    \* bound on crashes

ASSUME ExecutiveTaskAssumption ==
  /\ None \notin Flows
  /\ {MaxTasks, MaxRetries} \subseteq Nat \ {0}
  /\ {MaxTorn, MaxCrashes} \subseteq Nat

VARIABLES
  tasks,    \* the tasks of the session, in the order of their start
  active,   \* the session's entry in active_by_session, 0 for none
  turn,     \* the flow whose entry point runs
  session,  \* the sort of this session
  kind,     \* what a flow does
  pc,       \* where it is
  at,       \* how many stages of its preview are done
  snap,     \* the task it worked on or read last
  conf,     \* the preview whose confirmation it applies
  marked,   \* the task it marked as being applied or written back
  applied,  \* applies that were let through to the write
  capturing,  \* whether a meeting is being captured in the chat
  raced,    \* whether a task was read between its gate and its recovery
  torn,
  crashes

fixed == <<session, kind>>
flow == <<fixed, at, conf, marked, applied, capturing>>
vars == <<tasks, active, turn, flow, pc, snap, raced, torn, crashes>>

-----------------------------------------------------------------------------
(* The lifecycle of a task.                                                *)

\* ALLOWED_TRANSITIONS
AllowedTransitions == [
  created |-> {"clarified", "planned", "blocked"},
  clarified |-> {"planned", "blocked"},
  planned |-> {"executing", "blocked"},
  executing |-> {"awaiting_result", "blocked", "failed"},
  awaiting_result |-> {"verifying", "blocked", "failed"},
  verifying |-> {"completed", "executing", "blocked", "escalated"},
  completed |-> {"reflected"},
  failed |-> {"reflected", "executing"},
  blocked |-> {"executing", "escalated", "failed"},
  escalated |-> {"reflected"},
  reflected |-> {"improvement_proposed", "improved"},
  improvement_proposed |-> {"improved", "executing"},
  improved |-> {}]

Lifecycle == DOMAIN AllowedTransitions

\* applyLifecycle, transitionTaskLifecycle: a transition that is not allowed is
\* skipped and nothing is said.
Transition(life, to) == IF to \in AllowedTransitions[life] THEN to ELSE life

\* advanceTaskLifecycle: one step after the other, as far as each is allowed.
Advance(life, first, second) == Transition(Transition(life, first), second)

Workflows == {"meeting", "doc_rewrite", "cloud_doc", "executive"}

\* resolveVerificationOutcome, for what verifyTaskCompletion reports: a policy
\* that failed or blocks, a pass, a false claim, gaps in spite of the required
\* evidence, or the evidence missing.
Outcome(v) ==
  CASE v = "failed" -> [state |-> "failed", status |-> "failed"]
    [] v = "pass" -> [state |-> "completed", status |-> "completed"]
    [] v = "fake" -> [state |-> "escalated", status |-> "escalated"]
    [] v \in {"blocked", "partial"} -> [state |-> "blocked", status |-> "blocked"]
    [] v = "missing" -> [state |-> "executing", status |-> "retrying"]

\* What the verifier can report.  The callers bring the evidence of an apply
\* along, a meeting's summary may be empty.  An executive turn asks for a schema
\* and brings no structured result, so it never passes.
VerdictsOf(wf) ==
  CASE wf = "executive" -> {"failed", "blocked", "fake", "partial", "missing"}
    [] wf = "meeting" -> {"pass", "partial", "missing"}
    [] wf \in {"doc_rewrite", "cloud_doc"} -> {"pass", "partial"}

-----------------------------------------------------------------------------
(* Flows: the sorts of sessions they come in, the workflow of their task,  *)
(* where they begin, and the stages of a preview.                          *)

Flow(sessions, wf, first, stages) ==
  [sessions |-> sessions, wf |-> wf, first |-> first, stages |-> stages]

Kinds == [
  rewrite_preview |-> Flow({"document"}, "doc_rewrite", "ensure",
                           <<"loading_source", "drafting", "awaiting_review">>),
  rewrite_apply   |-> Flow({"document"}, "doc_rewrite", "mark", <<>>),
  cloud_preview   |-> Flow({"folder", "chat"}, "cloud_doc", "ensure",
                           <<"scoping", "previewing", "awaiting_review">>),
  cloud_review    |-> Flow({"chat"}, "cloud_doc", "ensure",
                           <<"scoping", "awaiting_review">>),
  cloud_follow_up |-> Flow({"chat"}, "cloud_doc", "ensure", <<"awaiting_review">>),
  cloud_apply     |-> Flow({"folder"}, "cloud_doc", "mark", <<>>),
  meeting_capture |-> Flow({"chat"}, "meeting", "ensure", <<"capturing">>),
  meeting_stop    |-> Flow({"chat"}, "meeting", "ensure", <<"awaiting_confirmation">>),
  meeting_preview |-> Flow({"chat"}, "meeting", "ensure", <<"awaiting_confirmation">>),
  meeting_confirm |-> Flow({"chat"}, "meeting", "mark", <<>>),
  executive_turn  |-> Flow({"chat"}, "executive", "exec", <<>>),
  message         |-> Flow({"chat"}, "executive", "over", <<>>)]

Sessions == {"document", "folder", "chat"}
KindsIn(sort) == {k \in DOMAIN Kinds \cap Offered : sort \in Kinds[k].sessions}

WorkflowOf(f) == Kinds[kind[f]].wf

Awaiting == {"awaiting_review", "awaiting_confirmation"}
Applying == {"applying", "writing_back"}

WorkflowStates ==
  Awaiting \cup Applying
  \cup {"loading_source", "drafting", "scoping", "previewing", "capturing",
        "completed", "retrying", "waiting_user", "blocked", "active", "inactive"}

Ended == {"over", "issued", "cleared", "lost"}

Task == [
  workflow : Workflows,
  workflow_state : WorkflowStates,
  status : {"active", "completed", "blocked", "escalated", "failed", "retrying",
            "ended_by_user", "improved"},
  lifecycle_state : Lifecycle,
  confirmation : Flows \cup {None},
  verifications : Nat,
  proposals : {"none", "pending", "applied"},
  expired : {"yes", "no"}]         \* no update for six hours

TypeOK ==
  /\ tasks \in Seq(Task)
  /\ Len(tasks) <= MaxTasks
  /\ active \in 0..Len(tasks)
  /\ turn \in Flows \cup {None}
  /\ turn # None => pc[turn] \in {"gated", "executing"}
  /\ session \in Sessions
  /\ kind \in [Flows -> KindsIn(session)]
  /\ pc \in [Flows -> Ended \cup {"new", "route", "ensure", "mark", "writing", "finalize",
                                  "gated", "exec", "executing", "cleanup"}]
  /\ at \in [Flows -> 0..3]
  /\ snap \in [Flows -> 0..MaxTasks]
  /\ conf \in [Flows -> Flows \cup {None}]
  /\ marked \in [Flows -> 0..MaxTasks]
  /\ applied \subseteq Flows
  /\ capturing \in {"yes", "no"}
  /\ raced \in {"yes", "no"}
  /\ torn \in 0..MaxTorn
  /\ crashes \in 0..MaxCrashes

Init ==
  /\ tasks = <<>>
  /\ active = 0
  /\ turn = None
  /\ session \in Sessions
  /\ kind \in [Flows -> KindsIn(session)]
  /\ pc = [f \in Flows |-> "new"]
  /\ at = [f \in Flows |-> 0]
  /\ snap = [f \in Flows |-> 0]
  /\ conf = [f \in Flows |-> None]
  /\ marked = [f \in Flows |-> 0]
  /\ applied = {}
  /\ capturing = "no"
  /\ raced = "no"
  /\ torn = 0
  /\ crashes = 0

-----------------------------------------------------------------------------
(* The task store.                                                         *)

\* Mutant: the status is not looked at.
LiveAnyStatus(t) == t # 0 /\ tasks[t].expired = "no"

\* The task is active and not expired.
Live(t) == t # 0 /\ tasks[t].status = "active" /\ tasks[t].expired = "no"
Stale(t) == t # 0 /\ ~Live(t)

\* getActiveExecutiveTask inside an entry point: it returns t, and leaves
\* `entry` as the session's entry.
GetActive(t, entry) ==
  \/ /\ t = IF Live(active) THEN active ELSE 0
     /\ entry = t
     /\ torn' = torn
  \/ /\ t = 0
     /\ entry = active
     /\ torn < MaxTorn
     /\ torn' = torn + 1

\* The task that was found is one of workflow wf.
IsOf(t, wf) == t # 0 /\ tasks[t].workflow = wf

\* buildTaskInitialization and startExecutiveTask, with the steps that follow.
NewTask(wf) ==
  [workflow |-> wf, workflow_state |-> "active", status |-> "active",
   lifecycle_state |-> Advance("created", "clarified", "planned"),
   confirmation |-> None, verifications |-> 0, proposals |-> "none",
   expired |-> "no"]

\* updateExecutiveTask
Update(t, task) == tasks' = [tasks EXCEPT ![t] = task]

Ids == 0..MaxTasks

Goto(f, p) == pc' = [pc EXCEPT ![f] = p]

\* An unqueued getActiveExecutiveTask of flow f: fresh(t) says where f goes on
\* when it returns t, 0 for null.  An entry that is out of date is deleted later.
ReadActive(f, fresh(_)) ==
  \/ /\ ~Stale(active)
     /\ Goto(f, fresh(active))
     /\ UNCHANGED <<snap, raced, torn>>
  \/ /\ torn < MaxTorn
     /\ torn' = torn + 1
     /\ Goto(f, fresh(0))
     /\ UNCHANGED <<snap, raced>>
  \/ /\ Stale(active)
     /\ Goto(f, "cleanup")
     /\ snap' = [snap EXCEPT ![f] = active]
     /\ raced' = IF turn # None /\ pc[turn] = "gated" /\ snap[turn] = active
                 THEN "yes" ELSE raced
     /\ UNCHANGED torn

\* Where a flow goes on when no active task was found.
WithoutTask(f) ==
  IF kind[f] \in {"rewrite_apply", "cloud_follow_up"} THEN "over" ELSE Kinds[kind[f]].first

\* Mutant: whatever the entry is by now is deleted.
EntryAfterCleanupBlind(t) == 0

\* The entry is looked at again before it is deleted.
EntryAfterCleanup(t) == IF active = t THEN 0 ELSE active

Cleanup(f) ==
  /\ pc[f] = "cleanup"
  /\ active' = EntryAfterCleanup(snap[f])
  /\ Goto(f, WithoutTask(f))
  /\ UNCHANGED <<tasks, turn, flow, snap, raced, torn, crashes>>

\* Six hours without an update: no write and no turn lasts that long.
Expire(t) ==
  /\ Live(t)
  /\ \A f \in Flows :
       /\ pc[f] \in {"writing", "finalize"} => marked[f] # t
       /\ pc[f] = "executing" => snap[f] # t
  /\ Update(t, [tasks[t] EXCEPT !.expired = "yes"])
  /\ UNCHANGED <<active, turn, flow, pc, snap, raced, torn, crashes>>

-----------------------------------------------------------------------------
(* Arrivals.                                                               *)

\* startMeetingCaptureSession and stopMeetingCaptureSession
CapturingAfter(f) ==
  CASE kind[f] = "meeting_capture" -> "yes"
    [] kind[f] = "meeting_stop" -> "no"
    [] OTHER -> capturing

\* The request of a folder, of a document's preview, or a meeting command, which is
\* looked for before anything else of a message, goes to its first entry point,
\* unless it stops a capture and there is none.
Arrive(f) ==
  /\ pc[f] = "new"
  /\ session # "chat" \/ WorkflowOf(f) = "meeting"
  /\ kind[f] # "rewrite_apply"
  /\ Goto(f, IF kind[f] = "meeting_stop" /\ capturing = "no" THEN "over"
             ELSE Kinds[kind[f]].first)
  /\ capturing' = CapturingAfter(f)
  /\ UNCHANGED <<tasks, active, turn, fixed, at, conf, marked, applied, snap, raced,
                 torn, crashes>>

\* captureMeetingEntryIfActive: a message that is no meeting command becomes an
\* entry of the capture.  One without text, which no workflow takes up, does not.
PassCapture(f) ==
  /\ pc[f] = "new"
  /\ session = "chat" /\ WorkflowOf(f) # "meeting"
  /\ \/ capturing = "yes" /\ Goto(f, "over")
     \/ (capturing = "no" \/ kind[f] = "message") /\ Goto(f, "route")
  /\ UNCHANGED <<tasks, active, turn, flow, snap, raced, torn, crashes>>

\* executeCapabilityLane reads the active task before it chooses the lane.
Route(f) ==
  /\ pc[f] = "route"
  /\ ReadActive(f, LAMBDA t : IF IsOf(t, "cloud_doc") THEN Kinds[kind[f]].first
                              ELSE WithoutTask(f))
  /\ UNCHANGED <<tasks, active, turn, flow, crashes>>

\* A task that awaits the review of preview g.
ReviewReady(t, g) ==
  /\ IsOf(t, "doc_rewrite")
  /\ tasks[t].workflow_state = "awaiting_review"
  /\ tasks[t].confirmation = g

\* loadDocumentCommentRewriteApplyState for a confirmation the client was given:
\* without a task that is ready, or without the confirmation, the write policy
\* refuses.
LoadApply(f) ==
  /\ pc[f] = "new"
  /\ kind[f] = "rewrite_apply"
  /\ \E g \in Flows :
       /\ kind[g] = "rewrite_preview" /\ pc[g] = "issued"
       /\ conf' = [conf EXCEPT ![f] = g]
       /\ ReadActive(f, LAMBDA t : IF ReviewReady(t, g) THEN "mark" ELSE "over")
  /\ UNCHANGED <<tasks, active, turn, fixed, at, marked, applied, capturing, crashes>>

\* The work between two entry points, a check before the write, or the work before
\* the entry point of a meeting command fails.
Abandon(f) ==
  /\ pc[f] \in {"ensure", "mark", "writing"}
  /\ pc[f] = "ensure" => at[f] > 0 \/ WorkflowOf(f) = "meeting"
  /\ Goto(f, "over")
  /\ UNCHANGED <<tasks, active, turn, flow, snap, raced, torn, crashes>>

-----------------------------------------------------------------------------
(* The entry points of the workflows.                                      *)

\* How far a stage advances the lifecycle.
StageReached(life, stage) ==
  IF stage \in Awaiting THEN Advance(life, "executing", "awaiting_result")
  ELSE Transition(life, "executing")

Staged(task, stage, f) ==
  [task EXCEPT !.workflow_state = stage, !.status = "active", !.expired = "no",
               !.confirmation = IF stage = "awaiting_review" THEN f ELSE @,
               !.lifecycle_state = StageReached(@, stage)]

\* ensureMeeting/DocRewrite/CloudDocWorkflowTask: the active task of the same
\* workflow, or a new one that takes its place, at the next stage.
Ensure(f) ==
  LET stages == Kinds[kind[f]].stages
      stage == stages[at[f] + 1]
      wf == WorkflowOf(f)
  IN
  /\ pc[f] = "ensure"
  /\ turn = None
  /\ \E t, entry \in Ids :
       /\ GetActive(t, entry)
       /\ \/ /\ IsOf(t, wf)
             /\ Update(t, Staged(tasks[t], stage, f))
             /\ active' = entry
          \/ /\ ~IsOf(t, wf)
             /\ Len(tasks) < MaxTasks
             /\ tasks' = Append(tasks, Staged(NewTask(wf), stage, f))
             /\ active' = Len(tasks) + 1
  /\ at' = [at EXCEPT ![f] = @ + 1]
  /\ Goto(f, IF at[f] + 1 = Len(stages) THEN "issued" ELSE "ensure")
  /\ UNCHANGED <<turn, fixed, snap, conf, marked, applied, capturing, raced, crashes>>

\* clearDocRewriteTask: a preview that found no comments deletes the session's
\* entry, whoever's it is.
Clear(f) ==
  /\ kind[f] = "rewrite_preview"
  /\ pc[f] = "ensure" /\ at[f] = 1
  /\ active' = 0
  /\ Goto(f, "cleared")
  /\ UNCHANGED <<tasks, turn, flow, snap, raced, torn, crashes>>

\* Mutant: whatever the task is doing.
CanMarkAnyState(f, t) ==
  /\ IsOf(t, WorkflowOf(f))
  /\ WorkflowOf(f) = "doc_rewrite" => tasks[t].confirmation = conf[f]

\* The guards of markMeetingWorkflowWritingBack, markDocRewriteApplying and
\* markCloudDocApplying.
CanMark(f, t) ==
  /\ IsOf(t, WorkflowOf(f))
  /\ WorkflowOf(f) # "meeting" => tasks[t].workflow_state = "awaiting_review"
  /\ WorkflowOf(f) = "doc_rewrite" => tasks[t].confirmation = conf[f]

Marked(task) ==
  [task EXCEPT !.workflow_state = IF task.workflow = "meeting" THEN "writing_back"
                                  ELSE "applying",
               !.status = "active", !.expired = "no"]

\* The task is marked, or the apply ends here; a meeting's confirmation goes on
\* without a task.
Mark(f) ==
  /\ pc[f] = "mark"
  /\ turn = None
  /\ \E t, entry \in Ids :
       /\ GetActive(t, entry)
       /\ active' = entry
       /\ \/ /\ CanMark(f, t)
             /\ Update(t, Marked(tasks[t]))
             /\ marked' = [marked EXCEPT ![f] = t]
             /\ applied' = applied \cup {f}
             /\ Goto(f, "writing")
          \/ /\ ~CanMark(f, t)
             /\ Goto(f, IF WorkflowOf(f) = "meeting" THEN "writing" ELSE "over")
             /\ UNCHANGED <<tasks, marked, applied>>
  /\ UNCHANGED <<turn, fixed, at, conf, capturing, snap, raced, crashes>>

\* The write to Lark succeeds.
Write(f) ==
  /\ pc[f] = "writing"
  /\ Goto(f, "finalize")
  /\ UNCHANGED <<tasks, active, turn, flow, snap, raced, torn, crashes>>

\* The lifecycle after a verdict.
Verified(life, v) == Advance(life, "verifying", Outcome(v).state)

\* finalizeWorkflowVerificationGate: the verdict's status is in the store before
\* the recovery is decided.
Gated(task, v) ==
  [task EXCEPT !.lifecycle_state = Verified(@, v),
               !.status = Outcome(v).status,
               !.verifications = @ + 1, !.expired = "no"]

\* finalizeMeeting/DocRewrite/CloudDocWorkflowTask up to the gate, of the task
\* that is active by now.
Gate(f) ==
  /\ pc[f] = "finalize"
  /\ turn = None
  /\ \E t, entry \in Ids :
       /\ GetActive(t, entry)
       /\ active' = entry
       /\ \/ /\ IsOf(t, WorkflowOf(f))
             /\ \E v \in VerdictsOf(WorkflowOf(f)) : Update(t, Gated(tasks[t], v))
             /\ snap' = [snap EXCEPT ![f] = t]
             /\ turn' = f
             /\ Goto(f, "gated")
          \/ /\ ~IsOf(t, WorkflowOf(f))
             /\ Goto(f, "over")
             /\ UNCHANGED <<tasks, snap, turn>>
  /\ UNCHANGED <<flow, raced, crashes>>

\* resolveWorkflowRecoveryDecision and sanitizeWorkflowRecoveryDecision: the
\* callers give no failure class and no budget of their own.
RecoveryDecisionOf(task) ==
  LET d == ResolveRecoveryDecisionV1(
             [failure_class |-> "none", missing_slot |-> FALSE, retryable |-> "unset",
              policy_failed |-> FALSE, candidates |-> 0,
              retry_count |-> task.verifications, max_retries |-> MaxRetries])
  IN IF d.next_state = "failed" THEN [d EXCEPT !.next_state = "blocked"] ELSE d

\* Mutant: the next state as it is.
DeriveRecoveryWorkflowStateAsIs(d) == d.next_state

\* deriveRecoveryWorkflowState.  No caller of today waits for the user here.
DeriveRecoveryWorkflowState(d) ==
  CASE d.next_state = "executing" -> "retrying"
    [] d.next_state = "blocked" /\ d.routing_hint = "waiting_user" -> "waiting_user"
    [] OTHER -> d.next_state

Recovered(task) ==
  LET d == RecoveryDecisionOf(task) IN
  [task EXCEPT !.lifecycle_state = Transition(@, d.next_state),
               !.workflow_state = DeriveRecoveryWorkflowState(d),
               !.status = IF d.next_state = "executing" THEN "active" ELSE d.next_state,
               !.expired = "no"]

\* Mutant: the entry is deleted after a failure too.
EntryAfterFinalizeAlways(t) == IF active = t THEN 0 ELSE active

\* clearActiveExecutiveTask with expectedTaskId, when the verification passed.
EntryAfterFinalize(t) ==
  IF active = t /\ tasks[t].status = "completed" THEN 0 ELSE active

\* The rest of finalizeMeeting/DocRewrite/CloudDocWorkflowTask.
Recover(f) ==
  LET t == snap[f] IN
  /\ pc[f] = "gated"
  /\ Update(t, IF tasks[t].status = "completed"
               THEN [tasks[t] EXCEPT !.workflow_state = "completed"]
               ELSE Recovered(tasks[t]))
  /\ active' = EntryAfterFinalize(t)
  /\ turn' = None
  /\ Goto(f, "over")
  /\ UNCHANGED <<flow, snap, raced, torn, crashes>>

-----------------------------------------------------------------------------
(* The executive turn.                                                     *)

\* The user ends the task.
Closed(task) ==
  [task EXCEPT !.lifecycle_state = Transition(@, "blocked"),
               !.status = "ended_by_user", !.workflow_state = "inactive",
               !.expired = "no"]

\* The active task, of whatever workflow, goes on in this turn.
Continued(task) ==
  [task EXCEPT !.workflow_state = "active", !.expired = "no",
               !.lifecycle_state = Transition(@, "executing")]

\* executeExecutiveTurn up to the work of the agents: nothing to do, an exit, or
\* a task that is continued or started.
ExecBegin(f) ==
  /\ pc[f] = "exec"
  /\ turn = None
  /\ \E t, entry \in Ids :
       /\ GetActive(t, entry)
       /\ \/ /\ Goto(f, "over")
             /\ active' = entry
             /\ UNCHANGED <<tasks, turn, snap>>
          \/ /\ t # 0
             /\ Update(t, Closed(tasks[t]))
             /\ active' = 0
             /\ Goto(f, "over")
             /\ UNCHANGED <<turn, snap>>
          \/ /\ t # 0
             /\ Update(t, Continued(tasks[t]))
             /\ active' = entry
             /\ snap' = [snap EXCEPT ![f] = t]
             /\ turn' = f
             /\ Goto(f, "executing")
          \/ /\ t = 0
             /\ Len(tasks) < MaxTasks
             /\ tasks' = Append(tasks, Continued(NewTask("executive")))
             /\ active' = Len(tasks) + 1
             /\ snap' = [snap EXCEPT ![f] = Len(tasks) + 1]
             /\ turn' = f
             /\ Goto(f, "executing")
  /\ UNCHANGED <<flow, raced, crashes>>

\* How far the proposals of a turn advance the lifecycle.
ProposalsReached(life, p) ==
  CASE p = "none" -> life
    [] p = "pending" -> Transition(life, "improvement_proposed")
    [] p = "applied" -> Advance(life, "improvement_proposed", "improved")

\* finalizeExecutiveTaskTurn
TurnFinalized(task, v, p) ==
  [task EXCEPT !.lifecycle_state =
                 ProposalsReached(Transition(Verified(@, v), "reflected"), p),
               !.status = IF p = "applied" THEN "improved" ELSE Outcome(v).status,
               !.verifications = @ + 1, !.proposals = p, !.expired = "no"]

\* The agents give no reply, or the turn is finalized: with proposals that are
\* pending, all applied at once, or none.
ExecEnd(f) ==
  LET t == snap[f] IN
  /\ pc[f] = "executing"
  /\ \/ UNCHANGED tasks
     \/ \E v \in VerdictsOf("executive"), p \in {"none", "pending", "applied"} :
          Update(t, TurnFinalized(tasks[t], v, p))
  /\ turn' = None
  /\ Goto(f, "over")
  /\ UNCHANGED <<active, flow, snap, raced, torn, crashes>>

\* applyImprovementWorkflowProposal of the last proposal that was pending, and
\* syncTaskImprovementLifecycle.
ApplyImprovement(t) ==
  LET life == Transition(tasks[t].lifecycle_state, "improved") IN
  /\ tasks[t].proposals = "pending"
  /\ Update(t, [tasks[t] EXCEPT !.proposals = "applied", !.lifecycle_state = life,
                                !.status = IF life = "improved" THEN "improved" ELSE @,
                                !.expired = "no"])
  /\ UNCHANGED <<active, turn, flow, pc, snap, raced, torn, crashes>>

\* The process is killed and started again; a write it was in the middle of
\* leaves a file that reads as an empty store.
Crash ==
  /\ crashes < MaxCrashes
  /\ crashes' = crashes + 1
  /\ turn' = None
  /\ pc' = [f \in Flows |-> IF pc[f] \in Ended \cup {"new"} THEN pc[f] ELSE "lost"]
  /\ \/ UNCHANGED <<tasks, active>>
     \/ tasks' = <<>> /\ active' = 0
  /\ UNCHANGED <<flow, snap, raced, torn>>

Step(f) ==
  \/ Arrive(f)
  \/ PassCapture(f)
  \/ Route(f)
  \/ LoadApply(f)
  \/ Cleanup(f)
  \/ Abandon(f)
  \/ Ensure(f)
  \/ Clear(f)
  \/ Mark(f)
  \/ Write(f)
  \/ Gate(f)
  \/ Recover(f)
  \/ ExecBegin(f)
  \/ ExecEnd(f)

Next ==
  \/ Crash
  \/ \E f \in Flows : Step(f)
  \/ \E t \in 1..Len(tasks) : Expire(t) \/ ApplyImprovement(t)

Spec == Init /\ [][Next]_vars

-----------------------------------------------------------------------------
ClearedByPreview == \E f \in Flows : pc[f] = "cleared"

\* A task that is to be retried is resumed: it stays the session's entry until a
\* newer task takes its place, unless somebody read the store between the gate
\* and the recovery, or a preview without comments deleted the entry.
RetryResumesAlone ==
  raced = "no" /\ ~ClearedByPreview =>
    \A t \in 1..Len(tasks) :
      Live(t) /\ tasks[t].workflow_state = "retrying" => active = t \/ t < Len(tasks)

\* The entry of a live task goes only to a newer task, or with the task's end,
\* however late the cleanup of an older entry comes; with the same exceptions.
OwnerKept ==
  [][ Live(active) /\ active' # active /\ raced = "no"
        => \/ crashes' # crashes
           \/ ClearedByPreview'
           \/ Len(tasks') > Len(tasks)
           \/ tasks'[active].status # "active" ]_vars

\* Of two applies with one confirmation at most one is let through to the write,
\* even where the confirmation store lets both take the confirmation.
AppliedOnce ==
  \A f, g \in applied : f # g /\ WorkflowOf(f) = "doc_rewrite" => conf[f] # conf[g]

Finalizing(t) == turn # None /\ pc[turn] = "gated" /\ snap[turn] = t

\* A task that ended is not taken up again, by no preview, apply or turn: only
\* the recovery that follows its gate makes it active.
EndedStaysEnded ==
  [][ crashes' = crashes =>
        \A t \in 1..Len(tasks) :
          tasks[t].status # "active" /\ ~Finalizing(t) => tasks'[t].status # "active" ]_vars

\* The late completion of a task does not touch a newer one: what a flow finalizes
\* is the task it marked.
LateCompletionKeepsOwner ==
  \A f \in Flows : pc[f] = "gated" /\ marked[f] # 0 => snap[f] = marked[f]
=============================================================================
