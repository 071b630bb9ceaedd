------------------------ MODULE ExecutiveTaskProofs ------------------------
(***************************************************************************)
(* Proofs about ExecutiveTask, for any set of flows and all bounds.  The   *)
(* inductive invariant is built in four layers: the types with where a     *)
(* flow stands (Types), what can make a task active again (ProposalsInv),  *)
(* who holds the session's entry (EntryInv), and what became of a          *)
(* confirmation (ApplyInv).                                                *)
(***************************************************************************)
EXTENDS ExecutiveTask, TLAPS

Verdicts == {"failed", "pass", "fake", "blocked", "partial", "missing"}

States == {"ensure", "mark", "exec", "over"}

-----------------------------------------------------------------------------
(* The operators of the model.                                             *)

\* A preview has stages, no more than three, and the review is the last one.
KindOK(k) ==
  /\ k.wf \in Workflows
  /\ k.first \in States
  /\ k.stages \in Seq(WorkflowStates)
  /\ Len(k.stages) \in 0..3
  /\ k.first = "ensure" => Len(k.stages) > 0
  /\ \A i \in 1..Len(k.stages) : k.stages[i] = "awaiting_review" => i = Len(k.stages)

LEMMA NoStages ==
  ASSUME NEW s, NEW wf \in Workflows, NEW first \in States \ {"ensure"}
  PROVE  KindOK(Flow(s, wf, first, <<>>))
BY DEF KindOK, Flow, States

LEMMA OneStage ==
  ASSUME NEW s, NEW wf \in Workflows, NEW a \in WorkflowStates
  PROVE  KindOK(Flow(s, wf, "ensure", <<a>>))
BY DEF KindOK, Flow, States

LEMMA TwoStages ==
  ASSUME NEW s, NEW wf \in Workflows,
         NEW a \in WorkflowStates \ {"awaiting_review"}, NEW b \in WorkflowStates
  PROVE  KindOK(Flow(s, wf, "ensure", <<a, b>>))
BY DEF KindOK, Flow, States

LEMMA ThreeStages ==
  ASSUME NEW s, NEW wf \in Workflows,
         NEW a \in WorkflowStates \ {"awaiting_review"},
         NEW b \in WorkflowStates \ {"awaiting_review"}, NEW c \in WorkflowStates
  PROVE  KindOK(Flow(s, wf, "ensure", <<a, b, c>>))
BY DEF KindOK, Flow, States

LEMMA KindFacts ==
  ASSUME NEW k \in DOMAIN Kinds
  PROVE  KindOK(Kinds[k])
<1>1. CASE k = "rewrite_preview"
  <2>1. KindOK(Flow({"document"}, "doc_rewrite", "ensure",
                    <<"loading_source", "drafting", "awaiting_review">>))
    BY ThreeStages DEF Workflows, WorkflowStates, Awaiting
  <2> QED  BY <1>1, <2>1 DEF Kinds
<1>2. CASE k = "cloud_preview"
  <2>1. KindOK(Flow({"folder", "chat"}, "cloud_doc", "ensure",
                    <<"scoping", "previewing", "awaiting_review">>))
    BY ThreeStages DEF Workflows, WorkflowStates, Awaiting
  <2> QED  BY <1>2, <2>1 DEF Kinds
<1>3. CASE k = "cloud_review"
  <2>1. KindOK(Flow({"chat"}, "cloud_doc", "ensure",
                    <<"scoping", "awaiting_review">>))
    BY TwoStages DEF Workflows, WorkflowStates, Awaiting
  <2> QED  BY <1>3, <2>1 DEF Kinds
<1>4. CASE k = "cloud_follow_up"
  <2>1. KindOK(Flow({"chat"}, "cloud_doc", "ensure",
                    <<"awaiting_review">>))
    BY OneStage DEF Workflows, WorkflowStates, Awaiting
  <2> QED  BY <1>4, <2>1 DEF Kinds
<1>5. CASE k = "meeting_capture"
  <2>1. KindOK(Flow({"chat"}, "meeting", "ensure",
                    <<"capturing">>))
    BY OneStage DEF Workflows, WorkflowStates, Awaiting
  <2> QED  BY <1>5, <2>1 DEF Kinds
<1>6. CASE k \in {"meeting_preview", "meeting_stop"}
  <2>1. KindOK(Flow({"chat"}, "meeting", "ensure",
                    <<"awaiting_confirmation">>))
    BY OneStage DEF Workflows, WorkflowStates, Awaiting
  <2> QED  BY <1>6, <2>1 DEF Kinds
<1>7. CASE k \in {"rewrite_apply", "cloud_apply", "meeting_confirm", "executive_turn",
                  "message"}
  <2>1. \E s, wf, first : /\ wf \in Workflows /\ first \in States \ {"ensure"}
                          /\ Kinds[k] = Flow(s, wf, first, <<>>)
    BY <1>7 DEF Kinds, Workflows, States
  <2> QED  BY <2>1, NoStages
<1> QED  BY <1>1, <1>2, <1>3, <1>4, <1>5, <1>6, <1>7 DEF Kinds

LEMMA TransitionType ==
  ASSUME NEW life \in Lifecycle, NEW to
  PROVE  Transition(life, to) \in Lifecycle
BY DEF Transition, Lifecycle, AllowedTransitions

LEMMA AdvanceType ==
  ASSUME NEW life \in Lifecycle, NEW a, NEW b
  PROVE  Advance(life, a, b) \in Lifecycle
BY TransitionType DEF Advance

LEMMA OutcomeType ==
  ASSUME NEW v \in Verdicts
  PROVE  Outcome(v).status \in {"completed", "blocked", "escalated", "failed", "retrying"}
BY DEF Outcome, Verdicts

LEMMA VerdictsType ==
  ASSUME NEW wf \in Workflows
  PROVE  VerdictsOf(wf) \subseteq Verdicts
BY DEF VerdictsOf, Verdicts, Workflows

\* The workflows give no failure class, so their recovery never escalates.
LEMMA RecoveryDecisionType ==
  ASSUME NEW task \in Task
  PROVE  RecoveryDecisionOf(task) \in {Decision("executing", "resume_same_task"),
                                       Decision("blocked", "blocked_fail_soft")}
BY ExecutiveTaskAssumption
   DEF RecoveryDecisionOf, ResolveRecoveryDecisionV1, HasMissingSlot, IsRetryable, Decision,
       EscalateFailureClasses, RetryBudget, Task

LEMMA NewTaskType ==
  ASSUME NEW wf \in Workflows
  PROVE  NewTask(wf) \in Task
<1>1. "created" \in Lifecycle  BY DEF Lifecycle, AllowedTransitions
<1>2. Advance("created", "clarified", "planned") \in Lifecycle  BY <1>1, AdvanceType
<1> QED  BY <1>2 DEF NewTask, Task, WorkflowStates

\* What the entry points make of a task is a task of the same workflow, proposals
\* and confirmation, but for what they set.
LEMMA StagedType ==
  ASSUME NEW task \in Task, NEW stage \in WorkflowStates, NEW f \in Flows
  PROVE  /\ Staged(task, stage, f) \in Task
         /\ Staged(task, stage, f).status = "active"
         /\ Staged(task, stage, f).workflow_state = stage
         /\ Staged(task, stage, f).proposals = task.proposals
         /\ Staged(task, stage, f).confirmation =
              IF stage = "awaiting_review" THEN f ELSE task.confirmation
<1>1. StageReached(task.lifecycle_state, stage) \in Lifecycle
  BY AdvanceType, TransitionType DEF StageReached, Task
<1> QED  BY <1>1 DEF Staged, Task

LEMMA MarkedType ==
  ASSUME NEW task \in Task
  PROVE  /\ Marked(task) \in Task
         /\ Marked(task).status = "active"
         /\ Marked(task).workflow_state \in {"writing_back", "applying"}
         /\ Marked(task).proposals = task.proposals
         /\ Marked(task).confirmation = task.confirmation
BY DEF Marked, Task, WorkflowStates, Applying

LEMMA GatedType ==
  ASSUME NEW task \in Task, NEW v \in Verdicts
  PROVE  /\ Gated(task, v) \in Task
         /\ Gated(task, v).status # "active"
         /\ Gated(task, v).workflow_state = task.workflow_state
         /\ Gated(task, v).proposals = task.proposals
         /\ Gated(task, v).confirmation = task.confirmation
<1> DEFINE life == Verified(task.lifecycle_state, v)
           status == Outcome(v).status
           n == task.verifications + 1
<1>1. life \in Lifecycle  BY AdvanceType DEF Verified, Task
<1>2. status \in {"completed", "blocked", "escalated", "failed", "retrying"}  BY OutcomeType
<1>n. n \in Nat  BY DEF Task
<1> HIDE DEF life, status, n
<1>3. Gated(task, v) =
        [task EXCEPT !.lifecycle_state = life, !.status = status,
                     !.verifications = n, !.expired = "no"]
  BY DEF Gated, life, status, n
<1> QED  BY <1>1, <1>2, <1>n, <1>3 DEF Task

LEMMA RecoveredType ==
  ASSUME NEW task \in Task
  PROVE  /\ Recovered(task) \in Task
         /\ Recovered(task).workflow_state \in {"retrying", "blocked"}
         /\ Recovered(task).proposals = task.proposals
         /\ Recovered(task).confirmation = task.confirmation
<1> DEFINE d == RecoveryDecisionOf(task)
           s == DeriveRecoveryWorkflowState(d)
           life == Transition(task.lifecycle_state, d.next_state)
<1>1. d.next_state \in {"executing", "blocked"} /\ s \in {"retrying", "blocked"}
  BY RecoveryDecisionType DEF Decision, DeriveRecoveryWorkflowState
<1>2. life \in Lifecycle  BY TransitionType DEF Task
<1>3. Recovered(task) =
        [task EXCEPT !.lifecycle_state = life, !.workflow_state = s,
                     !.status = IF d.next_state = "executing" THEN "active"
                                ELSE d.next_state,
                     !.expired = "no"]
  BY DEF Recovered
<1> HIDE DEF d, s, life
<1> QED  BY <1>1, <1>2, <1>3 DEF Task, WorkflowStates

LEMMA ClosedType ==
  ASSUME NEW task \in Task
  PROVE  /\ Closed(task) \in Task
         /\ Closed(task).status = "ended_by_user"
         /\ Closed(task).workflow_state = "inactive"
         /\ Closed(task).proposals = task.proposals
         /\ Closed(task).confirmation = task.confirmation
<1>1. Transition(task.lifecycle_state, "blocked") \in Lifecycle  BY TransitionType DEF Task
<1> QED  BY <1>1 DEF Closed, Task, WorkflowStates

LEMMA ContinuedType ==
  ASSUME NEW task \in Task
  PROVE  /\ Continued(task) \in Task
         /\ Continued(task).status = task.status
         /\ Continued(task).workflow_state = "active"
         /\ Continued(task).proposals = task.proposals
         /\ Continued(task).confirmation = task.confirmation
<1>1. Transition(task.lifecycle_state, "executing") \in Lifecycle  BY TransitionType DEF Task
<1> QED  BY <1>1 DEF Continued, Task, WorkflowStates

LEMMA TurnFinalizedType ==
  ASSUME NEW task \in Task, NEW v \in Verdicts, NEW p \in {"none", "pending", "applied"}
  PROVE  /\ TurnFinalized(task, v, p) \in Task
         /\ TurnFinalized(task, v, p).status # "active"
         /\ TurnFinalized(task, v, p).workflow_state = task.workflow_state
         /\ TurnFinalized(task, v, p).confirmation = task.confirmation
<1> DEFINE life == Transition(Verified(task.lifecycle_state, v), "reflected")
<1>1. Verified(task.lifecycle_state, v) \in Lifecycle  BY AdvanceType DEF Verified, Task
<1>2. life \in Lifecycle  BY <1>1, TransitionType
<1> HIDE DEF life
<1>3. ProposalsReached(life, p) \in Lifecycle
  BY <1>2, AdvanceType, TransitionType DEF ProposalsReached
<1> DEFINE reached == ProposalsReached(life, p)
           status == IF p = "applied" THEN "improved" ELSE Outcome(v).status
           n == task.verifications + 1
<1>4. status \in {"improved", "completed", "blocked", "escalated", "failed", "retrying"}
  BY OutcomeType
<1>n. n \in Nat  BY DEF Task
<1> HIDE DEF reached, status, n
<1>5. TurnFinalized(task, v, p) =
        [task EXCEPT !.lifecycle_state = reached, !.status = status,
                     !.verifications = n, !.proposals = p, !.expired = "no"]
  BY DEF TurnFinalized, status, life, reached, n
<1> QED  BY <1>3, <1>4, <1>n, <1>5 DEF Task, reached

\* updateExecutiveTask changes one task.
LEMMA UpdateOne ==
  ASSUME tasks \in Seq(Task), NEW t \in 1..Len(tasks), NEW task \in Task, Update(t, task)
  PROVE  /\ tasks' \in Seq(Task)
         /\ Len(tasks') = Len(tasks)
         /\ tasks'[t] = task
         /\ \A u \in 1..Len(tasks) : u # t => tasks'[u] = tasks[u]
BY DEF Update

\* A task that starts comes last.
LEMMA AppendOne ==
  ASSUME tasks \in Seq(Task), NEW task \in Task, tasks' = Append(tasks, task)
  PROVE  /\ tasks' \in Seq(Task)
         /\ Len(tasks') = Len(tasks) + 1
         /\ tasks'[Len(tasks) + 1] = task
         /\ \A u \in 1..Len(tasks) : tasks'[u] = tasks[u]
BY DEF Task

-----------------------------------------------------------------------------
(* Types, and where a flow stands.                                         *)

Places == Ended \cup {"new", "route", "ensure", "mark", "writing", "finalize", "gated", "exec",
                      "executing", "cleanup"}

InTurn == {"gated", "executing"}

\* A flow inside an entry point holds the turn and works on a task of the store;
\* a flow that begins has done no stage, one that goes on has a stage left; the
\* entry that a flow is going to delete was that of a task.
FlowOK(f) ==
  /\ pc[f] \in InTurn => turn = f
  /\ pc[f] \in InTurn \cup {"cleanup"} => snap[f] \in 1..Len(tasks)
  /\ pc[f] \in {"new", "route", "cleanup"} => at[f] = 0
  /\ pc[f] = "ensure" => at[f] < Len(Kinds[kind[f]].stages)

Types == TypeOK /\ \A f \in Flows : FlowOK(f)

LEMMA KindOf ==
  ASSUME Types, NEW f \in Flows
  PROVE  kind[f] \in DOMAIN Kinds /\ KindOK(Kinds[kind[f]])
BY KindFacts DEF Types, TypeOK, KindsIn

\* What getActiveExecutiveTask finds inside an entry point: the live entry, or
\* nothing; the entry stays, unless its task is not live.
LEMMA Found ==
  ASSUME Types, NEW t \in Ids, NEW entry \in Ids, GetActive(t, entry)
  PROVE  /\ t # 0 => t = active /\ Live(t) /\ t \in 1..Len(tasks) /\ entry = t
         /\ entry \in 0..Len(tasks)
         /\ entry = active \/ (entry = 0 /\ ~Live(active))
         /\ torn' \in 0..MaxTorn
BY ExecutiveTaskAssumption DEF Types, TypeOK, GetActive, Live, Ids

\* A step of flow f that leaves the other flows where they are.
LEMMA FlowStep ==
  ASSUME Types, NEW f \in Flows, NEW p \in Places, Goto(f, p), UNCHANGED fixed,
         tasks' \in Seq(Task), Len(tasks') \in Len(tasks)..MaxTasks,
         active' \in 0..Len(tasks'),
         at' \in [Flows -> 0..3], \A g \in Flows : g # f => at'[g] = at[g],
         snap' \in [Flows -> Ids], \A g \in Flows : g # f => snap'[g] = snap[g],
         conf' \in [Flows -> Flows \cup {None}], marked' \in [Flows -> Ids],
         applied' \subseteq Flows, capturing' \in {"yes", "no"}, raced' \in {"yes", "no"}, torn' \in 0..MaxTorn,
         crashes' = crashes,
         FlowOK(f)',
         \/ turn' = turn /\ turn # f /\ p \notin InTurn
         \/ turn' = None /\ turn = f /\ p \notin InTurn
         \/ turn' = f /\ turn = None /\ p \in InTurn
  PROVE  Types'
<1>1. pc' \in [Flows -> Places] /\ pc'[f] = p /\ \A g \in Flows : g # f => pc'[g] = pc[g]
  BY DEF Goto, Types, TypeOK, Places
<1>2. turn' \in Flows \cup {None} /\ (turn' # None => pc'[turn'] \in InTurn)
  BY <1>1, ExecutiveTaskAssumption DEF Types, TypeOK, InTurn
<1>3. TypeOK'
  BY <1>1, <1>2 DEF Types, TypeOK, fixed, KindsIn, Places, InTurn, Ids
<1>4. ASSUME NEW g \in Flows, g # f  PROVE FlowOK(g)'
  <2>1. FlowOK(g) /\ pc'[g] = pc[g] /\ at'[g] = at[g] /\ snap'[g] = snap[g] /\ kind' = kind
    BY <1>1, <1>4 DEF Types, fixed
  <2>2. pc[g] \in InTurn => turn = g /\ turn' = g
    BY <2>1, <1>4, ExecutiveTaskAssumption DEF FlowOK
  <2>3. Len(tasks) \in Nat /\ Len(tasks') \in Nat /\ Len(tasks) <= Len(tasks')
    BY DEF Types, TypeOK
  <2> QED  BY <2>1, <2>2, <2>3 DEF FlowOK, InTurn
<1> QED  BY <1>3, <1>4 DEF Types

\* A step that only changes tasks.
LEMMA TaskStep ==
  ASSUME Types, tasks' \in Seq(Task), Len(tasks') = Len(tasks),
         UNCHANGED <<active, turn, flow, pc, snap, raced, torn, crashes>>
  PROVE  Types'
BY DEF Types, TypeOK, FlowOK, flow, fixed, KindsIn

LEMMA TypesInit == Init => Types
BY ExecutiveTaskAssumption
   DEF Init, Types, TypeOK, FlowOK, Ended, KindsIn, InTurn

LEMMA TypesCrash ==
  ASSUME Types, Crash
  PROVE  Types'
<1>1. /\ pc' \in [Flows -> Places]
      /\ \A f \in Flows : /\ pc'[f] \notin InTurn \cup {"route", "cleanup", "ensure"}
                          /\ pc'[f] = "new" => pc[f] = "new"
  BY DEF Types, TypeOK, Crash, Places, Ended, InTurn
<1>2. tasks' \in Seq(Task) /\ Len(tasks') <= MaxTasks /\ active' \in 0..Len(tasks')
  <2>1. CASE UNCHANGED <<tasks, active>>  BY <2>1 DEF Types, TypeOK
  <2>2. CASE tasks' = <<>> /\ active' = 0
    <3>1. Len(<<>>) = 0 /\ <<>> \in Seq(Task)  OBVIOUS
    <3> QED  BY <2>2, <3>1, ExecutiveTaskAssumption
  <2> QED  BY <2>1, <2>2 DEF Crash
<1>3. TypeOK'
  BY <1>1, <1>2, ExecutiveTaskAssumption
     DEF Types, TypeOK, Crash, flow, fixed, KindsIn, Places
<1>4. \A f \in Flows : FlowOK(f)'
  BY <1>1 DEF Types, FlowOK, Crash, flow, InTurn
<1> QED  BY <1>3, <1>4 DEF Types

-----------------------------------------------------------------------------
(* What the steps do: to the tasks, and to the session's entry.            *)

\* The step changes no task but t.
Touched(t) ==
  /\ t \in 1..Len(tasks)
  /\ tasks' \in Seq(Task)
  /\ Len(tasks') = Len(tasks)
  /\ \A u \in 1..Len(tasks) : u # t => tasks'[u] = tasks[u]

\* The step starts task t.
Started(t) ==
  /\ t = Len(tasks) + 1
  /\ tasks' \in Seq(Task)
  /\ Len(tasks') = t
  /\ t <= MaxTasks
  /\ \A u \in 1..Len(tasks) : tasks'[u] = tasks[u]

LEMMA LenTasks ==
  ASSUME Types
  PROVE  /\ tasks \in Seq(Task)
         /\ Len(tasks) \in Nat
         /\ Len(tasks) <= MaxTasks
         /\ MaxTasks \in Nat
         /\ \A t \in 1..Len(tasks) : tasks[t] \in Task
BY ExecutiveTaskAssumption DEF Types, TypeOK

\* The entry is live: it is that of a task.
LEMMA LiveEntry ==
  ASSUME Types, Live(active)
  PROVE  active \in 1..Len(tasks)
BY DEF Types, TypeOK, Live

LEMMA EnsureEffect ==
  ASSUME Types, NEW f \in Flows, Ensure(f)
  PROVE  /\ Types'
         /\ turn = None /\ turn' = None
         /\ pc[f] = "ensure"
         /\ pc' = [pc EXCEPT ![f] = "ensure"] \/ pc' = [pc EXCEPT ![f] = "issued"]
         /\ UNCHANGED <<kind, conf, applied, snap, raced, crashes>>
         /\ \E t \in 1..MaxTasks :
              /\ tasks'[t].status = "active"
              /\ tasks'[t].workflow_state = "awaiting_review" =>
                   pc'[f] = "issued" /\ tasks'[t].confirmation = f
              /\ \/ /\ Touched(t) /\ Live(t)
                    /\ t = active /\ active' = active
                    /\ tasks'[t].proposals = tasks[t].proposals
                    /\ \/ tasks'[t].workflow_state = "awaiting_review"
                       \/ tasks'[t].confirmation = tasks[t].confirmation
                 \/ /\ Started(t)
                    /\ active' = t
                    /\ tasks'[t].proposals = "none"
                    /\ \/ tasks'[t].workflow_state = "awaiting_review"
                       \/ tasks'[t].confirmation = None
<1> DEFINE stages == Kinds[kind[f]].stages
           stage == stages[at[f] + 1]
           wf == WorkflowOf(f)
           p == IF at[f] + 1 = Len(stages) THEN "issued" ELSE "ensure"
<1>0. /\ pc[f] = "ensure" /\ turn = None /\ turn' = None
      /\ at' = [at EXCEPT ![f] = @ + 1] /\ Goto(f, p)
      /\ UNCHANGED <<turn, fixed, snap, conf, marked, applied, capturing, raced, crashes>>
  BY DEF Ensure
<1>1. /\ stages \in Seq(WorkflowStates) /\ Len(stages) \in 0..3 /\ wf \in Workflows
      /\ \A i \in 1..Len(stages) : stages[i] = "awaiting_review" => i = Len(stages)
  <2>1. KindOK(Kinds[kind[f]])  BY KindOf
  <2> QED  BY <2>1 DEF KindOK, WorkflowOf
<1>2. at[f] \in 0..3 /\ at[f] < Len(stages)
  BY <1>0 DEF Types, TypeOK, FlowOK
<1>3. /\ stage \in WorkflowStates /\ (stage = "awaiting_review" => p = "issued")
      /\ at[f] + 1 \in 1..Len(stages) /\ (p = "ensure" => at[f] + 1 < Len(stages))
      /\ p \in {"ensure", "issued"}
  <2>1. at[f] + 1 \in 1..Len(stages)  BY <1>1, <1>2
  <2> HIDE DEF stages
  <2> QED  BY <1>1, <1>2, <2>1
<1>4. PICK t \in Ids, entry \in Ids :
        /\ GetActive(t, entry)
        /\ \/ IsOf(t, wf) /\ Update(t, Staged(tasks[t], stage, f)) /\ active' = entry
           \/ /\ ~IsOf(t, wf) /\ Len(tasks) < MaxTasks
              /\ tasks' = Append(tasks, Staged(NewTask(wf), stage, f))
              /\ active' = Len(tasks) + 1
  BY DEF Ensure
<1>5. torn' \in 0..MaxTorn  BY <1>4, Found
<1>6. pc' = [pc EXCEPT ![f] = p] /\ pc'[f] = p
  BY <1>0 DEF Goto, Types, TypeOK
<1> HIDE DEF stages, stage, wf, p
<1>8. /\ tasks' \in Seq(Task) /\ Len(tasks') \in Len(tasks)..MaxTasks
      /\ active' \in 0..Len(tasks')
      /\ \E u \in 1..MaxTasks :
              /\ tasks'[u].status = "active"
              /\ tasks'[u].workflow_state = "awaiting_review" =>
                   pc'[f] = "issued" /\ tasks'[u].confirmation = f
              /\ \/ /\ Touched(u) /\ Live(u)
                    /\ u = active /\ active' = active
                    /\ tasks'[u].proposals = tasks[u].proposals
                    /\ \/ tasks'[u].workflow_state = "awaiting_review"
                       \/ tasks'[u].confirmation = tasks[u].confirmation
                 \/ /\ Started(u)
                    /\ active' = u
                    /\ tasks'[u].proposals = "none"
                    /\ \/ tasks'[u].workflow_state = "awaiting_review"
                       \/ tasks'[u].confirmation = None
  <2>1. CASE IsOf(t, wf) /\ Update(t, Staged(tasks[t], stage, f)) /\ active' = entry
    <3>1. t # 0  BY <2>1 DEF IsOf
    <3>2. t = active /\ Live(t) /\ t \in 1..Len(tasks) /\ entry = t  BY <3>1, <1>4, Found
    <3>3. tasks[t] \in Task  BY <3>2, LenTasks
    <3> DEFINE new == Staged(tasks[t], stage, f)
    <3>4. /\ new \in Task /\ new.status = "active" /\ new.workflow_state = stage
          /\ new.proposals = tasks[t].proposals
          /\ new.confirmation = IF stage = "awaiting_review" THEN f
                                ELSE tasks[t].confirmation
      BY <3>3, <1>3, StagedType
    <3> HIDE DEF new
    <3>5. Touched(t) /\ tasks'[t] = new
      BY <3>2, <3>4, <2>1, LenTasks, UpdateOne DEF new, Touched
    <3>6. t \in 1..MaxTasks /\ Len(tasks') \in Len(tasks)..MaxTasks
      BY <3>2, <3>5, LenTasks DEF Touched
    <3> QED  BY <1>3, <1>6, <2>1, <3>2, <3>4, <3>5, <3>6 DEF Touched
  <2>2. CASE /\ Len(tasks) < MaxTasks
             /\ tasks' = Append(tasks, Staged(NewTask(wf), stage, f))
             /\ active' = Len(tasks) + 1
    <3> DEFINE new == Staged(NewTask(wf), stage, f)
               u == Len(tasks) + 1
    <3>1. NewTask(wf) \in Task  BY <1>1, NewTaskType
    <3>2. NewTask(wf).proposals = "none" /\ NewTask(wf).confirmation = None  BY DEF NewTask
    <3>3. /\ new \in Task /\ new.status = "active" /\ new.workflow_state = stage
          /\ new.proposals = "none"
          /\ new.confirmation = IF stage = "awaiting_review" THEN f ELSE None
      BY <3>1, <3>2, <1>3, StagedType
    <3> HIDE DEF new
    <3>4. Started(u) /\ tasks'[u] = new /\ u \in 1..MaxTasks
      BY <2>2, <3>3, LenTasks, AppendOne DEF new, Started
    <3>5. Len(tasks') \in Len(tasks)..MaxTasks /\ active' \in 0..Len(tasks')
      BY <2>2, <3>4, LenTasks DEF Started
    <3> QED  BY <1>3, <1>6, <2>2, <3>3, <3>4, <3>5 DEF Started
  <2> QED  BY <1>4, <2>1, <2>2
<1>9. Types'
  <2>1. at' \in [Flows -> 0..3] /\ at'[f] = at[f] + 1 /\ \A g \in Flows : g # f => at'[g] = at[g]
    <3>1. at[f] + 1 \in 0..3  BY <1>1, <1>2
    <3> QED  BY <1>0, <3>1 DEF Types, TypeOK
  <2>2. FlowOK(f)'
    BY <1>0, <1>3, <1>6, <2>1 DEF FlowOK, InTurn, fixed, stages
  <2>3. p \in Places /\ p \notin InTurn  BY <1>3 DEF Places, Ended, InTurn
  <2>4. turn # f  BY <1>0, ExecutiveTaskAssumption
  <2> QED
    BY <1>0, <1>5, <1>8, <2>1, <2>2, <2>3, <2>4, FlowStep DEF Types, TypeOK, Ids
<1> QED  BY <1>0, <1>3, <1>6, <1>8, <1>9 DEF fixed

\* The entry after getActiveExecutiveTask.
EntryRead == active' = active \/ (active' = 0 /\ ~Live(active))

LEMMA MarkEffect ==
  ASSUME Types, NEW f \in Flows, Mark(f)
  PROVE  /\ Types'
         /\ turn = None /\ turn' = None
         /\ pc[f] = "mark"
         /\ pc' = [pc EXCEPT ![f] = "writing"] \/ pc' = [pc EXCEPT ![f] = "over"]
         /\ UNCHANGED <<kind, conf, snap, raced, crashes>>
         /\ \/ UNCHANGED <<tasks, applied>> /\ EntryRead
            \/ \E t \in 1..Len(tasks) :
                 /\ Touched(t) /\ Live(t) /\ CanMark(f, t)
                 /\ t = active /\ active' = active
                 /\ applied' = applied \cup {f}
                 /\ tasks'[t].status = "active"
                 /\ tasks'[t].workflow_state # "awaiting_review"
                 /\ tasks'[t].proposals = tasks[t].proposals
                 /\ tasks'[t].confirmation = tasks[t].confirmation
<1>1. PICK t \in Ids, entry \in Ids :
        /\ GetActive(t, entry)
        /\ active' = entry
        /\ \/ /\ CanMark(f, t) /\ Update(t, Marked(tasks[t]))
              /\ marked' = [marked EXCEPT ![f] = t] /\ applied' = applied \cup {f}
              /\ Goto(f, "writing")
           \/ /\ ~CanMark(f, t)
              /\ Goto(f, IF WorkflowOf(f) = "meeting" THEN "writing" ELSE "over")
              /\ UNCHANGED <<tasks, marked, applied>>
  BY DEF Mark
<1>2. /\ pc[f] = "mark" /\ turn = None /\ turn' = None
      /\ UNCHANGED <<turn, fixed, at, conf, capturing, snap, raced, crashes>>
  BY DEF Mark
<1>3. turn # f  BY <1>2, ExecutiveTaskAssumption
<1>4. torn' \in 0..MaxTorn /\ active' \in 0..Len(tasks) /\ EntryRead
  BY <1>1, Found DEF EntryRead
<1>5. CASE CanMark(f, t) /\ Update(t, Marked(tasks[t]))
           /\ marked' = [marked EXCEPT ![f] = t] /\ applied' = applied \cup {f}
           /\ Goto(f, "writing")
  <2>1. t # 0  BY <1>5 DEF CanMark, IsOf
  <2>2. t = active /\ Live(t) /\ t \in 1..Len(tasks) /\ entry = t  BY <2>1, <1>1, Found
  <2>3. tasks[t] \in Task  BY <2>2, LenTasks
  <2> DEFINE new == Marked(tasks[t])
  <2>4. /\ new \in Task /\ new.status = "active"
        /\ new.workflow_state \in {"writing_back", "applying"}
        /\ new.proposals = tasks[t].proposals /\ new.confirmation = tasks[t].confirmation
    BY <2>3, MarkedType
  <2> HIDE DEF new
  <2>5. Touched(t) /\ tasks'[t] = new
    BY <1>5, <2>2, <2>4, LenTasks, UpdateOne DEF new, Touched
  <2>6. Len(tasks') \in Len(tasks)..MaxTasks  BY <2>5, LenTasks DEF Touched
  <2>7. pc'[f] = "writing"  BY <1>5 DEF Goto, Types, TypeOK
  <2>8. FlowOK(f)'  BY <2>7 DEF FlowOK, InTurn
  <2>9. "writing" \in Places /\ "writing" \notin InTurn  BY DEF Places, InTurn
  <2>10. marked' \in [Flows -> Ids] /\ applied' \subseteq Flows
    BY <1>5 DEF Types, TypeOK, Ids
  <2>11. Types'
    BY <1>2, <1>3, <1>4, <1>5, <2>5, <2>6, <2>8, <2>9, <2>10, FlowStep
       DEF Types, TypeOK, Ids, Touched
  <2> QED  BY <1>1, <1>2, <1>5, <2>2, <2>4, <2>5, <2>11 DEF Goto, fixed
<1>6. CASE /\ Goto(f, IF WorkflowOf(f) = "meeting" THEN "writing" ELSE "over")
           /\ UNCHANGED <<tasks, marked, applied>>
  <2> DEFINE p == IF WorkflowOf(f) = "meeting" THEN "writing" ELSE "over"
  <2>1. p \in Places /\ p \notin InTurn /\ p \in {"writing", "over"}
    BY DEF Places, InTurn, Ended
  <2>2. Goto(f, p)  BY <1>6
  <2> HIDE DEF p
  <2>3. pc'[f] = p  BY <2>2 DEF Goto, Types, TypeOK
  <2>4. FlowOK(f)'  BY <2>1, <2>3 DEF FlowOK, InTurn
  <2>5. Len(tasks') \in Len(tasks)..MaxTasks  BY <1>6, LenTasks
  <2>6. Types'
    BY <1>2, <1>3, <1>4, <1>6, <2>1, <2>2, <2>4, <2>5, FlowStep DEF Types, TypeOK, Ids
  <2> QED  BY <1>2, <1>4, <1>6, <2>1, <2>2, <2>6 DEF Goto, fixed
<1> QED  BY <1>1, <1>5, <1>6

LEMMA GateEffect ==
  ASSUME Types, NEW f \in Flows, Gate(f)
  PROVE  /\ Types'
         /\ turn = None
         /\ pc[f] = "finalize"
         /\ UNCHANGED <<kind, conf, applied, raced, crashes>>
         /\ \/ /\ UNCHANGED <<tasks, snap, turn>> /\ EntryRead
               /\ pc' = [pc EXCEPT ![f] = "over"]
            \/ \E t \in 1..Len(tasks) :
                 /\ Touched(t) /\ Live(t)
                 /\ t = active /\ active' = active
                 /\ turn' = f
                 /\ snap' = [snap EXCEPT ![f] = t]
                 /\ pc' = [pc EXCEPT ![f] = "gated"]
                 /\ tasks'[t].status # "active"
                 /\ tasks'[t].workflow_state = tasks[t].workflow_state
                 /\ tasks'[t].proposals = tasks[t].proposals
                 /\ tasks'[t].confirmation = tasks[t].confirmation
<1> DEFINE wf == WorkflowOf(f)
<1>0. wf \in Workflows  BY KindOf DEF KindOK, WorkflowOf
<1>1. PICK t \in Ids, entry \in Ids :
        /\ GetActive(t, entry)
        /\ active' = entry
        /\ \/ /\ IsOf(t, wf)
              /\ \E v \in VerdictsOf(wf) : Update(t, Gated(tasks[t], v))
              /\ snap' = [snap EXCEPT ![f] = t] /\ turn' = f /\ Goto(f, "gated")
           \/ /\ ~IsOf(t, wf) /\ Goto(f, "over")
              /\ UNCHANGED <<tasks, snap, turn>>
  BY DEF Gate
<1>2. pc[f] = "finalize" /\ turn = None /\ UNCHANGED <<flow, raced, crashes>>
  BY DEF Gate
<1>3. turn # f  BY <1>2, ExecutiveTaskAssumption
<1>4. torn' \in 0..MaxTorn /\ active' \in 0..Len(tasks) /\ EntryRead
  BY <1>1, Found DEF EntryRead
<1> HIDE DEF wf
<1>5. ASSUME IsOf(t, wf), NEW v \in VerdictsOf(wf), Update(t, Gated(tasks[t], v)),
             snap' = [snap EXCEPT ![f] = t], turn' = f, Goto(f, "gated")
      PROVE  /\ Types' /\ Touched(t) /\ Live(t)
             /\ t \in 1..Len(tasks) /\ t = active /\ active' = active
             /\ tasks'[t].status # "active"
             /\ tasks'[t].workflow_state = tasks[t].workflow_state
             /\ tasks'[t].proposals = tasks[t].proposals
             /\ tasks'[t].confirmation = tasks[t].confirmation
  <2>1. t # 0  BY <1>5 DEF IsOf
  <2>2. t = active /\ Live(t) /\ t \in 1..Len(tasks) /\ entry = t  BY <2>1, <1>1, Found
  <2>3. tasks[t] \in Task /\ v \in Verdicts  BY <1>0, <2>2, LenTasks, VerdictsType
  <2> DEFINE new == Gated(tasks[t], v)
  <2>4. /\ new \in Task /\ new.status # "active"
        /\ new.workflow_state = tasks[t].workflow_state
        /\ new.proposals = tasks[t].proposals /\ new.confirmation = tasks[t].confirmation
    BY <2>3, GatedType
  <2> HIDE DEF new
  <2>5. Touched(t) /\ tasks'[t] = new
    BY <1>5, <2>2, <2>4, LenTasks, UpdateOne DEF new, Touched
  <2>6. Len(tasks') \in Len(tasks)..MaxTasks  BY <2>5, LenTasks DEF Touched
  <2>7. pc'[f] = "gated"  BY <1>5 DEF Goto, Types, TypeOK
  <2>8. snap' \in [Flows -> Ids] /\ snap'[f] = t /\ \A g \in Flows : g # f => snap'[g] = snap[g]
    BY <1>5 DEF Types, TypeOK, Ids
  <2>9. FlowOK(f)'  BY <1>5, <2>2, <2>5, <2>7, <2>8 DEF FlowOK, InTurn, Touched
  <2>10. "gated" \in Places /\ "gated" \in InTurn  BY DEF Places, InTurn
  <2>11. Types'
    BY <1>2, <1>4, <1>5, <2>5, <2>6, <2>8, <2>9, <2>10, FlowStep
       DEF Types, TypeOK, Ids, Touched, flow
  <2> QED  BY <1>1, <2>2, <2>4, <2>5, <2>11
<1>6. CASE Goto(f, "over") /\ UNCHANGED <<tasks, snap, turn>>
  <2>1. "over" \in Places /\ "over" \notin InTurn  BY DEF Places, InTurn, Ended
  <2>2. pc'[f] = "over"  BY <1>6 DEF Goto, Types, TypeOK
  <2>3. FlowOK(f)'  BY <2>2 DEF FlowOK, InTurn
  <2>4. Len(tasks') \in Len(tasks)..MaxTasks  BY <1>6, LenTasks
  <2>5. Types'
    BY <1>2, <1>3, <1>4, <1>6, <2>1, <2>3, <2>4, FlowStep DEF Types, TypeOK, Ids, flow
  <2> QED  BY <1>2, <1>4, <1>6, <2>5 DEF Goto, fixed, flow
<1> QED  BY <1>1, <1>2, <1>5, <1>6 DEF Goto, flow, fixed

\* The end of an entry point.
LEMMA TurnEnds ==
  ASSUME Types, NEW f \in Flows, pc[f] \in InTurn, turn' = None, Goto(f, "over"),
         UNCHANGED <<flow, snap, raced, torn, crashes>>,
         tasks' \in Seq(Task), Len(tasks') = Len(tasks), active' \in 0..Len(tasks)
  PROVE  Types'
<1>1. turn = f  BY DEF Types, FlowOK
<1>2. "over" \in Places /\ "over" \notin InTurn  BY DEF Places, InTurn, Ended
<1>3. pc'[f] = "over"  BY DEF Goto, Types, TypeOK
<1>4. FlowOK(f)'  BY <1>3 DEF FlowOK, InTurn
<1>5. Len(tasks') \in Len(tasks)..MaxTasks  BY LenTasks
<1> QED  BY <1>1, <1>2, <1>4, <1>5, FlowStep DEF Types, TypeOK, Ids, flow

LEMMA RecoverEffect ==
  ASSUME Types, NEW f \in Flows, Recover(f)
  PROVE  /\ Types'
         /\ turn = f /\ turn' = None
         /\ pc[f] = "gated" /\ pc' = [pc EXCEPT ![f] = "over"]
         /\ UNCHANGED <<kind, conf, applied, snap, raced, crashes>>
         /\ Touched(snap[f])
         /\ tasks'[snap[f]].workflow_state # "awaiting_review"
         /\ tasks'[snap[f]].proposals = tasks[snap[f]].proposals
         /\ tasks'[snap[f]].confirmation = tasks[snap[f]].confirmation
         /\ \/ active' = active
            \/ /\ active' = 0 /\ active = snap[f]
               /\ tasks[snap[f]].status # "active" /\ tasks'[snap[f]].status # "active"
<1> DEFINE t == snap[f]
           done == [tasks[t] EXCEPT !.workflow_state = "completed"]
           new == IF tasks[t].status = "completed" THEN done ELSE Recovered(tasks[t])
<1>1. /\ pc[f] = "gated" /\ turn' = None /\ Goto(f, "over")
      /\ Update(t, new) /\ active' = EntryAfterFinalize(t)
      /\ UNCHANGED <<flow, snap, raced, torn, crashes>>
  BY DEF Recover
<1>2. turn = f /\ t \in 1..Len(tasks)  BY <1>1 DEF Types, FlowOK, InTurn
<1>3. tasks[t] \in Task  BY <1>2, LenTasks
<1>4. /\ done \in Task /\ done.workflow_state = "completed"
      /\ done.proposals = tasks[t].proposals /\ done.confirmation = tasks[t].confirmation
      /\ done.status = tasks[t].status
  BY <1>3 DEF Task, WorkflowStates
<1> HIDE DEF done
<1>5. /\ new \in Task /\ new.workflow_state # "awaiting_review"
      /\ new.proposals = tasks[t].proposals /\ new.confirmation = tasks[t].confirmation
      /\ tasks[t].status = "completed" => new.status = "completed"
  BY <1>3, <1>4, RecoveredType
<1> HIDE DEF new
<1>6. Touched(t) /\ tasks'[t] = new
  BY <1>1, <1>2, <1>5, LenTasks, UpdateOne DEF Touched
<1>7. /\ active' \in 0..Len(tasks)
      /\ active' = active \/ (active' = 0 /\ active = t /\ tasks[t].status = "completed")
  BY <1>1 DEF EntryAfterFinalize, Types, TypeOK
<1>8. Types'  BY <1>1, <1>6, <1>7, TurnEnds DEF Touched, InTurn
<1> QED  BY <1>1, <1>2, <1>5, <1>6, <1>7, <1>8 DEF Goto, flow, fixed

LEMMA ExecEndEffect ==
  ASSUME Types, NEW f \in Flows, ExecEnd(f)
  PROVE  /\ Types'
         /\ turn = f /\ turn' = None
         /\ pc[f] = "executing" /\ pc' = [pc EXCEPT ![f] = "over"]
         /\ UNCHANGED <<active, kind, conf, applied, snap, raced, crashes>>
         /\ \/ UNCHANGED tasks
            \/ /\ Touched(snap[f])
               /\ tasks'[snap[f]].status # "active"
               /\ tasks'[snap[f]].workflow_state = tasks[snap[f]].workflow_state
               /\ tasks'[snap[f]].confirmation = tasks[snap[f]].confirmation
<1> DEFINE t == snap[f]
<1>1. /\ pc[f] = "executing" /\ turn' = None /\ Goto(f, "over")
      /\ UNCHANGED <<active, flow, snap, raced, torn, crashes>>
      /\ \/ UNCHANGED tasks
         \/ \E v \in VerdictsOf("executive"), p \in {"none", "pending", "applied"} :
              Update(t, TurnFinalized(tasks[t], v, p))
  BY DEF ExecEnd
<1>2. turn = f /\ t \in 1..Len(tasks)  BY <1>1 DEF Types, FlowOK, InTurn
<1>3. tasks[t] \in Task /\ active \in 0..Len(tasks)
  BY <1>2, LenTasks DEF Types, TypeOK
<1>4. CASE UNCHANGED tasks
  <2>1. Types'  BY <1>1, <1>3, <1>4, LenTasks, TurnEnds DEF InTurn
  <2> QED  BY <1>1, <1>2, <1>4, <2>1 DEF Goto, flow, fixed
<1>5. ASSUME NEW v \in VerdictsOf("executive"), NEW p \in {"none", "pending", "applied"},
             Update(t, TurnFinalized(tasks[t], v, p))
      PROVE  /\ Types' /\ Touched(t)
             /\ tasks'[t].status # "active"
             /\ tasks'[t].workflow_state = tasks[t].workflow_state
             /\ tasks'[t].confirmation = tasks[t].confirmation
  <2>1. v \in Verdicts  BY VerdictsType DEF Workflows
  <2> DEFINE new == TurnFinalized(tasks[t], v, p)
  <2>2. /\ new \in Task /\ new.status # "active"
        /\ new.workflow_state = tasks[t].workflow_state
        /\ new.confirmation = tasks[t].confirmation
    BY <1>3, <2>1, TurnFinalizedType
  <2> HIDE DEF new
  <2>3. Touched(t) /\ tasks'[t] = new
    BY <1>2, <1>5, <2>2, LenTasks, UpdateOne DEF new, Touched
  <2>4. Types'  BY <1>1, <1>3, <2>3, TurnEnds DEF Touched, InTurn
  <2> QED  BY <2>2, <2>3, <2>4
<1> QED  BY <1>1, <1>2, <1>4, <1>5 DEF Goto, flow, fixed

LEMMA ExecBeginEffect ==
  ASSUME Types, NEW f \in Flows, ExecBegin(f)
  PROVE  /\ Types'
         /\ turn = None
         /\ pc[f] = "exec"
         /\ UNCHANGED <<kind, conf, applied, raced, crashes>>
         /\ \/ /\ pc' = [pc EXCEPT ![f] = "over"]
               /\ UNCHANGED <<tasks, turn, snap>> /\ EntryRead
            \/ /\ pc' = [pc EXCEPT ![f] = "over"]
               /\ UNCHANGED <<turn, snap>>
               /\ Touched(active) /\ Live(active)
               /\ active' = 0
               /\ tasks'[active].status # "active"
               /\ tasks'[active].workflow_state # "awaiting_review"
               /\ tasks'[active].proposals = tasks[active].proposals
               /\ tasks'[active].confirmation = tasks[active].confirmation
            \/ /\ pc' = [pc EXCEPT ![f] = "executing"]
               /\ turn' = f
               /\ snap' = [snap EXCEPT ![f] = active']
               /\ tasks'[active'].status = "active"
               /\ tasks'[active'].workflow_state # "awaiting_review"
               /\ \/ /\ Touched(active) /\ Live(active) /\ active' = active
                     /\ tasks'[active].proposals = tasks[active].proposals
                     /\ tasks'[active].confirmation = tasks[active].confirmation
                  \/ /\ Started(active')
                     /\ tasks'[active'].proposals = "none"
                     /\ tasks'[active'].confirmation = None
<1>1. PICK t \in Ids, entry \in Ids :
        /\ GetActive(t, entry)
        /\ \/ Goto(f, "over") /\ active' = entry /\ UNCHANGED <<tasks, turn, snap>>
           \/ /\ t # 0 /\ Update(t, Closed(tasks[t])) /\ active' = 0
              /\ Goto(f, "over") /\ UNCHANGED <<turn, snap>>
           \/ /\ t # 0 /\ Update(t, Continued(tasks[t])) /\ active' = entry
              /\ snap' = [snap EXCEPT ![f] = t] /\ turn' = f /\ Goto(f, "executing")
           \/ /\ Len(tasks) < MaxTasks
              /\ tasks' = Append(tasks, Continued(NewTask("executive")))
              /\ active' = Len(tasks) + 1
              /\ snap' = [snap EXCEPT ![f] = Len(tasks) + 1] /\ turn' = f
              /\ Goto(f, "executing")
  BY DEF ExecBegin
<1>2. pc[f] = "exec" /\ turn = None /\ UNCHANGED <<flow, raced, crashes>>
  BY DEF ExecBegin
<1>3. turn # f  BY <1>2, ExecutiveTaskAssumption
<1>4. torn' \in 0..MaxTorn  BY <1>1, Found
<1>5. t # 0 => t = active /\ Live(t) /\ t \in 1..Len(tasks) /\ entry = t /\ tasks[t] \in Task
  BY <1>1, Found, LenTasks
<1>6. /\ "over" \in Places /\ "over" \notin InTurn
      /\ "executing" \in Places /\ "executing" \in InTurn
  BY DEF Places, InTurn, Ended
<1>7. ASSUME Goto(f, "over"), UNCHANGED <<turn, snap>>,
             tasks' \in Seq(Task), Len(tasks') = Len(tasks), active' \in 0..Len(tasks)
      PROVE  Types'
  <2>1. pc'[f] = "over"  BY <1>7 DEF Goto, Types, TypeOK
  <2>2. FlowOK(f)'  BY <2>1 DEF FlowOK, InTurn
  <2>3. Len(tasks') \in Len(tasks)..MaxTasks  BY <1>7, LenTasks
  <2> QED
    BY <1>2, <1>3, <1>4, <1>6, <1>7, <2>2, <2>3, FlowStep DEF Types, TypeOK, Ids, flow
<1>8. ASSUME Goto(f, "executing"), turn' = f, active' \in 1..Len(tasks'),
             snap' = [snap EXCEPT ![f] = active'],
             tasks' \in Seq(Task), Len(tasks') \in Len(tasks)..MaxTasks
      PROVE  Types'
  <2>1. pc'[f] = "executing"  BY <1>8 DEF Goto, Types, TypeOK
  <2>2. active' \in Ids  BY <1>8, LenTasks DEF Ids
  <2>3. snap' \in [Flows -> Ids] /\ snap'[f] = active' /\ \A g \in Flows : g # f => snap'[g] = snap[g]
    BY <1>8, <2>2 DEF Types, TypeOK, Ids
  <2>4. FlowOK(f)'  BY <1>8, <2>1, <2>3 DEF FlowOK, InTurn
  <2>5. active' \in 0..Len(tasks')  BY <1>8, LenTasks
  <2> QED
    BY <1>2, <1>4, <1>6, <1>8, <2>3, <2>4, <2>5, FlowStep DEF Types, TypeOK, Ids, flow
<1>9. CASE Goto(f, "over") /\ active' = entry /\ UNCHANGED <<tasks, turn, snap>>
  <2>1. active' \in 0..Len(tasks) /\ EntryRead  BY <1>1, <1>9, Found DEF EntryRead
  <2>2. Types'  BY <1>7, <1>9, <2>1, LenTasks
  <2> QED  BY <1>2, <1>9, <2>1, <2>2 DEF Goto, flow, fixed
<1>10. CASE /\ t # 0 /\ Update(t, Closed(tasks[t])) /\ active' = 0
            /\ Goto(f, "over") /\ UNCHANGED <<turn, snap>>
  <2> DEFINE new == Closed(tasks[t])
  <2>1. /\ new \in Task /\ new.status = "ended_by_user" /\ new.workflow_state = "inactive"
        /\ new.proposals = tasks[t].proposals /\ new.confirmation = tasks[t].confirmation
    BY <1>5, <1>10, ClosedType
  <2> HIDE DEF new
  <2>2. Touched(t) /\ tasks'[t] = new
    BY <1>5, <1>10, <2>1, LenTasks, UpdateOne DEF new, Touched
  <2>3. Types'  BY <1>7, <1>10, <2>2, LenTasks DEF Touched
  <2> QED  BY <1>2, <1>5, <1>10, <2>1, <2>2, <2>3 DEF Goto, flow, fixed
<1>11. CASE /\ t # 0 /\ Update(t, Continued(tasks[t])) /\ active' = entry
            /\ snap' = [snap EXCEPT ![f] = t] /\ turn' = f /\ Goto(f, "executing")
  <2> DEFINE new == Continued(tasks[t])
  <2>1. /\ new \in Task /\ new.status = tasks[t].status /\ new.workflow_state = "active"
        /\ new.proposals = tasks[t].proposals /\ new.confirmation = tasks[t].confirmation
    BY <1>5, <1>11, ContinuedType
  <2> HIDE DEF new
  <2>2. Touched(t) /\ tasks'[t] = new
    BY <1>5, <1>11, <2>1, LenTasks, UpdateOne DEF new, Touched
  <2>3. active' = active /\ active' = t /\ active' \in 1..Len(tasks')
        /\ Len(tasks') \in Len(tasks)..MaxTasks
    BY <1>5, <1>11, <2>2, LenTasks DEF Touched
  <2>4. Types'  BY <1>8, <1>11, <2>2, <2>3 DEF Touched
  <2>5. tasks[t].status = "active"  BY <1>5, <1>11 DEF Live
  <2> QED  BY <1>2, <1>5, <1>11, <2>1, <2>2, <2>3, <2>4, <2>5 DEF Goto, flow, fixed
<1>12. CASE /\ Len(tasks) < MaxTasks
            /\ tasks' = Append(tasks, Continued(NewTask("executive")))
            /\ active' = Len(tasks) + 1
            /\ snap' = [snap EXCEPT ![f] = Len(tasks) + 1] /\ turn' = f
            /\ Goto(f, "executing")
  <2> DEFINE init == NewTask("executive")
             new == Continued(init)
  <2>1. init \in Task  BY NewTaskType DEF Workflows
  <2>2. init.status = "active" /\ init.proposals = "none" /\ init.confirmation = None
    BY DEF NewTask
  <2>3. /\ new \in Task /\ new.status = "active" /\ new.workflow_state = "active"
        /\ new.proposals = "none" /\ new.confirmation = None
    <3> HIDE DEF init
    <3> QED  BY <2>1, <2>2, ContinuedType
  <2> HIDE DEF new
  <2>4. Started(active') /\ tasks'[active'] = new
    BY <1>12, <2>3, LenTasks, AppendOne DEF new, Started
  <2>5. active' \in 1..Len(tasks') /\ Len(tasks') \in Len(tasks)..MaxTasks
    BY <2>4, LenTasks DEF Started
  <2>6. Types'  BY <1>8, <1>12, <2>4, <2>5 DEF Started
  <2> QED  BY <1>2, <1>12, <2>3, <2>4, <2>6 DEF Goto, flow, fixed
<1> QED  BY <1>1, <1>9, <1>10, <1>11, <1>12

\* Where a flow goes outside the entry points.
QuietPlaces == States \cup {"route", "cleanup", "cleared", "finalize"}

\* A step of flow f outside the entry points.
LEMMA QuietTypes ==
  ASSUME Types, NEW f \in Flows, NEW p \in QuietPlaces, Goto(f, p), pc[f] \notin InTurn,
         UNCHANGED <<tasks, turn, fixed, at, marked, applied, crashes>>,
         active' \in 0..Len(tasks),
         snap' \in [Flows -> Ids], \A g \in Flows : g # f => snap'[g] = snap[g],
         conf' \in [Flows -> Flows \cup {None}], capturing' \in {"yes", "no"},
         raced' \in {"yes", "no"}, torn' \in 0..MaxTorn,
         p = "route" => at[f] = 0,
         p = "ensure" => at[f] < Len(Kinds[kind[f]].stages),
         p = "cleanup" => at[f] = 0 /\ snap'[f] \in 1..Len(tasks)
  PROVE  Types'
<1>1. p \in Places /\ p \notin InTurn \cup {"new"}
  BY DEF QuietPlaces, States, Places, InTurn, Ended
<1>2. turn # f  BY ExecutiveTaskAssumption DEF Types, TypeOK, InTurn
<1>3. pc'[f] = p  BY DEF Goto, Types, TypeOK
<1>4. FlowOK(f)'  BY <1>1, <1>3 DEF FlowOK, InTurn, fixed
<1>5. Len(tasks') \in Len(tasks)..MaxTasks  BY LenTasks
<1> QED  BY <1>1, <1>2, <1>4, <1>5, FlowStep DEF Types, TypeOK, Ids

\* What an unqueued read changes.
ReadStep(f) ==
  \/ /\ \E p \in States \cup {"route"} : pc' = [pc EXCEPT ![f] = p]
     /\ UNCHANGED <<snap, raced>>
  \/ /\ Stale(active)
     /\ pc' = [pc EXCEPT ![f] = "cleanup"]
     /\ snap' = [snap EXCEPT ![f] = active]
     /\ raced' = IF Finalizing(active) THEN "yes" ELSE raced

\* What a step outside the entry points changes.
QuietStep(f) ==
  /\ UNCHANGED <<tasks, turn, kind, applied, crashes>>
  /\ pc[f] \notin InTurn \cup {"issued", "cleared"}
  /\ \/ UNCHANGED conf
     \/ /\ pc[f] = "new" /\ kind[f] = "rewrite_apply"
        /\ \E g \in Flows : conf' = [conf EXCEPT ![f] = g]
  /\ \/ UNCHANGED active /\ ReadStep(f)
     \/ /\ pc' = [pc EXCEPT ![f] = "finalize"]
        /\ UNCHANGED <<active, snap, raced>>
     \/ /\ pc' = [pc EXCEPT ![f] = "cleared"]
        /\ active' = 0
        /\ UNCHANGED <<snap, raced>>
     \/ /\ pc[f] = "cleanup"
        /\ \E p \in States : pc' = [pc EXCEPT ![f] = p]
        /\ active' = EntryAfterCleanup(snap[f])
        /\ UNCHANGED <<snap, raced>>

LEMMA FirstPlace ==
  ASSUME Types, NEW f \in Flows, at[f] = 0,
         NEW p, p = Kinds[kind[f]].first \/ p = WithoutTask(f)
  PROVE  /\ p \in States
         /\ p \in QuietPlaces /\ p \notin {"route", "cleanup"}
         /\ p = "ensure" => at[f] < Len(Kinds[kind[f]].stages)
<1>1. KindOK(Kinds[kind[f]])  BY KindOf
<1>2. p = Kinds[kind[f]].first \/ p = "over"  BY DEF WithoutTask
<1>3. p \in States  BY <1>1, <1>2 DEF KindOK, States
<1> QED  BY <1>1, <1>2, <1>3 DEF KindOK, QuietPlaces, States

\* The flow goes to one of its first places.
LEMMA GoFirst ==
  ASSUME Types, NEW f \in Flows, pc[f] \in {"new", "route", "cleanup"},
         NEW p, p = Kinds[kind[f]].first \/ p = WithoutTask(f) \/ p = "over"
                \/ (p = "mark"),
         Goto(f, p), UNCHANGED <<tasks, turn, fixed, at, marked, applied, crashes, snap>>,
         active' \in 0..Len(tasks), conf' \in [Flows -> Flows \cup {None}],
         capturing' \in {"yes", "no"}, raced' = raced, torn' \in 0..MaxTorn
  PROVE  Types' /\ p \in States
<1>1. at[f] = 0 /\ pc[f] \notin InTurn  BY DEF Types, FlowOK, InTurn
<1>2. /\ p \in States /\ p \in QuietPlaces /\ p \notin {"route", "cleanup"}
      /\ p = "ensure" => at[f] < Len(Kinds[kind[f]].stages)
  BY <1>1, FirstPlace DEF States, QuietPlaces
<1> QED  BY <1>1, <1>2, QuietTypes DEF Types, TypeOK, Ids

\* The read found an entry that is out of date.
LEMMA GoCleanup ==
  ASSUME Types, NEW f \in Flows, pc[f] \in {"new", "route"}, Stale(active), Goto(f, "cleanup"),
         snap' = [snap EXCEPT ![f] = active],
         UNCHANGED <<tasks, active, turn, fixed, at, marked, applied, capturing, crashes, torn>>,
         conf' \in [Flows -> Flows \cup {None}], raced' \in {"yes", "no"}
  PROVE  Types'
<1>1. at[f] = 0 /\ pc[f] \notin InTurn  BY DEF Types, FlowOK, InTurn
<1>2. active \in 1..Len(tasks)  BY DEF Stale, Types, TypeOK
<1>3. active \in Ids  BY <1>2, LenTasks DEF Ids
<1>4. snap' \in [Flows -> Ids] /\ snap'[f] = active /\ \A g \in Flows : g # f => snap'[g] = snap[g]
  BY <1>3 DEF Types, TypeOK, Ids
<1>5. "cleanup" \in QuietPlaces  BY DEF QuietPlaces
<1> QED  BY <1>1, <1>2, <1>4, <1>5, QuietTypes DEF Types, TypeOK

LEMMA RouteEffect ==
  ASSUME Types, NEW f \in Flows, Route(f)
  PROVE  Types' /\ QuietStep(f)
<1> DEFINE q(t) == IF IsOf(t, "cloud_doc") THEN Kinds[kind[f]].first ELSE WithoutTask(f)
<1>1. pc[f] = "route" /\ UNCHANGED <<tasks, active, turn, flow, crashes>>  BY DEF Route
<1>2. \/ Goto(f, q(active)) /\ UNCHANGED <<snap, raced, torn>>
      \/ torn < MaxTorn /\ torn' = torn + 1 /\ Goto(f, q(0)) /\ UNCHANGED <<snap, raced>>
      \/ /\ Stale(active) /\ Goto(f, "cleanup") /\ snap' = [snap EXCEPT ![f] = active]
         /\ raced' = (IF Finalizing(active) THEN "yes" ELSE raced) /\ UNCHANGED torn
  BY DEF Route, ReadActive, Finalizing
<1>3. ASSUME NEW t, Goto(f, q(t)), UNCHANGED <<snap, raced>>, torn' \in 0..MaxTorn
      PROVE  Types' /\ q(t) \in States /\ pc' = [pc EXCEPT ![f] = q(t)]
  <2>1. q(t) = Kinds[kind[f]].first \/ q(t) = WithoutTask(f)  OBVIOUS
  <2> HIDE DEF q
  <2> QED  BY <1>1, <1>3, <2>1, GoFirst DEF Types, TypeOK, flow, Goto
<1>4. torn \in 0..MaxTorn /\ (torn < MaxTorn => torn + 1 \in 0..MaxTorn)
  BY ExecutiveTaskAssumption DEF Types, TypeOK
<1>5. Types' /\ ReadStep(f)
  <2>1. CASE Stale(active) /\ Goto(f, "cleanup") /\ snap' = [snap EXCEPT ![f] = active]
             /\ raced' = (IF Finalizing(active) THEN "yes" ELSE raced) /\ UNCHANGED torn
    BY <1>1, <2>1, GoCleanup DEF Types, TypeOK, flow, ReadStep, Goto
  <2> HIDE DEF q
  <2> QED  BY <1>2, <1>3, <1>4, <2>1 DEF ReadStep
<1> QED  BY <1>1, <1>5 DEF QuietStep, flow, fixed, InTurn

LEMMA LoadApplyEffect ==
  ASSUME Types, NEW f \in Flows, LoadApply(f)
  PROVE  Types' /\ QuietStep(f)
<1>1. /\ pc[f] = "new" /\ kind[f] = "rewrite_apply"
      /\ UNCHANGED <<tasks, active, turn, fixed, at, marked, applied, capturing, crashes>>
  BY DEF LoadApply
<1>2. PICK g \in Flows :
        /\ conf' = [conf EXCEPT ![f] = g]
        /\ ReadActive(f, LAMBDA t : IF ReviewReady(t, g) THEN "mark" ELSE "over")
  BY DEF LoadApply
<1> DEFINE q(t) == IF ReviewReady(t, g) THEN "mark" ELSE "over"
<1>3. \/ Goto(f, q(active)) /\ UNCHANGED <<snap, raced, torn>>
      \/ torn < MaxTorn /\ torn' = torn + 1 /\ Goto(f, q(0)) /\ UNCHANGED <<snap, raced>>
      \/ /\ Stale(active) /\ Goto(f, "cleanup") /\ snap' = [snap EXCEPT ![f] = active]
         /\ raced' = (IF Finalizing(active) THEN "yes" ELSE raced) /\ UNCHANGED torn
  BY <1>2 DEF ReadActive, Finalizing
<1>4. conf' \in [Flows -> Flows \cup {None}]  BY <1>2 DEF Types, TypeOK
<1>5. ASSUME NEW t, Goto(f, q(t)), UNCHANGED <<snap, raced>>, torn' \in 0..MaxTorn
      PROVE  Types' /\ q(t) \in States /\ pc' = [pc EXCEPT ![f] = q(t)]
  <2>1. q(t) = "mark" \/ q(t) = "over"  OBVIOUS
  <2> HIDE DEF q
  <2> QED  BY <1>1, <1>4, <1>5, <2>1, GoFirst DEF Types, TypeOK, Goto
<1>6. torn \in 0..MaxTorn /\ (torn < MaxTorn => torn + 1 \in 0..MaxTorn)
  BY ExecutiveTaskAssumption DEF Types, TypeOK
<1>7. Types' /\ ReadStep(f)
  <2>1. CASE Stale(active) /\ Goto(f, "cleanup") /\ snap' = [snap EXCEPT ![f] = active]
             /\ raced' = (IF Finalizing(active) THEN "yes" ELSE raced) /\ UNCHANGED torn
    BY <1>1, <1>4, <2>1, GoCleanup DEF Types, TypeOK, ReadStep, Goto
  <2> HIDE DEF q
  <2> QED  BY <1>3, <1>5, <1>6, <2>1 DEF ReadStep
<1> QED  BY <1>1, <1>2, <1>7 DEF QuietStep, fixed, InTurn

LEMMA CleanupEffect ==
  ASSUME Types, NEW f \in Flows, Cleanup(f)
  PROVE  Types' /\ QuietStep(f)
<1>1. /\ pc[f] = "cleanup" /\ active' = EntryAfterCleanup(snap[f])
      /\ Goto(f, WithoutTask(f))
      /\ UNCHANGED <<tasks, turn, flow, snap, raced, torn, crashes>>
  BY DEF Cleanup
<1>2. active' \in 0..Len(tasks)  BY <1>1 DEF EntryAfterCleanup, Types, TypeOK
<1>3. Types' /\ WithoutTask(f) \in States
  BY <1>1, <1>2, GoFirst DEF Types, TypeOK, flow
<1> QED  BY <1>1, <1>3 DEF QuietStep, flow, fixed, InTurn, Goto

LEMMA ArriveEffect ==
  ASSUME Types, NEW f \in Flows, Arrive(f)
  PROVE  Types' /\ QuietStep(f)
<1> DEFINE p == IF kind[f] = "meeting_stop" /\ capturing = "no" THEN "over"
                ELSE Kinds[kind[f]].first
<1>1. /\ pc[f] = "new" /\ Goto(f, p) /\ capturing' = CapturingAfter(f)
      /\ UNCHANGED <<tasks, active, turn, fixed, at, conf, marked, applied, snap, raced,
                     torn, crashes>>
  BY DEF Arrive
<1>2. p = Kinds[kind[f]].first \/ p = "over"  OBVIOUS
<1>3. capturing' \in {"yes", "no"}  BY <1>1 DEF CapturingAfter, Types, TypeOK
<1> HIDE DEF p
<1>4. Types' /\ p \in States  BY <1>1, <1>2, <1>3, GoFirst DEF Types, TypeOK
<1> QED  BY <1>1, <1>4 DEF QuietStep, ReadStep, fixed, InTurn, Goto

LEMMA PassCaptureEffect ==
  ASSUME Types, NEW f \in Flows, PassCapture(f)
  PROVE  Types' /\ QuietStep(f)
<1>1. /\ pc[f] = "new" /\ UNCHANGED <<tasks, active, turn, flow, snap, raced, torn, crashes>>
      /\ Goto(f, "over") \/ Goto(f, "route")
  BY DEF PassCapture
<1>2. at[f] = 0 /\ pc[f] \notin InTurn  BY <1>1 DEF Types, FlowOK, InTurn
<1>3. ASSUME NEW p \in {"over", "route"}, Goto(f, p)  PROVE Types'
  <2>1. p \in QuietPlaces /\ p # "ensure" /\ p # "cleanup"
    BY DEF QuietPlaces, States
  <2> QED  BY <1>1, <1>2, <1>3, <2>1, QuietTypes DEF Types, TypeOK, Ids, flow
<1> QED  BY <1>1, <1>3 DEF QuietStep, ReadStep, States, flow, fixed, InTurn, Goto

LEMMA PlainEffect ==
  ASSUME Types, NEW f \in Flows, Abandon(f) \/ Write(f) \/ Clear(f)
  PROVE  Types' /\ QuietStep(f)
<1>1. /\ pc[f] \in {"ensure", "mark", "writing"}
      /\ UNCHANGED <<tasks, turn, flow, snap, raced, torn, crashes>>
      /\ \/ Goto(f, "over") /\ UNCHANGED active
         \/ Goto(f, "finalize") /\ UNCHANGED active
         \/ Goto(f, "cleared") /\ active' = 0
  BY DEF Abandon, Write, Clear
<1>2. active' \in 0..Len(tasks)  BY <1>1, LenTasks DEF Types, TypeOK
<1>3. ASSUME NEW p \in {"over", "finalize", "cleared"}, Goto(f, p)  PROVE Types'
  <2>1. p \in QuietPlaces /\ p # "ensure" /\ p # "cleanup" /\ pc[f] \notin InTurn
    BY <1>1 DEF QuietPlaces, States, InTurn
  <2> QED  BY <1>1, <1>2, <1>3, <2>1, QuietTypes DEF Types, TypeOK, Ids, flow
<1> QED  BY <1>1, <1>3 DEF QuietStep, ReadStep, States, flow, fixed, InTurn, Goto

\* Time, and improvements, touch one task.
LEMMA ExpireEffect ==
  ASSUME Types, NEW t \in 1..Len(tasks), Expire(t)
  PROVE  /\ Types' /\ Touched(t)
         /\ UNCHANGED <<active, turn, kind, conf, applied, pc, snap, raced, crashes>>
         /\ tasks'[t].status = tasks[t].status
         /\ tasks'[t].expired = "yes"
         /\ tasks'[t].workflow_state = tasks[t].workflow_state
         /\ tasks'[t].proposals = tasks[t].proposals
         /\ tasks'[t].confirmation = tasks[t].confirmation
<1> DEFINE new == [tasks[t] EXCEPT !.expired = "yes"]
<1>1. /\ Update(t, new)
      /\ UNCHANGED <<active, turn, flow, pc, snap, raced, torn, crashes>>
  BY DEF Expire
<1>2. /\ new \in Task /\ new.status = tasks[t].status /\ new.expired = "yes"
      /\ new.workflow_state = tasks[t].workflow_state
      /\ new.proposals = tasks[t].proposals /\ new.confirmation = tasks[t].confirmation
  BY LenTasks DEF Task
<1> HIDE DEF new
<1>3. Touched(t) /\ tasks'[t] = new  BY <1>1, <1>2, LenTasks, UpdateOne DEF Touched
<1>4. Types'  BY <1>1, <1>3, TaskStep DEF Touched
<1> QED  BY <1>1, <1>2, <1>3, <1>4 DEF flow, fixed

LEMMA ImproveEffect ==
  ASSUME Types, NEW t \in 1..Len(tasks), ApplyImprovement(t)
  PROVE  /\ Types' /\ Touched(t)
         /\ UNCHANGED <<active, turn, kind, conf, applied, pc, snap, raced, crashes>>
         /\ tasks[t].proposals = "pending"
         /\ tasks'[t].status \in {tasks[t].status, "improved"}
         /\ tasks'[t].workflow_state = tasks[t].workflow_state
         /\ tasks'[t].confirmation = tasks[t].confirmation
<1> DEFINE life == Transition(tasks[t].lifecycle_state, "improved")
           status == IF life = "improved" THEN "improved" ELSE tasks[t].status
           new == [tasks[t] EXCEPT !.proposals = "applied", !.lifecycle_state = life,
                                   !.status = status, !.expired = "no"]
<1>0. tasks[t] \in Task  BY LenTasks
<1>1. /\ tasks[t].proposals = "pending" /\ Update(t, new)
      /\ UNCHANGED <<active, turn, flow, pc, snap, raced, torn, crashes>>
  BY DEF ApplyImprovement
<1>2. life \in Lifecycle  BY <1>0, TransitionType DEF Task
<1>3. status \in {tasks[t].status, "improved"}  OBVIOUS
<1> HIDE DEF life, status
<1>4. /\ new \in Task /\ new.status = status
      /\ new.workflow_state = tasks[t].workflow_state
      /\ new.confirmation = tasks[t].confirmation
  BY <1>0, <1>2, <1>3 DEF Task
<1> HIDE DEF new
<1>5. Touched(t) /\ tasks'[t] = new  BY <1>1, <1>4, LenTasks, UpdateOne DEF Touched
<1>6. Types'  BY <1>1, <1>5, TaskStep DEF Touched
<1> QED  BY <1>1, <1>3, <1>4, <1>5, <1>6 DEF flow, fixed

\* The steps outside the entry points.
Quiet(f) ==
  \/ Arrive(f) \/ PassCapture(f) \/ Route(f) \/ LoadApply(f) \/ Cleanup(f) \/ Abandon(f) \/ Clear(f)
  \/ Write(f)

LEMMA QuietEffect ==
  ASSUME Types, NEW f \in Flows, Quiet(f)
  PROVE  Types' /\ QuietStep(f)
BY ArriveEffect, PassCaptureEffect, RouteEffect, LoadApplyEffect, CleanupEffect, PlainEffect DEF Quiet

LEMMA TypesNext ==
  ASSUME Types, [Next]_vars
  PROVE  Types'
<1>1. CASE UNCHANGED vars
  BY <1>1 DEF Types, TypeOK, FlowOK, vars, flow, fixed, KindsIn
<1>2. CASE Crash  BY <1>2, TypesCrash
<1>3. ASSUME NEW f \in Flows, Step(f)  PROVE Types'
  BY <1>3, QuietEffect, EnsureEffect, MarkEffect, GateEffect, RecoverEffect,
     ExecBeginEffect, ExecEndEffect DEF Step, Quiet
<1>4. ASSUME NEW t \in 1..Len(tasks), Expire(t) \/ ApplyImprovement(t)  PROVE Types'
  BY <1>4, ExpireEffect, ImproveEffect
<1> QED  BY <1>1, <1>2, <1>3, <1>4 DEF Next

\* The records of executive-task-state and the flows keep their types.
THEOREM ExecTypeCorrect == Spec => []TypeOK
<1>1. Spec => []Types  BY TypesInit, TypesNext, PTL DEF Spec
<1>2. Types => TypeOK  BY DEF Types
<1> QED  BY <1>1, <1>2, PTL

-----------------------------------------------------------------------------
(* What makes a task active.                                               *)

\* A task with proposals is over, and a task that is being finalized by a workflow
\* has none: the application of an improvement revives nothing.
ProposalsInv ==
  /\ \A t \in 1..Len(tasks) : tasks[t].proposals # "none" => tasks[t].status # "active"
  /\ \A f \in Flows : pc[f] = "gated" => tasks[snap[f]].proposals = "none"

\* Nobody inside an entry point but the flow that has the turn.
LEMMA OneTurn ==
  ASSUME Types, NEW g \in Flows, pc[g] \in InTurn
  PROVE  turn = g /\ turn # None /\ snap[g] \in 1..Len(tasks)
BY ExecutiveTaskAssumption DEF Types, FlowOK

LEMMA ProposalsNext ==
  ASSUME Types, ProposalsInv, [Next]_vars
  PROVE  ProposalsInv'
<1>0. Types'  BY TypesNext
<1> DEFINE P(t) == tasks[t].proposals # "none" => tasks[t].status # "active"
<1>1. ASSUME NEW t, Touched(t), P(t)',
             \A g \in Flows : pc'[g] = "gated" =>
               \/ pc[g] = "gated" /\ snap'[g] = snap[g]
               \/ snap'[g] = t /\ tasks[t].proposals = "none",
             tasks[t].proposals = "none" => tasks'[t].proposals = "none"
      PROVE  ProposalsInv'
  <2>1. \A u \in 1..Len(tasks) : P(u)'  BY <1>1 DEF ProposalsInv, Touched
  <2>2. ASSUME NEW g \in Flows, pc'[g] = "gated"  PROVE tasks'[snap'[g]].proposals = "none"
    <3>1. CASE pc[g] = "gated" /\ snap'[g] = snap[g]
      <4>1. snap[g] \in 1..Len(tasks) /\ tasks[snap[g]].proposals = "none"
        BY <3>1, OneTurn DEF ProposalsInv, InTurn
      <4> QED  BY <1>1, <3>1, <4>1 DEF Touched
    <3>2. CASE snap'[g] = t /\ tasks[t].proposals = "none"  BY <1>1, <3>2
    <3> QED  BY <1>1, <2>2, <3>1, <3>2
  <2> QED  BY <1>1, <2>1, <2>2 DEF ProposalsInv, Touched
<1>2. ASSUME NEW t, Started(t), P(t)',
             \A g \in Flows : pc'[g] = "gated" => pc[g] = "gated" /\ snap'[g] = snap[g]
      PROVE  ProposalsInv'
  <2>1. \A u \in 1..Len(tasks') : u \in 1..Len(tasks) \/ u = t
    BY <1>2, LenTasks DEF Started
  <2>2. \A u \in 1..Len(tasks') : P(u)'  BY <1>2, <2>1 DEF ProposalsInv, Started
  <2>3. ASSUME NEW g \in Flows, pc'[g] = "gated"  PROVE tasks'[snap'[g]].proposals = "none"
    <3>1. snap'[g] = snap[g] /\ snap[g] \in 1..Len(tasks) /\ tasks[snap[g]].proposals = "none"
      BY <1>2, <2>3, OneTurn DEF ProposalsInv, InTurn
    <3> QED  BY <1>2, <3>1 DEF Started
  <2> QED  BY <2>2, <2>3 DEF ProposalsInv
<1>3. ASSUME UNCHANGED tasks,
             \A g \in Flows : pc'[g] = "gated" => pc[g] = "gated" /\ snap'[g] = snap[g]
      PROVE  ProposalsInv'
  BY <1>3 DEF ProposalsInv
<1>pc. pc \in [Flows -> Places] /\ snap \in [Flows -> Ids]
  BY DEF Types, TypeOK, Places, Ids
<1>4. CASE UNCHANGED vars  BY <1>3, <1>4 DEF vars
<1>5. CASE Crash
  <2>1. \A g \in Flows : pc'[g] # "gated"  BY <1>5 DEF Crash, Ended
  <2>2. CASE UNCHANGED tasks  BY <1>3, <2>1, <2>2
  <2>3. CASE tasks' = <<>>
    <3>1. Len(tasks') = 0  BY <2>3
    <3> QED  BY <2>1, <3>1 DEF ProposalsInv
  <2> QED  BY <1>5, <2>2, <2>3 DEF Crash
<1>6. ASSUME NEW f \in Flows, Quiet(f)  PROVE ProposalsInv'
  <2>1. QuietStep(f)  BY <1>6, QuietEffect
  <2>2. \A g \in Flows : pc'[g] = "gated" => pc[g] = "gated" /\ snap'[g] = snap[g]
    BY <1>pc, <2>1 DEF QuietStep, ReadStep, States
  <2> QED  BY <1>3, <2>1, <2>2 DEF QuietStep
<1>7. ASSUME NEW f \in Flows, Ensure(f)  PROVE ProposalsInv'
  <2>1. \A g \in Flows : pc'[g] = "gated" => pc[g] = "gated" /\ snap'[g] = snap[g]
    BY <1>pc, <1>7, EnsureEffect
  <2>2. PICK t \in 1..MaxTasks :
          \/ Touched(t) /\ Live(t) /\ tasks'[t].proposals = tasks[t].proposals
          \/ Started(t) /\ tasks'[t].proposals = "none"
    BY <1>7, EnsureEffect
  <2>3. CASE Touched(t) /\ Live(t) /\ tasks'[t].proposals = tasks[t].proposals
    <3>1. tasks[t].proposals = "none"  BY <2>3 DEF ProposalsInv, Live, Touched
    <3> QED  BY <1>1, <2>1, <2>3, <3>1
  <2> QED  BY <1>2, <2>1, <2>2, <2>3
<1>8. ASSUME NEW f \in Flows, Mark(f)  PROVE ProposalsInv'
  <2>1. \A g \in Flows : pc'[g] = "gated" => pc[g] = "gated" /\ snap'[g] = snap[g]
    BY <1>pc, <1>8, MarkEffect
  <2>2. CASE UNCHANGED tasks  BY <1>3, <2>1, <2>2
  <2>3. CASE ~UNCHANGED tasks
    <3>1. PICK t \in 1..Len(tasks) :
            Touched(t) /\ Live(t) /\ tasks'[t].proposals = tasks[t].proposals
      BY <1>8, <2>3, MarkEffect
    <3>2. tasks[t].proposals = "none"  BY <3>1 DEF ProposalsInv, Live
    <3> QED  BY <1>1, <2>1, <3>1, <3>2
  <2> QED  BY <2>2, <2>3
<1>9. ASSUME NEW f \in Flows, Gate(f)  PROVE ProposalsInv'
  <2>1. CASE UNCHANGED <<tasks, snap, turn>> /\ pc' = [pc EXCEPT ![f] = "over"]
    <3>1. \A g \in Flows : pc'[g] = "gated" => pc[g] = "gated" /\ snap'[g] = snap[g]
      BY <1>pc, <2>1
    <3> QED  BY <1>3, <2>1, <3>1
  <2>2. CASE ~(UNCHANGED <<tasks, snap, turn>> /\ pc' = [pc EXCEPT ![f] = "over"])
    <3>1. PICK t \in 1..Len(tasks) :
            /\ Touched(t) /\ Live(t) /\ tasks'[t].proposals = tasks[t].proposals
            /\ snap' = [snap EXCEPT ![f] = t] /\ pc' = [pc EXCEPT ![f] = "gated"]
      BY <1>9, <2>2, GateEffect
    <3>2. tasks[t].proposals = "none"  BY <3>1 DEF ProposalsInv, Live
    <3>3. \A g \in Flows : pc'[g] = "gated" =>
               \/ pc[g] = "gated" /\ snap'[g] = snap[g]
               \/ snap'[g] = t /\ tasks[t].proposals = "none"
      BY <1>pc, <3>1, <3>2
    <3> QED  BY <1>1, <3>1, <3>2, <3>3
  <2> QED  BY <2>1, <2>2
<1>10. ASSUME NEW f \in Flows, Recover(f)  PROVE ProposalsInv'
  <2>1. /\ Touched(snap[f]) /\ tasks'[snap[f]].proposals = tasks[snap[f]].proposals
        /\ pc[f] = "gated" /\ pc' = [pc EXCEPT ![f] = "over"] /\ snap' = snap
    BY <1>10, RecoverEffect
  <2>2. tasks[snap[f]].proposals = "none"  BY <2>1 DEF ProposalsInv
  <2>3. \A g \in Flows : pc'[g] = "gated" => pc[g] = "gated" /\ snap'[g] = snap[g]
    BY <1>pc, <2>1
  <2> QED  BY <1>1, <2>1, <2>2, <2>3
<1>11. ASSUME NEW f \in Flows, ExecBegin(f)  PROVE ProposalsInv'
  <2>1. \A g \in Flows : pc'[g] = "gated" => pc[g] = "gated" /\ snap'[g] = snap[g]
    BY <1>pc, <1>11, ExecBeginEffect
  <2>2. \/ UNCHANGED tasks
        \/ /\ Touched(active) /\ Live(active)
           /\ tasks'[active].proposals = tasks[active].proposals
        \/ Started(active') /\ tasks'[active'].proposals = "none"
    BY <1>11, ExecBeginEffect
  <2>3. CASE UNCHANGED tasks  BY <1>3, <2>1, <2>3
  <2>4. CASE Touched(active) /\ Live(active) /\ tasks'[active].proposals = tasks[active].proposals
    <3>1. tasks[active].proposals = "none"  BY <2>4 DEF ProposalsInv, Live, Touched
    <3> QED  BY <1>1, <2>1, <2>4, <3>1
  <2>5. CASE Started(active') /\ tasks'[active'].proposals = "none"
    <3>1. PICK t : t = active'  OBVIOUS
    <3>2. Started(t) /\ P(t)'  BY <2>5, <3>1
    <3> QED  BY <1>2, <2>1, <3>2
  <2> QED  BY <2>2, <2>3, <2>4, <2>5
<1>12. ASSUME NEW f \in Flows, ExecEnd(f)  PROVE ProposalsInv'
  <2>1. \A g \in Flows : pc'[g] # "gated"
    <3>1. turn = f /\ pc' = [pc EXCEPT ![f] = "over"] /\ pc[f] = "executing"
      BY <1>12, ExecEndEffect
    <3> QED  BY <1>pc, <3>1, OneTurn DEF InTurn
  <2>2. CASE UNCHANGED tasks  BY <1>3, <2>1, <2>2
  <2>3. CASE Touched(snap[f]) /\ tasks'[snap[f]].status # "active"
    BY <2>1, <2>3 DEF ProposalsInv, Touched
  <2> QED  BY <1>12, <2>2, <2>3, ExecEndEffect
<1>13. ASSUME NEW t \in 1..Len(tasks), Expire(t)  PROVE ProposalsInv'
  <2>1. /\ Touched(t) /\ tasks'[t].proposals = tasks[t].proposals
        /\ tasks'[t].status = tasks[t].status /\ UNCHANGED <<pc, snap>>
    BY <1>13, ExpireEffect
  <2>2. P(t)'  BY <2>1 DEF ProposalsInv
  <2> QED  BY <1>1, <2>1, <2>2
<1>14. ASSUME NEW t \in 1..Len(tasks), ApplyImprovement(t)  PROVE ProposalsInv'
  <2>1. /\ Touched(t) /\ tasks[t].proposals = "pending" /\ UNCHANGED <<pc, snap>>
        /\ tasks'[t].status \in {tasks[t].status, "improved"}
    BY <1>14, ImproveEffect
  <2>2. P(t)'  BY <2>1 DEF ProposalsInv
  <2> QED  BY <1>1, <2>1, <2>2
<1> QED
  BY <1>4, <1>5, <1>6, <1>7, <1>8, <1>9, <1>10, <1>11, <1>12, <1>13, <1>14
     DEF Next, Step, Quiet

\* A flow outside the entry points does not have the turn.
LEMMA QuietTurn ==
  ASSUME Types, NEW f \in Flows, QuietStep(f), turn # None
  PROVE  turn # f /\ pc'[turn] = pc[turn] /\ snap'[turn] = snap[turn]
<1>1. turn \in Flows /\ pc[turn] \in InTurn  BY DEF Types, TypeOK, InTurn
<1>2. turn # f  BY <1>1 DEF QuietStep
<1>3. pc \in [Flows -> Places] /\ snap \in [Flows -> Ids]
  BY DEF Types, TypeOK, Places, Ids
<1> QED  BY <1>1, <1>2, <1>3 DEF QuietStep, ReadStep

\* A task that is active after a step was so before, or is recovered by the flow
\* that gated it; a task that is being finalized was live when it was gated.
Revived(t) ==
  /\ tasks'[t].status = "active" => tasks[t].status = "active" \/ Finalizing(t)
  /\ Live(t)' => Live(t) \/ Finalizing(t)
  /\ Finalizing(t)' => Live(t) \/ Finalizing(t)

LEMMA Revive ==
  ASSUME Types, ProposalsInv, [Next]_vars, crashes' = crashes, NEW t \in 1..Len(tasks)
  PROVE  Revived(t)
<1>pc. pc \in [Flows -> Places] /\ snap \in [Flows -> Ids] /\ t # 0
  BY DEF Types, TypeOK, Places, Ids
<1>1. ASSUME turn' = None, NEW u, Touched(u), tasks'[u].status = "active" => Live(u) \/ Finalizing(u)
      PROVE  Revived(t)
  BY <1>pc, <1>1 DEF Revived, Touched, Live, Finalizing
<1>2. ASSUME turn' = None, tasks'[t] = tasks[t]  PROVE Revived(t)
  BY <1>2 DEF Revived, Live, Finalizing
<1>3. CASE UNCHANGED vars
  BY <1>3 DEF vars, Revived, Live, Finalizing
<1>4. CASE Crash
  <2>1. crashes \in Nat  BY ExecutiveTaskAssumption DEF Types, TypeOK
  <2> QED  BY <1>4, <2>1 DEF Crash
<1>5. ASSUME NEW f \in Flows, Quiet(f)  PROVE Revived(t)
  <2>1. QuietStep(f)  BY <1>5, QuietEffect
  <2>2. UNCHANGED <<tasks, turn>>  BY <2>1 DEF QuietStep
  <2>3. turn # None => pc'[turn] = pc[turn] /\ snap'[turn] = snap[turn]
    BY <2>1, QuietTurn
  <2> QED  BY <2>2, <2>3 DEF Revived, Live, Finalizing
<1>6. ASSUME NEW f \in Flows, Ensure(f)  PROVE Revived(t)
  BY <1>1, <1>2, <1>6, EnsureEffect DEF Started
<1>7. ASSUME NEW f \in Flows, Mark(f)  PROVE Revived(t)
  BY <1>1, <1>2, <1>7, MarkEffect
<1>8. ASSUME NEW f \in Flows, Gate(f)  PROVE Revived(t)
  <2>1. CASE UNCHANGED <<tasks, snap, turn>> /\ turn = None  BY <1>2, <2>1
  <2>2. ASSUME NEW u \in 1..Len(tasks), Touched(u), Live(u), turn' = f,
               snap' = [snap EXCEPT ![f] = u], tasks'[u].status # "active"
        PROVE  Revived(t)
    BY <1>pc, <2>2 DEF Revived, Touched, Live, Finalizing
  <2> QED  BY <1>8, <2>1, <2>2, GateEffect
<1>9. ASSUME NEW f \in Flows, Recover(f)  PROVE Revived(t)
  <2>1. Touched(snap[f]) /\ turn = f /\ turn' = None /\ pc[f] = "gated"
    BY <1>9, RecoverEffect
  <2>2. Finalizing(snap[f])  BY <2>1, ExecutiveTaskAssumption DEF Finalizing
  <2> QED  BY <1>1, <2>1, <2>2
<1>10. ASSUME NEW f \in Flows, ExecBegin(f)  PROVE Revived(t)
  <2>1. CASE UNCHANGED <<tasks, turn>> /\ turn = None  BY <1>2, <2>1
  <2>2. CASE turn' = None /\ Touched(active) /\ Live(active)  BY <1>1, <2>2
  <2>3. CASE /\ turn' = f /\ pc' = [pc EXCEPT ![f] = "executing"]
             /\ (Touched(active) /\ Live(active)) \/ Started(active')
    BY <1>pc, <2>3 DEF Revived, Touched, Started, Live, Finalizing
  <2> QED  BY <1>10, <2>1, <2>2, <2>3, ExecBeginEffect
<1>11. ASSUME NEW f \in Flows, ExecEnd(f)  PROVE Revived(t)
  BY <1>1, <1>2, <1>11, ExecEndEffect
<1>12. ASSUME NEW u \in 1..Len(tasks), Expire(u)  PROVE Revived(t)
  <2>1. /\ Touched(u) /\ tasks'[u].status = tasks[u].status /\ tasks'[u].expired = "yes"
        /\ UNCHANGED <<turn, pc, snap>>
    BY <1>12, ExpireEffect
  <2> QED  BY <2>1 DEF Revived, Touched, Live, Finalizing
<1>13. ASSUME NEW u \in 1..Len(tasks), ApplyImprovement(u)  PROVE Revived(t)
  <2>1. /\ Touched(u) /\ tasks[u].proposals = "pending"
        /\ tasks'[u].status \in {tasks[u].status, "improved"}
        /\ UNCHANGED <<turn, pc, snap>>
    BY <1>13, ImproveEffect
  <2>2. tasks'[u].status # "active"  BY <2>1 DEF ProposalsInv
  <2> QED  BY <2>1, <2>2 DEF Revived, Touched, Live, Finalizing
<1> QED
  BY <1>3, <1>4, <1>5, <1>6, <1>7, <1>8, <1>9, <1>10, <1>11, <1>12, <1>13
     DEF Next, Step, Quiet

LEMMA ProposalsInit == Init => ProposalsInv
<1>1. ASSUME Init  PROVE Len(tasks) = 0  BY <1>1 DEF Init
<1> QED  BY <1>1 DEF Init, ProposalsInv

\* Ended tasks stay ended: what getActiveExecutiveTask hands out was active, so no
\* preview, apply or turn takes up a task that ended; only the recovery of a task
\* that was just gated makes it active.
THEOREM EndedTasksStayEnded == Spec => EndedStaysEnded
<1>1. Types /\ ProposalsInv /\ [Next]_vars =>
        [ crashes' = crashes =>
            \A t \in 1..Len(tasks) :
              tasks[t].status # "active" /\ ~Finalizing(t) => tasks'[t].status # "active" ]_vars
  BY Revive DEF Revived
<1>2. Types /\ ProposalsInv /\ [Next]_vars => (Types /\ ProposalsInv)'
  BY TypesNext, ProposalsNext
<1> QED  BY <1>1, <1>2, TypesInit, ProposalsInit, PTL DEF Spec, EndedStaysEnded

-----------------------------------------------------------------------------
(* Who holds the session's entry.                                          *)

\* The entry that a flow is going to delete is that of a task that is over for good.
CleanupDead ==
  raced = "no" =>
    \A f \in Flows : pc[f] = "cleanup" => ~Live(snap[f]) /\ ~Finalizing(snap[f])

\* The last task keeps the entry until it is over.
LastOwned ==
  raced = "no" /\ ~ClearedByPreview /\ Len(tasks) > 0 =>
    (Live(Len(tasks)) \/ Finalizing(Len(tasks)) => active = Len(tasks))

EntryInv == CleanupDead /\ LastOwned

\* Where a flow ended it stays; a read that raced stays known.
PlacesKept ==
  /\ \A g \in Flows : /\ pc[g] = "cleared" => pc'[g] = "cleared"
                      /\ pc[g] = "issued" => pc'[g] = "issued"
                      /\ pc'[g] = "new" => pc[g] = "new"
  /\ \A g \in Flows : pc'[g] = "cleanup" =>
       \/ pc[g] = "cleanup" /\ snap'[g] = snap[g]
       \/ /\ Stale(active) /\ snap'[g] = active
          /\ raced' = "no" => ~Finalizing(active)
  /\ raced' = "no" => raced = "no"
  /\ UNCHANGED kind

LEMMA PlacesKeep ==
  ASSUME Types, [Next]_vars
  PROVE  PlacesKept
<1>pc. pc \in [Flows -> Places] /\ snap \in [Flows -> Ids]
  BY DEF Types, TypeOK, Places, Ids
<1>1. CASE UNCHANGED vars  BY <1>1 DEF vars, flow, fixed, PlacesKept
<1>2. CASE Crash  BY <1>pc, <1>2 DEF Crash, Ended, PlacesKept, flow, fixed
<1>3. ASSUME NEW f \in Flows, Quiet(f)  PROVE PlacesKept
  <2>1. QuietStep(f)  BY <1>3, QuietEffect
  <2> QED  BY <1>pc, <2>1 DEF QuietStep, ReadStep, PlacesKept, States
<1>4. ASSUME NEW f \in Flows, Ensure(f)  PROVE PlacesKept
  BY <1>pc, <1>4, EnsureEffect DEF PlacesKept
<1>5. ASSUME NEW f \in Flows, Mark(f)  PROVE PlacesKept
  BY <1>pc, <1>5, MarkEffect DEF PlacesKept
<1>6. ASSUME NEW f \in Flows, Gate(f)  PROVE PlacesKept
  BY <1>pc, <1>6, GateEffect DEF PlacesKept
<1>7. ASSUME NEW f \in Flows, Recover(f)  PROVE PlacesKept
  BY <1>pc, <1>7, RecoverEffect DEF PlacesKept
<1>8. ASSUME NEW f \in Flows, ExecBegin(f)  PROVE PlacesKept
  BY <1>pc, <1>8, ExecBeginEffect DEF PlacesKept
<1>9. ASSUME NEW f \in Flows, ExecEnd(f)  PROVE PlacesKept
  BY <1>pc, <1>9, ExecEndEffect DEF PlacesKept
<1>10. ASSUME NEW t \in 1..Len(tasks), Expire(t)  PROVE PlacesKept
  BY <1>10, ExpireEffect DEF PlacesKept
<1>11. ASSUME NEW t \in 1..Len(tasks), ApplyImprovement(t)  PROVE PlacesKept
  BY <1>11, ImproveEffect DEF PlacesKept
<1> QED
  BY <1>1, <1>2, <1>3, <1>4, <1>5, <1>6, <1>7, <1>8, <1>9, <1>10, <1>11
     DEF Next, Step, Quiet

\* The entry of a task that is live or being finalized goes with a preview that
\* found no comments, to a task that starts, or with the task's end.
LEMMA EntryKept ==
  ASSUME Types, CleanupDead, [Next]_vars, crashes' = crashes, raced = "no",
         Live(active) \/ Finalizing(active), active' # active
  PROVE  \/ ClearedByPreview'
         \/ Started(active')
         \/ tasks'[active].status # "active" /\ turn' = None
<1>pc. pc \in [Flows -> Places]  BY DEF Types, TypeOK, Places
<1>1. CASE UNCHANGED vars  BY <1>1 DEF vars
<1>2. CASE Crash
  <2>1. crashes \in Nat  BY ExecutiveTaskAssumption DEF Types, TypeOK
  <2> QED  BY <1>2, <2>1 DEF Crash
<1>3. ASSUME NEW f \in Flows, Quiet(f)  PROVE ClearedByPreview'
  <2>1. QuietStep(f)  BY <1>3, QuietEffect
  <2>2. CASE pc[f] = "cleanup" /\ active' = EntryAfterCleanup(snap[f])
    BY <2>2 DEF EntryAfterCleanup, CleanupDead
  <2>3. CASE pc' = [pc EXCEPT ![f] = "cleared"]
    BY <1>pc, <2>3 DEF ClearedByPreview
  <2> QED  BY <2>1, <2>2, <2>3 DEF QuietStep
<1>4. ASSUME turn = None, EntryRead  PROVE FALSE
  BY <1>4 DEF EntryRead, Finalizing
<1>5. ASSUME NEW f \in Flows, Ensure(f)  PROVE Started(active')
  BY <1>5, EnsureEffect
<1>6. ASSUME NEW f \in Flows, Mark(f)  PROVE FALSE
  BY <1>4, <1>6, MarkEffect
<1>7. ASSUME NEW f \in Flows, Gate(f)  PROVE FALSE
  BY <1>4, <1>7, GateEffect
<1>8. ASSUME NEW f \in Flows, Recover(f)
      PROVE  tasks'[active].status # "active" /\ turn' = None
  BY <1>8, RecoverEffect
<1>9. ASSUME NEW f \in Flows, ExecBegin(f)
      PROVE  Started(active') \/ (tasks'[active].status # "active" /\ turn' = None)
  BY <1>4, <1>9, ExecBeginEffect
<1>10. ASSUME NEW f \in Flows, ExecEnd(f)  PROVE FALSE
  BY <1>10, ExecEndEffect
<1>11. ASSUME NEW t \in 1..Len(tasks), Expire(t)  PROVE FALSE
  BY <1>11, ExpireEffect
<1>12. ASSUME NEW t \in 1..Len(tasks), ApplyImprovement(t)  PROVE FALSE
  BY <1>12, ImproveEffect
<1> QED
  BY <1>1, <1>2, <1>3, <1>5, <1>6, <1>7, <1>8, <1>9, <1>10, <1>11, <1>12
     DEF Next, Step, Quiet

\* Tasks are started one at a time, and the new task gets the entry.
LEMMA TasksGrow ==
  ASSUME Types, [Next]_vars, crashes' = crashes
  PROVE  Len(tasks') = Len(tasks) \/ (Len(tasks') = Len(tasks) + 1 /\ active' = Len(tasks'))
<1>1. CASE UNCHANGED vars  BY <1>1 DEF vars
<1>2. CASE Crash
  <2>1. crashes \in Nat  BY ExecutiveTaskAssumption DEF Types, TypeOK
  <2> QED  BY <1>2, <2>1 DEF Crash
<1>3. ASSUME NEW f \in Flows, Quiet(f)  PROVE UNCHANGED tasks
  BY <1>3, QuietEffect DEF QuietStep
<1>4. ASSUME NEW f \in Flows, Ensure(f)
      PROVE  Len(tasks') = Len(tasks) \/ Started(active')
  BY <1>4, EnsureEffect DEF Touched
<1>5. ASSUME NEW f \in Flows, Mark(f) \/ Gate(f) \/ Recover(f) \/ ExecEnd(f)
      PROVE  Len(tasks') = Len(tasks)
  BY <1>5, MarkEffect, GateEffect, RecoverEffect, ExecEndEffect DEF Touched
<1>6. ASSUME NEW f \in Flows, ExecBegin(f)
      PROVE  Len(tasks') = Len(tasks) \/ Started(active')
  BY <1>6, ExecBeginEffect DEF Touched
<1>7. ASSUME NEW t \in 1..Len(tasks), Expire(t) \/ ApplyImprovement(t)
      PROVE  Len(tasks') = Len(tasks)
  BY <1>7, ExpireEffect, ImproveEffect DEF Touched
<1> QED
  BY <1>1, <1>2, <1>3, <1>4, <1>5, <1>6, <1>7 DEF Next, Step, Quiet, Started

LEMMA EntryInit == Init => EntryInv
<1>1. ASSUME Init  PROVE Len(tasks) = 0  BY <1>1 DEF Init
<1> QED  BY <1>1 DEF Init, EntryInv, CleanupDead, LastOwned

LEMMA EntryCrash ==
  ASSUME Types, EntryInv, Crash
  PROVE  EntryInv'
<1>1. turn' = None /\ (\A g \in Flows : pc'[g] # "cleanup")
      /\ (\A g \in Flows : pc[g] = "cleared" => pc'[g] = "cleared") /\ raced' = raced
  BY DEF Crash, Ended
<1>2. CleanupDead'  BY <1>1 DEF CleanupDead
<1>3. ~ClearedByPreview' => ~ClearedByPreview  BY <1>1 DEF ClearedByPreview
<1>4. CASE UNCHANGED <<tasks, active>>
  BY <1>1, <1>3, <1>4, <1>2 DEF EntryInv, LastOwned, Live, Finalizing
<1>5. CASE tasks' = <<>>
  <2>1. Len(tasks') = 0  BY <1>5
  <2> QED  BY <1>2, <2>1 DEF EntryInv, LastOwned
<1> QED  BY <1>4, <1>5 DEF Crash

LEMMA EntryNext ==
  ASSUME Types, ProposalsInv, EntryInv, [Next]_vars
  PROVE  EntryInv'
<1>1. CASE Crash  BY <1>1, EntryCrash
<1>2. CASE ~Crash
  <2>0. crashes' = crashes
    <3>1. ASSUME NEW f \in Flows, Step(f)  PROVE crashes' = crashes
      BY <3>1, QuietEffect, EnsureEffect, MarkEffect, GateEffect, RecoverEffect,
         ExecBeginEffect, ExecEndEffect DEF Step, Quiet, QuietStep
    <3>2. ASSUME NEW t \in 1..Len(tasks), Expire(t) \/ ApplyImprovement(t)
          PROVE  crashes' = crashes
      BY <3>2, ExpireEffect, ImproveEffect
    <3> QED  BY <1>2, <3>1, <3>2 DEF Next, vars
  <2>1. PlacesKept  BY PlacesKeep
  <2>2. CleanupDead'
    <3>1. SUFFICES ASSUME raced' = "no", NEW g \in Flows, pc'[g] = "cleanup"
                   PROVE  ~Live(snap[g])' /\ ~Finalizing(snap[g])'
      BY DEF CleanupDead
    <3>2. raced = "no"  BY <2>1, <3>1 DEF PlacesKept
    <3>3. PICK t : t = snap'[g]  OBVIOUS
    <3>4. t \in 1..Len(tasks) /\ ~Live(t) /\ ~Finalizing(t)
      <4>1. CASE pc[g] = "cleanup" /\ t = snap[g]
        BY <3>2, <4>1 DEF EntryInv, CleanupDead, Types, FlowOK
      <4>2. CASE Stale(active) /\ t = active /\ ~Finalizing(active)
        BY <4>2 DEF Stale, Types, TypeOK
      <4> QED  BY <2>1, <3>1, <3>3, <4>1, <4>2 DEF PlacesKept
    <3>5. Revived(t)  BY <2>0, <3>4, Revive
    <3> QED  BY <3>3, <3>4, <3>5 DEF Revived, Live, Finalizing
  <2>3. LastOwned'
    <3>1. SUFFICES ASSUME raced' = "no", ~ClearedByPreview', Len(tasks') > 0,
                          Live(Len(tasks))' \/ Finalizing(Len(tasks))'
                   PROVE  active' = Len(tasks')
      BY DEF LastOwned
    <3>2. raced = "no" /\ ~ClearedByPreview
      BY <2>1, <3>1 DEF PlacesKept, ClearedByPreview
    <3>3. CASE Len(tasks') = Len(tasks)
      <4>1. PICK t : t = Len(tasks)  OBVIOUS
      <4>2. t \in 1..Len(tasks) /\ t # 0  BY <3>1, <3>3, <4>1, LenTasks
      <4>3. Live(t)' \/ Finalizing(t)'  BY <3>1, <3>3, <4>1 DEF Live, Finalizing
      <4>4. Live(t) \/ Finalizing(t)  BY <2>0, <4>2, <4>3, Revive DEF Revived
      <4>5. active = t  BY <3>2, <4>1, <4>2, <4>4 DEF EntryInv, LastOwned
      <4>6. ASSUME active' # active  PROVE FALSE
        <5>1. \/ Started(active')
              \/ tasks'[active].status # "active" /\ turn' = None
          BY <2>0, <3>1, <3>2, <4>4, <4>5, <4>6, EntryKept DEF EntryInv
        <5>2. ~Started(active')  BY <3>3, LenTasks DEF Started
        <5> QED  BY <4>3, <4>5, <5>1, <5>2 DEF Live, Finalizing
      <4> QED  BY <3>3, <4>1, <4>5, <4>6
    <3> QED  BY <2>0, <3>3, TasksGrow
  <2> QED  BY <2>2, <2>3 DEF EntryInv
<1> QED  BY <1>1, <1>2

LEMMA EntryInvariant == Spec => [](Types /\ ProposalsInv /\ EntryInv)
<1>1. Types /\ ProposalsInv /\ EntryInv /\ [Next]_vars =>
        (Types /\ ProposalsInv /\ EntryInv)'
  BY TypesNext, ProposalsNext, EntryNext
<1> QED  BY <1>1, TypesInit, ProposalsInit, EntryInit, PTL DEF Spec

\* A task that is to be retried is resumed: deriveRecoveryWorkflowState leaves it
\* the session's entry until a newer task takes its place, unless somebody read the
\* store between the gate and the recovery, or a preview without comments deleted
\* the entry.
THEOREM RetriesAreResumed == Spec => []RetryResumesAlone
<1>1. Types /\ EntryInv => RetryResumesAlone
  <2>1. SUFFICES ASSUME Types, EntryInv, raced = "no", ~ClearedByPreview,
                        NEW t \in 1..Len(tasks), Live(t), ~(t < Len(tasks))
                 PROVE  active = t
    BY DEF RetryResumesAlone
  <2>2. t = Len(tasks) /\ Len(tasks) > 0  BY <2>1, LenTasks
  <2> QED  BY <2>1, <2>2 DEF EntryInv, LastOwned
<1> QED  BY <1>1, EntryInvariant, PTL

\* The entry of a live task goes only to a newer task, or with the task's end: the
\* deletion of an older entry, however late, is guarded well enough by the second
\* look of getActiveExecutiveTask.
THEOREM OwnersAreKept == Spec => OwnerKept
<1>1. Types /\ EntryInv /\ [Next]_vars =>
        [ Live(active) /\ active' # active /\ raced = "no"
            => \/ crashes' # crashes
               \/ ClearedByPreview'
               \/ Len(tasks') > Len(tasks)
               \/ tasks'[active].status # "active" ]_vars
  <2>1. SUFFICES ASSUME Types, EntryInv, [Next]_vars, Live(active), active' # active,
                        raced = "no", crashes' = crashes
                 PROVE  \/ ClearedByPreview'
                        \/ Len(tasks') > Len(tasks)
                        \/ tasks'[active].status # "active"
    OBVIOUS
  <2>2. Started(active') => Len(tasks') > Len(tasks)  BY <2>1, LenTasks DEF Started
  <2> QED  BY <2>1, <2>2, EntryKept DEF EntryInv
<1> QED  BY <1>1, EntryInvariant, PTL DEF Spec, OwnerKept

-----------------------------------------------------------------------------
(* What became of a confirmation.                                          *)

\* A review is awaited with the confirmation of the preview that asked for it.
ReviewHasConfirmation ==
  \A t \in 1..Len(tasks) :
    tasks[t].workflow_state = "awaiting_review" => tasks[t].confirmation # None

\* A confirmation is issued once, for one task.
IssuedOnce ==
  \A t \in 1..Len(tasks) :
    tasks[t].confirmation # None =>
      /\ pc[tasks[t].confirmation] = "issued"
      /\ \A u \in 1..Len(tasks) : tasks[u].confirmation = tasks[t].confirmation => u = t

\* The confirmation of an apply that was let through is used up.
UsedUp ==
  \A f \in applied :
    /\ pc[f] # "new"
    /\ WorkflowOf(f) = "doc_rewrite" =>
         /\ conf[f] # None /\ pc[conf[f]] = "issued"
         /\ \A t \in 1..Len(tasks) :
              tasks[t].confirmation = conf[f] => tasks[t].workflow_state # "awaiting_review"

\* Only applies of a rewrite bring a confirmation along.
ConfirmationBrought ==
  \A f \in Flows : conf[f] # None => WorkflowOf(f) = "doc_rewrite"

ApplyInv == /\ ReviewHasConfirmation
            /\ IssuedOnce
            /\ UsedUp
            /\ ConfirmationBrought
            /\ AppliedOnce

\* What a step makes of the review that task t awaits: nothing new, nothing at all,
\* or that of a preview that just came to its last stage.
Reviewed(t) ==
  \/ /\ t \in 1..Len(tasks)
     /\ tasks'[t].confirmation = tasks[t].confirmation
     /\ tasks'[t].workflow_state = "awaiting_review" =>
          tasks[t].workflow_state = "awaiting_review"
  \/ tasks'[t].confirmation = None /\ tasks'[t].workflow_state # "awaiting_review"
  \/ \E f \in Flows :
       /\ pc[f] = "ensure" /\ pc'[f] = "issued"
       /\ tasks'[t].confirmation = f
       /\ \A u \in 1..Len(tasks') : u # t => u \in 1..Len(tasks) /\ tasks'[u] = tasks[u]

LEMMA Review ==
  ASSUME Types, [Next]_vars, NEW t \in 1..Len(tasks')
  PROVE  Reviewed(t)
<1>1. ASSUME NEW u, Touched(u),
             tasks'[u].confirmation = tasks[u].confirmation,
             tasks'[u].workflow_state = "awaiting_review" =>
               tasks[u].workflow_state = "awaiting_review"
      PROVE  Reviewed(t)
  BY <1>1 DEF Reviewed, Touched
<1>2. ASSUME NEW u, Started(u), tasks'[u].confirmation = None,
             tasks'[u].workflow_state # "awaiting_review"
      PROVE  Reviewed(t)
  <2>1. t \in 1..Len(tasks) \/ t = u  BY <1>2, LenTasks DEF Started
  <2> QED  BY <1>2, <2>1 DEF Reviewed, Started
<1>3. ASSUME UNCHANGED tasks  PROVE Reviewed(t)  BY <1>3 DEF Reviewed
<1>4. CASE UNCHANGED vars  BY <1>3, <1>4 DEF vars
<1>5. CASE Crash
  <2>1. CASE tasks' = <<>>
    <3>1. Len(tasks') = 0  BY <2>1
    <3> QED  BY <3>1
  <2> QED  BY <1>3, <1>5, <2>1 DEF Crash
<1>6. ASSUME NEW f \in Flows, Quiet(f)  PROVE Reviewed(t)
  BY <1>3, <1>6, QuietEffect DEF QuietStep
<1>7. ASSUME NEW f \in Flows, Ensure(f)  PROVE Reviewed(t)
  <2>1. pc[f] = "ensure"  BY <1>7, EnsureEffect
  <2>2. PICK u \in 1..MaxTasks :
          /\ tasks'[u].workflow_state = "awaiting_review" =>
               pc'[f] = "issued" /\ tasks'[u].confirmation = f
          /\ \/ /\ Touched(u)
                /\ \/ tasks'[u].workflow_state = "awaiting_review"
                   \/ tasks'[u].confirmation = tasks[u].confirmation
             \/ /\ Started(u)
                /\ \/ tasks'[u].workflow_state = "awaiting_review"
                   \/ tasks'[u].confirmation = None
    BY <1>7, EnsureEffect
  <2>3. CASE tasks'[u].workflow_state # "awaiting_review"  BY <1>1, <1>2, <2>2, <2>3
  <2>4. CASE tasks'[u].workflow_state = "awaiting_review"
    <3>1. \A v \in 1..Len(tasks') : v # u => v \in 1..Len(tasks) /\ tasks'[v] = tasks[v]
      BY <2>2, LenTasks DEF Touched, Started
    <3> QED  BY <2>1, <2>2, <2>4, <3>1 DEF Reviewed
  <2> QED  BY <2>3, <2>4
<1>8. ASSUME NEW f \in Flows, Mark(f)  PROVE Reviewed(t)
  BY <1>1, <1>3, <1>8, MarkEffect
<1>9. ASSUME NEW f \in Flows, Gate(f)  PROVE Reviewed(t)
  BY <1>1, <1>3, <1>9, GateEffect
<1>10. ASSUME NEW f \in Flows, Recover(f)  PROVE Reviewed(t)
  BY <1>1, <1>10, RecoverEffect
<1>11. ASSUME NEW f \in Flows, ExecBegin(f)  PROVE Reviewed(t)
  <2>1. PICK a : a = active'  OBVIOUS
  <2> QED  BY <1>1, <1>2, <1>3, <1>11, <2>1, ExecBeginEffect
<1>12. ASSUME NEW f \in Flows, ExecEnd(f)  PROVE Reviewed(t)
  BY <1>1, <1>3, <1>12, ExecEndEffect
<1>13. ASSUME NEW u \in 1..Len(tasks), Expire(u)  PROVE Reviewed(t)
  BY <1>1, <1>13, ExpireEffect
<1>14. ASSUME NEW u \in 1..Len(tasks), ApplyImprovement(u)  PROVE Reviewed(t)
  BY <1>1, <1>14, ImproveEffect
<1> QED
  BY <1>4, <1>5, <1>6, <1>7, <1>8, <1>9, <1>10, <1>11, <1>12, <1>13, <1>14
     DEF Next, Step, Quiet

\* A confirmation is brought at the beginning, and only a mark lets an apply through.
LEMMA ApplySteps ==
  ASSUME Types, [Next]_vars
  PROVE  /\ \A f \in Flows : \/ conf'[f] = conf[f]
                             \/ pc[f] = "new" /\ kind[f] = "rewrite_apply"
         /\ \/ applied' = applied
            \/ \E f \in Flows, t \in 1..Len(tasks) :
                 /\ applied' = applied \cup {f} /\ UNCHANGED conf
                 /\ CanMark(f, t) /\ Touched(t)
                 /\ pc[f] # "new"
                 /\ tasks'[t].workflow_state # "awaiting_review"
                 /\ tasks'[t].confirmation = tasks[t].confirmation
<1>1. ASSUME UNCHANGED <<conf, applied>>
      PROVE  (\A f \in Flows : conf'[f] = conf[f]) /\ applied' = applied
  BY <1>1
<1>2. CASE UNCHANGED vars  BY <1>1, <1>2 DEF vars, flow
<1>3. CASE Crash  BY <1>1, <1>3 DEF Crash, flow
<1>4. ASSUME NEW f \in Flows, Quiet(f)
      PROVE  /\ \A g \in Flows : \/ conf'[g] = conf[g]
                                 \/ pc[g] = "new" /\ kind[g] = "rewrite_apply"
             /\ applied' = applied
  <2>1. QuietStep(f) /\ conf \in [Flows -> Flows \cup {None}]
    BY <1>4, QuietEffect DEF Types, TypeOK
  <2> QED  BY <2>1 DEF QuietStep
<1>5. ASSUME NEW f \in Flows, Mark(f)
      PROVE  /\ UNCHANGED conf
             /\ \/ applied' = applied
                \/ \E t \in 1..Len(tasks) :
                     /\ applied' = applied \cup {f}
                     /\ CanMark(f, t) /\ Touched(t)
                     /\ pc[f] # "new"
                     /\ tasks'[t].workflow_state # "awaiting_review"
                     /\ tasks'[t].confirmation = tasks[t].confirmation
  BY <1>5, MarkEffect
<1>6. ASSUME NEW f \in Flows,
             Ensure(f) \/ Gate(f) \/ Recover(f) \/ ExecBegin(f) \/ ExecEnd(f)
      PROVE  UNCHANGED <<conf, applied>>
  BY <1>6, EnsureEffect, GateEffect, RecoverEffect, ExecBeginEffect, ExecEndEffect
<1>7. ASSUME NEW t \in 1..Len(tasks), Expire(t) \/ ApplyImprovement(t)
      PROVE  UNCHANGED <<conf, applied>>
  BY <1>7, ExpireEffect, ImproveEffect
<1> QED  BY <1>1, <1>2, <1>3, <1>4, <1>5, <1>6, <1>7 DEF Next, Step, Quiet

LEMMA ApplyInit == Init => ApplyInv
<1>1. ASSUME Init  PROVE Len(tasks) = 0  BY <1>1 DEF Init
<1> QED
  BY <1>1 DEF Init, ApplyInv, ReviewHasConfirmation, IssuedOnce, UsedUp,
              ConfirmationBrought, AppliedOnce

LEMMA ApplyNext ==
  ASSUME Types, ApplyInv, [Next]_vars
  PROVE  ApplyInv'
<1>0. /\ Types' /\ PlacesKept
      /\ ReviewHasConfirmation /\ IssuedOnce /\ UsedUp /\ ConfirmationBrought /\ AppliedOnce
  BY TypesNext, PlacesKeep DEF ApplyInv
<1>1. /\ \A t \in 1..Len(tasks) : tasks[t].confirmation \in Flows \cup {None}
      /\ \A t \in 1..Len(tasks') : tasks'[t].confirmation \in Flows \cup {None}
  <2>1. \A task \in Task : task.confirmation \in Flows \cup {None}  BY DEF Task
  <2>2. /\ \A t \in 1..Len(tasks) : tasks[t] \in Task
        /\ \A t \in 1..Len(tasks') : tasks'[t] \in Task
    BY <1>0 DEF Types, TypeOK
  <2> QED  BY <2>1, <2>2
<1>2. conf \in [Flows -> Flows \cup {None}] /\ applied \subseteq Flows
  BY DEF Types, TypeOK
<1>3. None \notin Flows  BY ExecutiveTaskAssumption
<1>4. \A f \in Flows : WorkflowOf(f)' = WorkflowOf(f)
  BY <1>0 DEF WorkflowOf, PlacesKept
<1>5. \A f \in Flows : f \in applied => conf'[f] = conf[f]
  BY <1>0, ApplySteps DEF UsedUp
<1>6. ReviewHasConfirmation'
  <2>1. SUFFICES ASSUME NEW t \in 1..Len(tasks'), tasks'[t].workflow_state = "awaiting_review"
                 PROVE  tasks'[t].confirmation # None
    BY DEF ReviewHasConfirmation
  <2>2. Reviewed(t)  BY Review
  <2> QED  BY <1>0, <1>3, <2>1, <2>2 DEF Reviewed, ReviewHasConfirmation
<1>7. IssuedOnce'
  <2>1. SUFFICES ASSUME NEW t \in 1..Len(tasks'), tasks'[t].confirmation # None
                 PROVE  /\ pc'[tasks'[t].confirmation] = "issued"
                        /\ \A u \in 1..Len(tasks') :
                             tasks'[u].confirmation = tasks'[t].confirmation => u = t
    BY DEF IssuedOnce
  <2>2. PICK c : c = tasks'[t].confirmation  OBVIOUS
  <2>3. c \in Flows  BY <1>1, <2>1, <2>2
  <2>4. ASSUME t \in 1..Len(tasks), tasks[t].confirmation = c
        PROVE  /\ pc'[c] = "issued"
               /\ \A u \in 1..Len(tasks') : tasks'[u].confirmation = c => u = t
    <3>1. pc[c] = "issued" /\ \A u \in 1..Len(tasks) : tasks[u].confirmation = c => u = t
      BY <1>0, <1>3, <2>3, <2>4 DEF IssuedOnce
    <3>2. pc'[c] = "issued"  BY <1>0, <2>3, <3>1 DEF PlacesKept
    <3>3. ASSUME NEW u \in 1..Len(tasks'), tasks'[u].confirmation = c  PROVE u = t
      <4>1. Reviewed(u)  BY Review
      <4> QED  BY <1>3, <2>3, <3>1, <3>3, <4>1 DEF Reviewed
    <3> QED  BY <3>2, <3>3
  <2>5. ASSUME pc[c] = "ensure", pc'[c] = "issued",
               \A u \in 1..Len(tasks') : u # t => u \in 1..Len(tasks) /\ tasks'[u] = tasks[u]
        PROVE  \A u \in 1..Len(tasks') : tasks'[u].confirmation = c => u = t
    <3>1. \A u \in 1..Len(tasks) : tasks[u].confirmation # c
      BY <1>0, <1>3, <2>3, <2>5 DEF IssuedOnce
    <3> QED  BY <2>5, <3>1
  <2>6. Reviewed(t)  BY Review
  <2> QED  BY <2>1, <2>2, <2>4, <2>5, <2>6 DEF Reviewed
<1>8. ASSUME NEW f \in applied
      PROVE  /\ f \in Flows /\ pc'[f] # "new"
             /\ WorkflowOf(f) = "doc_rewrite" =>
                  /\ conf'[f] # None /\ pc'[conf'[f]] = "issued"
                  /\ \A t \in 1..Len(tasks') :
                       tasks'[t].confirmation = conf'[f] =>
                         tasks'[t].workflow_state # "awaiting_review"
  <2>1. f \in Flows /\ pc'[f] # "new"  BY <1>0, <1>2 DEF UsedUp, PlacesKept
  <2>2. ASSUME WorkflowOf(f) = "doc_rewrite"
        PROVE  /\ conf'[f] # None /\ pc'[conf'[f]] = "issued"
               /\ \A t \in 1..Len(tasks') :
                    tasks'[t].confirmation = conf'[f] =>
                      tasks'[t].workflow_state # "awaiting_review"
    <3>1. PICK c : c = conf[f]  OBVIOUS
    <3>2. /\ c \in Flows /\ c # None /\ pc[c] = "issued" /\ conf'[f] = c
          /\ \A t \in 1..Len(tasks) :
               tasks[t].confirmation = c => tasks[t].workflow_state # "awaiting_review"
      BY <1>0, <1>2, <1>5, <2>1, <2>2, <3>1 DEF UsedUp
    <3>3. pc'[c] = "issued"  BY <1>0, <3>2 DEF PlacesKept
    <3>4. ASSUME NEW t \in 1..Len(tasks'), tasks'[t].confirmation = c
          PROVE  tasks'[t].workflow_state # "awaiting_review"
      <4>1. Reviewed(t)  BY Review
      <4> QED  BY <3>2, <3>4, <4>1 DEF Reviewed
    <3> QED  BY <3>2, <3>3, <3>4
  <2> QED  BY <2>1, <2>2
<1>9. ConfirmationBrought'
  <2>1. ASSUME NEW f \in Flows, kind[f] = "rewrite_apply"  PROVE WorkflowOf(f) = "doc_rewrite"
    BY <2>1 DEF WorkflowOf, Kinds, Flow
  <2>2. SUFFICES ASSUME NEW f \in Flows, conf'[f] # None  PROVE WorkflowOf(f) = "doc_rewrite"
    BY <1>4 DEF ConfirmationBrought
  <2> QED  BY <1>0, <2>1, <2>2, ApplySteps DEF ConfirmationBrought
<1>10. UsedUp' /\ AppliedOnce'
  <2>1. CASE applied' = applied
    <3>1. UsedUp'  BY <1>4, <1>8, <2>1 DEF UsedUp
    <3>2. AppliedOnce'  BY <1>0, <1>2, <1>4, <1>5, <2>1 DEF AppliedOnce
    <3> QED  BY <3>1, <3>2
  <2>2. ASSUME NEW f \in Flows, NEW t \in 1..Len(tasks),
               applied' = applied \cup {f}, UNCHANGED conf, CanMark(f, t), Touched(t),
               pc[f] # "new",
               tasks'[t].workflow_state # "awaiting_review",
               tasks'[t].confirmation = tasks[t].confirmation
        PROVE  UsedUp' /\ AppliedOnce'
    <3>1. ASSUME WorkflowOf(f) = "doc_rewrite"
          PROVE  /\ tasks[t].workflow_state = "awaiting_review"
                 /\ tasks[t].confirmation = conf[f]
                 /\ conf[f] \in Flows /\ conf[f] # None /\ pc[conf[f]] = "issued"
                 /\ \A u \in 1..Len(tasks) : tasks[u].confirmation = conf[f] => u = t
      <4>1. tasks[t].workflow_state = "awaiting_review" /\ tasks[t].confirmation = conf[f]
        BY <2>2, <3>1 DEF CanMark
      <4>2. conf[f] # None /\ conf[f] \in Flows
        BY <1>0, <1>1, <4>1 DEF ReviewHasConfirmation
      <4> QED  BY <1>0, <4>1, <4>2 DEF IssuedOnce
    <3>2. UsedUp'
      <4>1. pc'[f] # "new"  BY <1>0, <2>2 DEF PlacesKept
      <4>2. ASSUME WorkflowOf(f) = "doc_rewrite"
            PROVE  /\ conf'[f] # None /\ pc'[conf'[f]] = "issued"
                   /\ \A u \in 1..Len(tasks') :
                        tasks'[u].confirmation = conf'[f] =>
                          tasks'[u].workflow_state # "awaiting_review"
        <5>1. PICK c : c = conf[f]  OBVIOUS
        <5>2. conf'[f] = c /\ c \in Flows /\ c # None /\ pc'[c] = "issued"
          BY <1>0, <2>2, <3>1, <4>2, <5>1 DEF PlacesKept
        <5>3. \A u \in 1..Len(tasks') :
                tasks'[u].confirmation = c => tasks'[u].workflow_state # "awaiting_review"
          BY <2>2, <3>1, <4>2, <5>1 DEF Touched
        <5> QED  BY <5>2, <5>3
      <4> QED  BY <1>4, <1>8, <2>2, <4>1, <4>2 DEF UsedUp
    <3>3. ASSUME NEW g \in applied, g # f, conf[g] = conf[f],
                 WorkflowOf(f) = "doc_rewrite" \/ WorkflowOf(g) = "doc_rewrite"
          PROVE  FALSE
      <4>1. g \in Flows  BY <1>2
      <4>2. WorkflowOf(f) = "doc_rewrite" => conf[f] # None  BY <3>1
      <4>3. WorkflowOf(g) = "doc_rewrite" => conf[g] # None  BY <1>0 DEF UsedUp
      <4>4. WorkflowOf(f) = "doc_rewrite" /\ WorkflowOf(g) = "doc_rewrite"
        BY <1>0, <3>3, <4>1, <4>2, <4>3 DEF ConfirmationBrought
      <4> QED  BY <1>0, <3>1, <3>3, <4>4 DEF UsedUp
    <3>4. AppliedOnce'
      <4>1. SUFFICES ASSUME NEW g \in applied \cup {f}, NEW h \in applied \cup {f}, g # h,
                            WorkflowOf(g) = "doc_rewrite"
                     PROVE  conf[g] # conf[h]
        BY <1>2, <1>4, <2>2 DEF AppliedOnce
      <4> QED  BY <1>0, <3>3, <4>1 DEF AppliedOnce
    <3> QED  BY <3>2, <3>4
  <2> QED  BY <2>1, <2>2, ApplySteps
<1> QED  BY <1>6, <1>7, <1>9, <1>10 DEF ApplyInv

\* Of two applies with one confirmation at most one is let through to the write:
\* markDocRewriteApplying takes the task out of the review it awaited, and no other
\* task, now or later, awaits a review with that confirmation.
THEOREM ConfirmationsApplyOnce == Spec => []AppliedOnce
<1>1. Types /\ ApplyInv /\ [Next]_vars => (Types /\ ApplyInv)'
  BY TypesNext, ApplyNext
<1>2. ApplyInv => AppliedOnce  BY DEF ApplyInv
<1> QED  BY <1>1, <1>2, TypesInit, ApplyInit, PTL DEF Spec
=============================================================================
