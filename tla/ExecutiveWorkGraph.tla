------------------------- MODULE ExecutiveWorkGraph -------------------------
(***************************************************************************)
(* One executive work graph: the SQLite tables of                          *)
(* executive-work-graph.mjs and the passes over it that the autonomy       *)
(* worker makes (executeExecutiveWorkGraphAutonomyJob in                   *)
(* worker/autonomy-worker-loop.mjs).  The graph is the star that           *)
(* buildWorkGraphFromDecision compiles: every specialist node is a hard    *)
(* dependency of the merge node.                                           *)
(*                                                                         *)
(* A pass is one execution attempt of the graph's autonomy job.  Passes    *)
(* overlap: the job is retried when its lease expires or when its          *)
(* execution times out, and the timed-out pass keeps running.  Every store *)
(* call is a transaction and an action; only the start and the heartbeat   *)
(* of a node, which follow each other without an await, share one.         *)
(*                                                                         *)
(* attempt_id is unique per claim, as is attempt_count, so an attempt is   *)
(* identified by its node and number.  Lease expiry is left out because no *)
(* operation reads lease_expires_at.                                       *)
(***************************************************************************)
EXTENDS Naturals, FiniteSets

CONSTANTS
  Specialists,     \* the nodes compiled from the work plan
  Merge,           \* n_merge
  Passes,          \* the executions of the graph's autonomy job
  Workers,
  WorkerOf,        \* the lease_owner of the job when the pass was started
  NoWorker,
  MaxRetries,      \* retry_policy.max_retries of a specialist (the code's: 2)
  MaxParallel,     \* maxParallelNodes (3)
  RoundLimit,      \* rounds of one pass (8)
  AttemptCap,      \* bound: attempts of one node
  ReplayCap,       \* bound: replays of one node's deadletters
  CarefulReplays   \* does the operator replay only open deadletters of dead nodes?

Nodes == Specialists \cup {Merge}

ASSUME GraphAssumption ==
  /\ Merge \notin Specialists
  /\ WorkerOf \in [Passes -> Workers]
  /\ NoWorker \notin Workers
  /\ MaxRetries \in Nat
  /\ MaxParallel \in Nat \ {0}
  /\ RoundLimit \in Nat \ {0}
  /\ AttemptCap \in Nat \ {0}
  /\ ReplayCap \in Nat
  /\ CarefulReplays \in BOOLEAN

VARIABLES
  nodes,         \* rows of executive_work_nodes
  leases,        \* rows of executive_node_leases; attempt 0: no row
  attempts,      \* status of the rows of executive_node_attempts
  artifacts,     \* the attempts that left artifacts, by node
  deadletters,   \* status of the rows of executive_deadletters, by failed attempt
  replays,       \* sum of replay_count over the deadletters of a node
  graph,         \* executive_work_graphs.status
  passes         \* local variables of each pass

vars == <<nodes, leases, attempts, artifacts, deadletters, replays, graph, passes>>

AttemptNo == 1 .. AttemptCap

NodeState == {"queued", "claimed", "running", "succeeded", "failed", "blocked",
              "deadletter"}

NodeRow == [state : NodeState, attempt_count : 0 .. AttemptCap,
            next_run : {"later", "due"}]      \* NULL counts as due

Lease == [worker : Workers \cup {NoWorker}, attempt : 0 .. AttemptCap]

\* "rejected": start, heartbeat or merge gate failed, so the result is a failure.
Claim == [node : Nodes, attempt : AttemptNo,
          status : {"claimed", "executing", "rejected"}]

PassState == [phase : {"waiting", "schedule", "claim", "execute", "finish",
                       "ended", "crashed"},
              round : 0 .. RoundLimit,
              claims : SUBSET Claim]

GraphStatus == {"queued", "completed", "deadletter", "blocked"}

TypeOK ==
  /\ nodes \in [Nodes -> NodeRow]
  /\ leases \in [Nodes -> Lease]
  /\ attempts \in [Nodes -> [AttemptNo -> {"none", "running", "succeeded", "failed"}]]
  /\ artifacts \in [Nodes -> SUBSET AttemptNo]
  /\ deadletters \in [Nodes -> [AttemptNo -> {"none", "open", "replayed"}]]
  /\ replays \in [Nodes -> 0 .. ReplayCap]
  /\ graph \in GraphStatus
  /\ passes \in [Passes -> PassState]

-----------------------------------------------------------------------------
(* The graph *)

Deps(n) == IF n = Merge THEN Specialists ELSE {}

\* normalizeRetryPolicy of the compiled node: the merge node is never retried.
RetryLimit(n) == IF n = Merge THEN 0 ELSE MaxRetries

NoLease == [worker |-> NoWorker, attempt |-> 0]

\* deriveInitialNodeState
InitialState(n) == IF Deps(n) = {} THEN "queued" ELSE "blocked"

\* persistExecutiveWorkGraph, called once per graph: graph ids are random.
Init ==
  /\ nodes = [n \in Nodes |-> [state |-> InitialState(n), attempt_count |-> 0,
                               next_run |-> "due"]]
  /\ leases = [n \in Nodes |-> NoLease]
  /\ attempts = [n \in Nodes |-> [a \in AttemptNo |-> "none"]]
  /\ artifacts = [n \in Nodes |-> {}]
  /\ deadletters = [n \in Nodes |-> [a \in AttemptNo |-> "none"]]
  /\ replays = [n \in Nodes |-> 0]
  /\ graph = "queued"
  /\ passes = [p \in Passes |-> [phase |-> "waiting", round |-> 0, claims |-> {}]]

\* Mutant: the dependency check is forgotten.
DepsIgnored(n) == TRUE

\* The NOT EXISTS clause of the scheduling UPDATE and of the claiming SELECT.
DepsSucceeded(n) == \A d \in Deps(n) : nodes[d].state = "succeeded"

\* Mutant: finished nodes are scheduled again.
SchedulableAfterSuccess == {"blocked", "failed", "succeeded"}

SchedulableStates == {"blocked", "failed"}

\* scheduleExecutableWorkNodes
Scheduled ==
  [n \in Nodes |->
     IF nodes[n].state \in SchedulableStates /\ DepsSucceeded(n)
       THEN [nodes[n] EXCEPT !.state = "queued"]
       ELSE nodes[n]]

-----------------------------------------------------------------------------
(* A pass: at most RoundLimit rounds of schedule, claim, execute, settle *)

BeginPass(p) ==
  /\ passes[p].phase = "waiting"
  /\ passes' = [passes EXCEPT ![p] = [@ EXCEPT !.phase = "schedule"]]
  /\ UNCHANGED <<nodes, leases, attempts, artifacts, deadletters, replays, graph>>

Schedule(p) ==
  /\ passes[p].phase = "schedule"
  /\ nodes' = Scheduled
  /\ passes' = [passes EXCEPT ![p] = [@ EXCEPT !.phase = "claim"]]
  /\ UNCHANGED <<leases, attempts, artifacts, deadletters, replays, graph>>

\* Mutant: a node may be claimed until it has been started.
ClaimableUntilStarted == {"queued", "claimed"}

ClaimableStates == {"queued"}

\* The order of the SELECT is left out: any candidate may come first.
IsCandidate(n) ==
  /\ nodes[n].state \in ClaimableStates
  /\ nodes[n].next_run = "due"
  /\ DepsSucceeded(n)

WithClaims(p, claims) == [passes EXCEPT ![p] = [@ EXCEPT !.claims = claims]]

CanClaim(p) == passes[p].phase = "claim" /\ Cardinality(passes[p].claims) < MaxParallel

\* Mutant: INSERT OR IGNORE instead of the upsert.
KeepOldLease(n, w, a) ==
  IF leases[n] = NoLease THEN [worker |-> w, attempt |-> a] ELSE leases[n]

\* INSERT ... ON CONFLICT DO UPDATE
UpsertedLease(n, w, a) == [worker |-> w, attempt |-> a]

\* claimNextExecutableWorkNode
ClaimNode(p, n) ==
  LET a == nodes[n].attempt_count + 1 IN
  /\ CanClaim(p)
  /\ IsCandidate(n)
  /\ nodes[n].attempt_count < AttemptCap                           \* bound
  /\ nodes' = [nodes EXCEPT ![n] = [@ EXCEPT !.state = "claimed",
                                             !.attempt_count = a]]
  /\ attempts' = [attempts EXCEPT ![n][a] = "running"]
  /\ leases' = [leases EXCEPT ![n] = UpsertedLease(n, WorkerOf[p], a)]
  /\ passes' = WithClaims(p, passes[p].claims \cup
                   {[node |-> n, attempt |-> a, status |-> "claimed"]})
  /\ UNCHANGED <<artifacts, deadletters, replays, graph>>

\* The claim loop ends; a round that claimed nothing ends the pass.
StopClaiming(p) ==
  /\ passes[p].phase = "claim"
  /\ ~CanClaim(p) \/ \A n \in Nodes : ~IsCandidate(n)
  /\ passes' = [passes EXCEPT ![p] = [@ EXCEPT !.phase =
                  IF passes[p].claims = {} THEN "finish" ELSE "execute"]]
  /\ UNCHANGED <<nodes, leases, attempts, artifacts, deadletters, replays, graph>>

\* checkMergeArtifactCompleteness, for the merge node only.
MergeGate(n) == \A d \in Deps(n) : nodes[d].state = "succeeded" /\ artifacts[d] # {}

\* startExecutableWorkNodeExecution, heartbeatExecutableWorkNodeLease and the
\* merge gate of executeExecutiveWorkGraphNode.  The start asks only for the
\* state "claimed", the heartbeat only for a lease of the same worker id; the
\* attempt of the lease is not compared.
StartNode(p, c) ==
  LET started == nodes[c.node].state = "claimed"
      accepted == /\ started
                  /\ leases[c.node].worker = WorkerOf[p]
                  /\ MergeGate(c.node)
  IN
  /\ passes[p].phase = "execute"
  /\ c \in passes[p].claims
  /\ c.status = "claimed"
  /\ nodes' = IF started THEN [nodes EXCEPT ![c.node] = [@ EXCEPT !.state = "running"]] ELSE nodes
  /\ attempts' = IF started THEN [attempts EXCEPT ![c.node][c.attempt] = "running"]
                            ELSE attempts
  /\ passes' = WithClaims(p, (passes[p].claims \ {c}) \cup
                   {[c EXCEPT !.status = IF accepted THEN "executing" ELSE "rejected"]})
  /\ UNCHANGED <<leases, artifacts, deadletters, replays, graph>>

\* Promise.all has returned: every claim was started and has a result.
Returned(p) ==
  /\ passes[p].phase = "execute"
  /\ \A c \in passes[p].claims : c.status # "claimed"

\* The loop goes to the next result, to the next round or to the summary.
AfterSettling(p, rest) ==
  IF rest # {} THEN [passes[p] EXCEPT !.claims = rest]
  ELSE [phase  |-> IF passes[p].round + 1 < RoundLimit THEN "schedule" ELSE "finish",
        round  |-> passes[p].round + 1,
        claims |-> {}]

SettleClaim(p, c) ==
  passes' = [passes EXCEPT ![p] = AfterSettling(p, passes[p].claims \ {c})]

\* completeExecutableWorkNode: refused, and the refusal ignored, unless the
\* lease is this worker's for this attempt.  A reply always has an artifact:
\* an empty one was turned into a failure.
CompleteNode(p, c) ==
  LET owned == leases[c.node] = [worker |-> WorkerOf[p], attempt |-> c.attempt] IN
  /\ Returned(p)
  /\ c \in passes[p].claims
  /\ c.status = "executing"
  /\ IF owned
       THEN /\ attempts' = [attempts EXCEPT ![c.node][c.attempt] = "succeeded"]
            /\ artifacts' = [artifacts EXCEPT ![c.node] = @ \cup {c.attempt}]
            /\ leases' = [leases EXCEPT ![c.node] = NoLease]
            /\ nodes' = [nodes EXCEPT ![c.node] = [@ EXCEPT !.state = "succeeded",
                                                            !.next_run = "due"]]
       ELSE UNCHANGED <<attempts, artifacts, leases, nodes>>
  /\ SettleClaim(p, c)
  /\ UNCHANGED <<deadletters, replays, graph>>

\* Mutant: one retry too many.
CanRetryOnceMore(n) == nodes[n].attempt_count <= RetryLimit(n) + 1

CanRetry(n) == nodes[n].attempt_count <= RetryLimit(n)

\* Mutant: one deadletter per node.
FirstDeadletter(n, a) ==
  IF \A b \in AttemptNo : deadletters[n][b] = "none"
    THEN [deadletters EXCEPT ![n][a] = "open"]
    ELSE deadletters

AddedDeadletter(n, a) == [deadletters EXCEPT ![n][a] = "open"]

\* failExecutableWorkNode: neither the state nor the attempt of the lease is
\* checked, and the lease is deleted only if the worker id is the same.  The
\* retryable flag of the result is not used.
FailNode(p, c, backoff) ==
  LET n == c.node
      a == c.attempt
  IN
  /\ Returned(p)
  /\ c \in passes[p].claims
  /\ attempts' = [attempts EXCEPT ![n][a] = "failed"]
  /\ leases' = IF leases[n].worker = WorkerOf[p]
                 THEN [leases EXCEPT ![n] = NoLease] ELSE leases
  /\ IF CanRetry(n)
       THEN /\ nodes' = [nodes EXCEPT ![n] = [@ EXCEPT !.state = "queued",
                                                       !.next_run = backoff]]
            /\ UNCHANGED deadletters
       ELSE /\ nodes' = [nodes EXCEPT ![n] = [@ EXCEPT !.state = "deadletter",
                                                       !.next_run = "due"]]
            /\ deadletters' = AddedDeadletter(n, a)
  /\ SettleClaim(p, c)
  /\ UNCHANGED <<artifacts, replays, graph>>

SomeNode(rows, states) == \E n \in Nodes : rows[n].state \in states

\* terminal_state of getExecutiveWorkGraphSummary
TerminalState(rows) ==
  IF rows[Merge].state = "succeeded" THEN "completed"
  ELSE IF SomeNode(rows, {"deadletter"}) THEN "deadletter"
  ELSE IF /\ SomeNode(rows, {"blocked"})
          /\ ~SomeNode(rows, {"queued", "claimed", "running"}) THEN "blocked"
  ELSE "running"

\* Mutant: the terminal state is stored even when the graph is still running.
StoredStatusAlways(terminal) == terminal

\* updateExecutiveWorkGraphStatus, called for the three terminal states only.
StoredStatus(terminal) == IF terminal = "running" THEN graph ELSE terminal

\* The last scheduling, the summary and the graph status, without an await.
Finish(p) ==
  /\ passes[p].phase = "finish"
  /\ nodes' = Scheduled
  /\ graph' = StoredStatus(TerminalState(Scheduled))
  /\ passes' = [passes EXCEPT ![p] = [@ EXCEPT !.phase = "ended"]]
  /\ UNCHANGED <<leases, attempts, artifacts, deadletters, replays>>

\* The process dies in the middle of a pass.
Crash(p) ==
  /\ passes[p].phase \in {"schedule", "claim", "execute", "finish"}
  /\ passes' = [passes EXCEPT ![p] = [@ EXCEPT !.phase = "crashed", !.claims = {}]]
  /\ UNCHANGED <<nodes, leases, attempts, artifacts, deadletters, replays, graph>>

-----------------------------------------------------------------------------
(* Time and the operator *)

\* The backoff of a retried node is over.
BackoffElapses(n) ==
  /\ nodes[n].next_run = "later"
  /\ nodes' = [nodes EXCEPT ![n] = [@ EXCEPT !.next_run = "due"]]
  /\ UNCHANGED <<leases, attempts, artifacts, deadletters, replays, graph, passes>>

\* Mutant: a replayed node starts from scratch.
ReplayFromScratch(n, a) ==
  /\ deadletters[n][a] # "none"
  /\ replays[n] < ReplayCap
  /\ deadletters' = [deadletters EXCEPT ![n][a] = "replayed"]
  /\ replays' = [replays EXCEPT ![n] = @ + 1]
  /\ artifacts' = [artifacts EXCEPT ![n] = {}]
  /\ nodes' = [nodes EXCEPT ![n] = [@ EXCEPT !.state = "queued", !.next_run = "due"]]
  /\ UNCHANGED <<leases, attempts, graph, passes>>

\* replayExecutiveDeadletter: the code checks neither the status of the
\* deadletter nor the state of the node; CarefulReplays is the operator's care.
ReplayDeadletter(n, a) ==
  /\ deadletters[n][a] # "none"
  /\ replays[n] < ReplayCap                                        \* bound
  /\ CarefulReplays => deadletters[n][a] = "open" /\ nodes[n].state = "deadletter"
  /\ deadletters' = [deadletters EXCEPT ![n][a] = "replayed"]
  /\ replays' = [replays EXCEPT ![n] = @ + 1]
  /\ nodes' = [nodes EXCEPT ![n] = [@ EXCEPT !.state = "queued", !.next_run = "due"]]
  /\ UNCHANGED <<leases, attempts, artifacts, graph, passes>>

-----------------------------------------------------------------------------
PassStep(p) ==
  \/ BeginPass(p)
  \/ Schedule(p)
  \/ \E n \in Nodes : ClaimNode(p, n)
  \/ StopClaiming(p)
  \/ \E c \in passes[p].claims :
       \/ StartNode(p, c)
       \/ CompleteNode(p, c)
       \/ \E backoff \in {"due", "later"} : FailNode(p, c, backoff)
  \/ Finish(p)
  \/ Crash(p)

NodeStep(n) ==
  \/ BackoffElapses(n)
  \/ \E a \in AttemptNo : ReplayDeadletter(n, a)

Next == (\E p \in Passes : PassStep(p)) \/ (\E n \in Nodes : NodeStep(n))

Spec == Init /\ [][Next]_vars

-----------------------------------------------------------------------------
(* Properties that hold whatever the operator replays *)

Held(n) == nodes[n].state \in {"claimed", "running"}

Holds(p, n, a) == \E c \in passes[p].claims : c.node = n /\ c.attempt = a

HasHolder(n) ==
  /\ leases[n].attempt = nodes[n].attempt_count
  /\ \/ \E p \in Passes : /\ Holds(p, n, nodes[n].attempt_count)
                          /\ leases[n].worker = WorkerOf[p]
     \/ \E p \in Passes : passes[p].phase = "crashed"

\* A claimed or running node has a lease for its newest attempt and a pass
\* that still has to settle that attempt, unless a pass died: although
\* failExecutableWorkNode never compares attempts, no order of late results
\* leaves a node held by nobody.
HeldNodeHasHolder == \A n \in Nodes : Held(n) => HasHolder(n)

\* Every node in deadletter has an open deadletter row that an operator can
\* list and replay, also after earlier replays.
DeadletterIsListed ==
  \A n \in Nodes : nodes[n].state = "deadletter" =>
    \E a \in AttemptNo : deadletters[n][a] = "open"

\* A node runs at most once per allowed retry plus once per replay, and a
\* queued node has such an execution left, however many passes overlap.
NodeAttemptBudget ==
  \A n \in Nodes :
    /\ nodes[n].attempt_count <= RetryLimit(n) + 1 + replays[n]
    /\ nodes[n].state \in {"queued", "blocked", "failed"} =>
         nodes[n].attempt_count <= RetryLimit(n) + replays[n]

\* No completion without inputs: when the merge node has succeeded, or the
\* graph was reported completed, every specialist has left an artifact.
MergeHasInputs ==
  nodes[Merge].state = "succeeded" \/ graph = "completed" =>
    \A d \in Specialists : artifacts[d] # {}

\* What these rest on: a pass that executes the merge node saw its inputs,
\* and artifacts are never deleted; no pass goes on after its last round.
MergeClaimsHaveInputs ==
  \A p \in Passes : \A c \in passes[p].claims :
    c.node = Merge /\ c.status = "executing" => \A d \in Specialists : artifacts[d] # {}

RoundsLeft ==
  \A p \in Passes : passes[p].phase \in {"waiting", "schedule", "claim", "execute"} =>
    passes[p].round < RoundLimit

GraphInv ==
  /\ TypeOK
  /\ RoundsLeft
  /\ HeldNodeHasHolder
  /\ DeadletterIsListed
  /\ NodeAttemptBudget
  /\ MergeClaimsHaveInputs
  /\ MergeHasInputs

-----------------------------------------------------------------------------
(* Properties under careful replays *)

\* Two passes never work on the same node: node claims keep passes apart even
\* when the lease of the job no longer does.
NodeExclusive ==
  \A p, q \in Passes :
    \A c \in passes[p].claims, d \in passes[q].claims :
      c.node = d.node => p = q /\ c = d

\* A node that has succeeded is never executed again.
SucceededIsFinal ==
  [][\A n \in Nodes :
       nodes[n].state = "succeeded" => nodes'[n].state = "succeeded"]_vars

\* The merge node is claimed, running or succeeded only over succeeded
\* specialists: none of its inputs is being redone under it.
MergeAfterInputs ==
  nodes[Merge].state \in {"claimed", "running", "succeeded"} =>
    \A d \in Specialists : nodes[d].state = "succeeded"

\* A claim of a pass holds its node, in the node's newest attempt.
ClaimsHold ==
  \A p \in Passes : \A c \in passes[p].claims :
    Held(c.node) /\ c.attempt = nodes[c.node].attempt_count

CarefulInv ==
  /\ ClaimsHold
  /\ NodeExclusive
  /\ MergeAfterInputs
=============================================================================
