---------------------- MODULE ExecutiveWorkGraphProofs ----------------------
(***************************************************************************)
(* Proofs about ExecutiveWorkGraph: the invariant GraphInv is inductive    *)
(* whatever the operator replays, and under careful replays the passes     *)
(* exclude each other node by node.                                        *)
(***************************************************************************)
EXTENDS ExecutiveWorkGraph, TLAPS

USE GraphAssumption

-----------------------------------------------------------------------------
(* Updates of rows *)

\* The empty lease is a lease.
LEMMA NoLeaseType == NoLease \in Lease
BY DEF NoLease, Lease

\* Updating a table that is indexed by node and attempt.
LEMMA CellUpdate ==
  ASSUME NEW T, NEW f \in [Nodes -> [AttemptNo -> T]],
         NEW n \in Nodes, NEW a \in AttemptNo, NEW v \in T
  PROVE  /\ [f EXCEPT ![n][a] = v] \in [Nodes -> [AttemptNo -> T]]
         /\ [f EXCEPT ![n][a] = v][n][a] = v
         /\ \A m \in Nodes : m # n => [f EXCEPT ![n][a] = v][m] = f[m]
OBVIOUS

\* Replacing the state of one pass.
LEMMA OnePass ==
  ASSUME TypeOK, NEW p \in Passes, NEW r \in PassState,
         passes' = [passes EXCEPT ![p] = r]
  PROVE  /\ passes' \in [Passes -> PassState]
         /\ passes'[p] = r
         /\ \A q \in Passes : q # p => passes'[q] = passes[q]
BY DEF TypeOK

\* Replacing the row of one node.
LEMMA OneNode ==
  ASSUME TypeOK, NEW n \in Nodes, NEW r \in NodeRow,
         nodes' = [nodes EXCEPT ![n] = r]
  PROVE  /\ nodes' \in [Nodes -> NodeRow]
         /\ nodes'[n] = r
         /\ \A m \in Nodes : m # n => nodes'[m] = nodes[m]
BY DEF TypeOK

-----------------------------------------------------------------------------
(* What each action does to well-typed state *)

\* What the invariants say of the passes: their claims, who crashed, and that
\* a pass that may begin another round has one left.
SamePass(p) ==
  /\ passes'[p].claims = passes[p].claims
  /\ passes[p].phase = "crashed" => passes'[p].phase = "crashed"

\* Scheduling changes states only, and only to "queued".
LEMMA ScheduledRows ==
  ASSUME TypeOK
  PROVE  /\ Scheduled \in [Nodes -> NodeRow]
         /\ \A n \in Nodes :
              /\ Scheduled[n].attempt_count = nodes[n].attempt_count
              /\ \/ Scheduled[n].state = nodes[n].state
                 \/ /\ Scheduled[n].state = "queued"
                    /\ nodes[n].state \in {"blocked", "failed"}
<1>1. ASSUME NEW n \in Nodes
      PROVE  /\ Scheduled[n] \in NodeRow
             /\ Scheduled[n].attempt_count = nodes[n].attempt_count
             /\ \/ Scheduled[n].state = nodes[n].state
                \/ /\ Scheduled[n].state = "queued"
                   /\ nodes[n].state \in {"blocked", "failed"}
  <2>1. nodes[n] \in NodeRow /\ "queued" \in NodeState
    BY DEF TypeOK, NodeState
  <2>2. CASE nodes[n].state \in SchedulableStates /\ DepsSucceeded(n)
    <3>1. Scheduled[n] = [nodes[n] EXCEPT !.state = "queued"]
      BY <2>2 DEF Scheduled
    <3> QED BY <2>1, <2>2, <3>1 DEF SchedulableStates, NodeRow
  <2>3. CASE ~(nodes[n].state \in SchedulableStates /\ DepsSucceeded(n))
    <3>1. Scheduled[n] = nodes[n]
      BY <2>3 DEF Scheduled
    <3> QED BY <2>1, <3>1
  <2> QED BY <2>2, <2>3
<1>2. Scheduled = [n \in Nodes |-> Scheduled[n]]
  BY DEF Scheduled
<1> QED BY <1>1, <1>2

\* BeginPass and StopClaiming change the phase of one pass.
LEMMA PhaseEffect ==
  ASSUME TypeOK, RoundsLeft, NEW p \in Passes, BeginPass(p) \/ StopClaiming(p)
  PROVE  /\ TypeOK' /\ RoundsLeft'
         /\ \A q \in Passes : SamePass(q)
         /\ UNCHANGED <<nodes, leases, artifacts, deadletters, replays, graph>>
<1>1. passes[p] \in PassState
  BY DEF TypeOK
<1>2. PICK ph \in {"schedule", "execute", "finish"} :
        passes' = [passes EXCEPT ![p] = [passes[p] EXCEPT !.phase = ph]]
  BY DEF BeginPass, StopClaiming
<1>3. passes[p].phase \in {"waiting", "claim"}
  BY DEF BeginPass, StopClaiming
<1> DEFINE r == [passes[p] EXCEPT !.phase = ph]
<1>4. /\ r \in PassState /\ r.phase = ph
      /\ r.round = passes[p].round /\ r.claims = passes[p].claims
  BY <1>1 DEF PassState
<1> HIDE DEF r
<1>5. /\ passes' \in [Passes -> PassState] /\ passes'[p] = r
      /\ \A q \in Passes : q # p => passes'[q] = passes[q]
  BY <1>2, <1>4, OnePass DEF r
<1>6. RoundsLeft' /\ \A q \in Passes : SamePass(q)
  BY <1>3, <1>4, <1>5 DEF RoundsLeft, SamePass
<1>7. UNCHANGED <<nodes, leases, attempts, artifacts, deadletters, replays, graph>>
  BY DEF BeginPass, StopClaiming
<1> QED BY <1>5, <1>6, <1>7 DEF TypeOK

\* Schedule and Finish install the scheduled rows; Finish may store a status.
LEMMA ScheduleEffect ==
  ASSUME TypeOK, RoundsLeft, NEW p \in Passes, Schedule(p) \/ Finish(p)
  PROVE  /\ TypeOK' /\ RoundsLeft'
         /\ nodes' = Scheduled
         /\ graph' = "completed" => graph = "completed" \/ nodes'[Merge].state = "succeeded"
         /\ \A q \in Passes : SamePass(q)
         /\ UNCHANGED <<leases, artifacts, deadletters, replays>>
<1>1. passes[p] \in PassState
  BY DEF TypeOK
<1>2. PICK ph \in {"claim", "ended"} :
        /\ passes' = [passes EXCEPT ![p] = [passes[p] EXCEPT !.phase = ph]]
        /\ ph = "claim" => passes[p].phase = "schedule"
  BY DEF Schedule, Finish
<1>3. passes[p].phase \in {"schedule", "finish"}
  BY DEF Schedule, Finish
<1> DEFINE r == [passes[p] EXCEPT !.phase = ph]
<1>4. /\ r \in PassState /\ r.phase = ph
      /\ r.round = passes[p].round /\ r.claims = passes[p].claims
  BY <1>1 DEF PassState
<1> HIDE DEF r
<1>5. /\ passes' \in [Passes -> PassState] /\ passes'[p] = r
      /\ \A q \in Passes : q # p => passes'[q] = passes[q]
  BY <1>2, <1>4, OnePass DEF r
<1>6. RoundsLeft' /\ \A q \in Passes : SamePass(q)
  BY <1>2, <1>3, <1>4, <1>5 DEF RoundsLeft, SamePass
<1>7. nodes' = Scheduled /\ UNCHANGED <<leases, attempts, artifacts, deadletters, replays>>
  BY DEF Schedule, Finish
<1>8. /\ graph' \in GraphStatus
      /\ graph' = "completed" => graph = "completed" \/ nodes'[Merge].state = "succeeded"
  <2>1. CASE Schedule(p)
    BY <2>1 DEF Schedule, TypeOK
  <2>2. CASE Finish(p)
    <3>1. graph' = StoredStatus(TerminalState(nodes'))
      BY <1>7, <2>2 DEF Finish
    <3>2. TerminalState(nodes') \in {"completed", "deadletter", "blocked", "running"}
      BY DEF TerminalState
    <3>3. TerminalState(nodes') = "completed" => nodes'[Merge].state = "succeeded"
      BY DEF TerminalState
    <3> QED BY <3>1, <3>2, <3>3 DEF StoredStatus, GraphStatus, TypeOK
  <2> QED BY <2>1, <2>2
<1> QED BY <1>5, <1>6, <1>7, <1>8, ScheduledRows DEF TypeOK

\* ClaimNode makes attempt_count + 1 the attempt of the row, the lease and the claim.
LEMMA ClaimEffect ==
  ASSUME TypeOK, RoundsLeft, NEW p \in Passes, NEW n \in Nodes, ClaimNode(p, n)
  PROVE  /\ TypeOK' /\ RoundsLeft'
         /\ nodes'[n].state = "claimed"
         /\ nodes'[n].attempt_count = nodes[n].attempt_count + 1
         /\ \A m \in Nodes : m # n => nodes'[m] = nodes[m] /\ leases'[m] = leases[m]
         /\ leases'[n].worker = WorkerOf[p]
         /\ leases'[n].attempt = nodes[n].attempt_count + 1
         /\ passes'[p].claims = passes[p].claims \cup
              {[node |-> n, attempt |-> nodes[n].attempt_count + 1, status |-> "claimed"]}
         /\ \A q \in Passes : q # p => SamePass(q)
         /\ passes[p].phase # "crashed"
         /\ nodes[n].state = "queued" /\ DepsSucceeded(n)
         /\ UNCHANGED <<artifacts, deadletters, replays, graph>>
<1> DEFINE a == nodes[n].attempt_count + 1
           c == [node |-> n, attempt |-> a, status |-> "claimed"]
           row == [nodes[n] EXCEPT !.state = "claimed", !.attempt_count = a]
           lease == [worker |-> WorkerOf[p], attempt |-> a]
           r == [passes[p] EXCEPT !.claims = passes[p].claims \cup {c}]
<1>1. nodes[n] \in NodeRow /\ passes[p] \in PassState
  BY DEF TypeOK
<1>2. a \in AttemptNo /\ a \in 0 .. AttemptCap
  BY <1>1 DEF ClaimNode, NodeRow, AttemptNo
<1>3. row \in NodeRow /\ row.state = "claimed" /\ row.attempt_count = a
  BY <1>1, <1>2 DEF NodeState, NodeRow
<1>4. lease \in Lease /\ lease.worker = WorkerOf[p] /\ lease.attempt = a
  BY <1>2 DEF Lease
<1>5. c \in Claim /\ passes[p].claims \in SUBSET Claim
  BY <1>1, <1>2 DEF Claim, PassState
<1>6. /\ r \in PassState /\ r.claims = passes[p].claims \cup {c}
      /\ r.phase = passes[p].phase /\ r.round = passes[p].round
  BY <1>1, <1>5 DEF PassState
<1>7. /\ nodes' = [nodes EXCEPT ![n] = row]
      /\ leases' = [leases EXCEPT ![n] = lease]
      /\ attempts' = [attempts EXCEPT ![n][a] = "running"]
      /\ passes' = [passes EXCEPT ![p] = r]
  BY DEF ClaimNode, UpsertedLease, WithClaims
<1>8. /\ passes[p].phase = "claim"
      /\ nodes[n].state = "queued" /\ DepsSucceeded(n)
      /\ UNCHANGED <<artifacts, deadletters, replays, graph>>
  BY DEF ClaimNode, CanClaim, IsCandidate, ClaimableStates
<1> HIDE DEF c, row, lease, r
<1>9. /\ nodes' \in [Nodes -> NodeRow] /\ nodes'[n] = row
      /\ \A m \in Nodes : m # n => nodes'[m] = nodes[m]
  BY <1>3, <1>7, OneNode
<1>10. /\ leases' \in [Nodes -> Lease] /\ leases'[n] = lease
       /\ \A m \in Nodes : m # n => leases'[m] = leases[m]
  BY <1>4, <1>7 DEF TypeOK
<1>11. /\ passes' \in [Passes -> PassState] /\ passes'[p] = r
       /\ \A q \in Passes : q # p => passes'[q] = passes[q]
  BY <1>6, <1>7, OnePass
<1>12. attempts' \in [Nodes -> [AttemptNo -> {"none", "running", "succeeded", "failed"}]]
  BY <1>2, <1>7, CellUpdate DEF TypeOK
<1>13. RoundsLeft'
  BY <1>6, <1>11 DEF RoundsLeft
<1>14. TypeOK'
  BY <1>8, <1>9, <1>10, <1>11, <1>12 DEF TypeOK
<1>15. \A q \in Passes : q # p => SamePass(q)
  BY <1>11 DEF SamePass
<1>16. passes'[p].claims = passes[p].claims \cup {c}
  BY <1>6, <1>11
<1> QED BY <1>3, <1>4, <1>8, <1>9, <1>10, <1>13, <1>14, <1>15, <1>16 DEF c

\* StartNode starts a claimed node, whoever claimed it, and marks the claim.
LEMMA StartEffect ==
  ASSUME TypeOK, RoundsLeft, NEW p \in Passes, NEW c \in passes[p].claims, StartNode(p, c)
  PROVE  /\ TypeOK' /\ RoundsLeft'
         /\ c \in Claim
         /\ \E d \in Claim :
              /\ passes'[p].claims = (passes[p].claims \ {c}) \cup {d}
              /\ d.node = c.node /\ d.attempt = c.attempt
              /\ d.status = "executing" => MergeGate(c.node)
         /\ \A m \in Nodes :
              /\ nodes'[m].attempt_count = nodes[m].attempt_count
              /\ \/ nodes'[m].state = nodes[m].state
                 \/ nodes[m].state = "claimed" /\ nodes'[m].state = "running"
         /\ \A q \in Passes : q # p => SamePass(q)
         /\ passes[p].phase # "crashed"
         /\ UNCHANGED <<leases, artifacts, deadletters, replays, graph>>
<1> DEFINE n == c.node
           row == [nodes[n] EXCEPT !.state = "running"]
<1>1. passes[p] \in PassState /\ passes[p].claims \in SUBSET Claim
  BY DEF TypeOK, PassState
<1>2. c \in Claim /\ n \in Nodes /\ c.attempt \in AttemptNo
  BY <1>1 DEF Claim
<1>3. nodes[n] \in NodeRow
  BY <1>2 DEF TypeOK
<1>4. \A s \in {"executing", "rejected"} :
        /\ [c EXCEPT !.status = s] \in Claim
        /\ [c EXCEPT !.status = s].node = c.node
        /\ [c EXCEPT !.status = s].attempt = c.attempt
        /\ [c EXCEPT !.status = s].status = s
  BY <1>2 DEF Claim
<1>5. PICK s \in {"executing", "rejected"} :
        /\ passes' = WithClaims(p, (passes[p].claims \ {c}) \cup {[c EXCEPT !.status = s]})
        /\ s = "executing" => MergeGate(n)
  BY DEF StartNode
<1> DEFINE d == [c EXCEPT !.status = s]
           S == (passes[p].claims \ {c}) \cup {d}
           r == [passes[p] EXCEPT !.claims = S]
<1>6. d \in Claim /\ d.node = c.node /\ d.attempt = c.attempt /\ d.status = s
  BY <1>4
<1>7. S \in SUBSET Claim
  BY <1>1, <1>6
<1> HIDE DEF d
<1>8. r \in PassState /\ r.claims = S /\ r.phase = passes[p].phase /\ r.round = passes[p].round
  BY <1>1, <1>7 DEF PassState
<1>9. passes' = [passes EXCEPT ![p] = r]
  BY <1>5 DEF WithClaims, d
<1> HIDE DEF r, S
<1>10. /\ passes' \in [Passes -> PassState] /\ passes'[p] = r
       /\ \A q \in Passes : q # p => passes'[q] = passes[q]
  BY <1>8, <1>9, OnePass
<1>11. row \in NodeRow /\ row.state = "running" /\ row.attempt_count = nodes[n].attempt_count
  BY <1>3 DEF NodeState, NodeRow
<1>12. nodes' = nodes \/ (nodes[n].state = "claimed" /\ nodes' = [nodes EXCEPT ![n] = row])
  BY DEF StartNode
<1> HIDE DEF row
<1>13. /\ nodes' \in [Nodes -> NodeRow]
       /\ \A m \in Nodes :
            /\ nodes'[m].attempt_count = nodes[m].attempt_count
            /\ \/ nodes'[m].state = nodes[m].state
               \/ nodes[m].state = "claimed" /\ nodes'[m].state = "running"
  <2>1. CASE nodes' = nodes
    BY <2>1 DEF TypeOK
  <2>2. CASE nodes[n].state = "claimed" /\ nodes' = [nodes EXCEPT ![n] = row]
    <3>1. /\ nodes' \in [Nodes -> NodeRow] /\ nodes'[n] = row
          /\ \A m \in Nodes : m # n => nodes'[m] = nodes[m]
      BY <1>2, <1>11, <2>2, OneNode
    <3> QED BY <1>11, <2>2, <3>1
  <2> QED BY <1>12, <2>1, <2>2
<1>14. attempts' \in [Nodes -> [AttemptNo -> {"none", "running", "succeeded", "failed"}]]
  <2>1. CASE nodes[n].state = "claimed"
    <3> DEFINE a == c.attempt
    <3>1. attempts' = [attempts EXCEPT ![n][a] = "running"]
      BY <2>1 DEF StartNode
    <3>2. n \in Nodes /\ a \in AttemptNo
      BY <1>2
    <3> HIDE DEF n, a
    <3> QED BY <3>1, <3>2, CellUpdate DEF TypeOK
  <2>2. CASE nodes[n].state # "claimed"
    BY <2>2 DEF StartNode, TypeOK
  <2> QED BY <2>1, <2>2
<1>15. /\ passes[p].phase = "execute"
       /\ UNCHANGED <<leases, artifacts, deadletters, replays, graph>>
  BY DEF StartNode
<1>16. TypeOK'
  BY <1>10, <1>13, <1>14, <1>15 DEF TypeOK
<1>17. RoundsLeft'
  BY <1>8, <1>10 DEF RoundsLeft
<1>18. \A q \in Passes : q # p => SamePass(q)
  BY <1>10 DEF SamePass
<1>19. /\ passes'[p].claims = (passes[p].claims \ {c}) \cup {d}
       /\ d.status = "executing" => MergeGate(c.node)
  BY <1>5, <1>6, <1>8, <1>10 DEF S
<1> QED BY <1>2, <1>6, <1>13, <1>15, <1>16, <1>17, <1>18, <1>19

\* Settling a claim removes it, and leaves the pass a round if it goes on.
LEMMA SettleEffect ==
  ASSUME TypeOK, RoundsLeft, NEW p \in Passes, NEW c \in passes[p].claims,
         passes[p].phase = "execute", SettleClaim(p, c)
  PROVE  /\ passes' \in [Passes -> PassState]
         /\ RoundsLeft'
         /\ passes'[p].claims = passes[p].claims \ {c}
         /\ \A q \in Passes : q # p => SamePass(q)
<1> DEFINE rest == passes[p].claims \ {c}
           new == AfterSettling(p, rest)
<1>1. passes[p] \in PassState /\ passes[p].round < RoundLimit
  BY DEF TypeOK, RoundsLeft
<1>2. rest \in SUBSET Claim
  BY <1>1 DEF PassState
<1> HIDE DEF rest
<1>3. /\ new \in PassState
      /\ new.claims = rest
      /\ new.phase # "finish" => new.round < RoundLimit
  <2>1. CASE rest # {}
    <3>1. new = [passes[p] EXCEPT !.claims = rest]
      BY <2>1 DEF AfterSettling
    <3> QED BY <1>1, <1>2, <3>1 DEF PassState
  <2>2. CASE rest = {}
    <3> DEFINE ph == IF passes[p].round + 1 < RoundLimit THEN "schedule" ELSE "finish"
               k == passes[p].round + 1
    <3>1. new = [phase |-> ph, round |-> k, claims |-> {}]
      BY <2>2 DEF AfterSettling
    <3>2. k \in 0 .. RoundLimit /\ ph \in {"schedule", "finish"}
      BY <1>1 DEF PassState
    <3>3. ph # "finish" => k < RoundLimit
      OBVIOUS
    <3> HIDE DEF ph, k
    <3> QED BY <2>2, <3>1, <3>2, <3>3 DEF PassState
  <2> QED BY <2>1, <2>2
<1>4. passes' = [passes EXCEPT ![p] = new]
  BY DEF SettleClaim, rest
<1> HIDE DEF new
<1>5. /\ passes' \in [Passes -> PassState] /\ passes'[p] = new
      /\ \A q \in Passes : q # p => passes'[q] = passes[q]
  BY <1>3, <1>4, OnePass
<1>6. RoundsLeft'
  BY <1>3, <1>5 DEF RoundsLeft
<1>7. \A q \in Passes : q # p => SamePass(q)
  BY <1>5 DEF SamePass
<1> QED BY <1>3, <1>5, <1>6, <1>7 DEF rest

\* CompleteNode succeeds the node of a matching lease, and else only settles.
LEMMA CompleteEffect ==
  ASSUME TypeOK, RoundsLeft, NEW p \in Passes, NEW c \in passes[p].claims, CompleteNode(p, c)
  PROVE  /\ TypeOK' /\ RoundsLeft'
         /\ c \in Claim /\ c.status = "executing"
         /\ passes[p].phase = "execute"
         /\ passes'[p].claims = passes[p].claims \ {c}
         /\ \A q \in Passes : q # p => SamePass(q)
         /\ \/ /\ nodes'[c.node].state = "succeeded"
               /\ nodes'[c.node].attempt_count = nodes[c.node].attempt_count
            \/ /\ nodes'[c.node] = nodes[c.node] /\ leases'[c.node] = leases[c.node]
               /\ leases[c.node] # [worker |-> WorkerOf[p], attempt |-> c.attempt]
         /\ \A m \in Nodes : m # c.node => nodes'[m] = nodes[m] /\ leases'[m] = leases[m]
         /\ \A m \in Nodes : artifacts[m] \subseteq artifacts'[m]
         /\ UNCHANGED <<deadletters, replays, graph>>
<1> DEFINE n == c.node
           a == c.attempt
           row == [nodes[n] EXCEPT !.state = "succeeded", !.next_run = "due"]
<1>1. c \in Claim /\ n \in Nodes /\ a \in AttemptNo
  BY DEF TypeOK, PassState, Claim
<1>2. nodes[n] \in NodeRow
  BY <1>1 DEF TypeOK
<1>3. row \in NodeRow /\ row.state = "succeeded" /\ row.attempt_count = nodes[n].attempt_count
  BY <1>2 DEF NodeRow, NodeState
<1>4. /\ passes[p].phase = "execute" /\ c.status = "executing" /\ SettleClaim(p, c)
      /\ UNCHANGED <<deadletters, replays, graph>>
  BY DEF CompleteNode, Returned
<1>5. /\ passes' \in [Passes -> PassState] /\ RoundsLeft'
      /\ passes'[p].claims = passes[p].claims \ {c}
      /\ \A q \in Passes : q # p => SamePass(q)
  BY <1>4, SettleEffect
<1>6. CASE leases[n] = [worker |-> WorkerOf[p], attempt |-> a]
  <2>1. /\ attempts' = [attempts EXCEPT ![n][a] = "succeeded"]
        /\ artifacts' = [artifacts EXCEPT ![n] = artifacts[n] \cup {a}]
        /\ leases' = [leases EXCEPT ![n] = NoLease]
        /\ nodes' = [nodes EXCEPT ![n] = row]
    BY <1>6 DEF CompleteNode
  <2> HIDE DEF n, a, row
  <2>2. /\ nodes' \in [Nodes -> NodeRow] /\ nodes'[n] = row
        /\ \A m \in Nodes : m # n => nodes'[m] = nodes[m]
    BY <1>1, <1>3, <2>1, OneNode
  <2>3. /\ leases' \in [Nodes -> Lease]
        /\ \A m \in Nodes : m # n => leases'[m] = leases[m]
    BY <1>1, <2>1, NoLeaseType DEF TypeOK
  <2>4. /\ artifacts' \in [Nodes -> SUBSET AttemptNo]
        /\ \A m \in Nodes : artifacts[m] \subseteq artifacts'[m]
    BY <1>1, <2>1 DEF TypeOK
  <2>5. attempts' \in [Nodes -> [AttemptNo -> {"none", "running", "succeeded", "failed"}]]
    BY <1>1, <2>1, CellUpdate DEF TypeOK
  <2>6. TypeOK'
    BY <1>4, <1>5, <2>2, <2>3, <2>4, <2>5 DEF TypeOK
  <2>7. nodes'[n].state = "succeeded" /\ nodes'[n].attempt_count = nodes[n].attempt_count
    BY <1>3, <2>2
  <2> QED BY <1>1, <1>4, <1>5, <2>2, <2>3, <2>4, <2>6, <2>7 DEF n
<1>7. CASE leases[n] # [worker |-> WorkerOf[p], attempt |-> a]
  <2>1. UNCHANGED <<attempts, artifacts, leases, nodes>>
    BY <1>7 DEF CompleteNode
  <2>2. TypeOK'
    BY <1>4, <1>5, <2>1 DEF TypeOK
  <2> QED BY <1>1, <1>4, <1>5, <1>7, <2>1, <2>2
<1> QED BY <1>6, <1>7

\* FailNode queues the node again or moves it to deadletter with an open row.
LEMMA FailEffect ==
  ASSUME TypeOK, RoundsLeft, NEW p \in Passes, NEW c \in passes[p].claims,
         NEW b \in {"due", "later"}, FailNode(p, c, b)
  PROVE  /\ TypeOK' /\ RoundsLeft'
         /\ c \in Claim
         /\ passes[p].phase = "execute"
         /\ passes'[p].claims = passes[p].claims \ {c}
         /\ \A q \in Passes : q # p => SamePass(q)
         /\ nodes'[c.node].attempt_count = nodes[c.node].attempt_count
         /\ \/ /\ nodes'[c.node].state = "queued"
               /\ nodes[c.node].attempt_count <= RetryLimit(c.node)
            \/ /\ nodes'[c.node].state = "deadletter"
               /\ deadletters'[c.node][c.attempt] = "open"
         /\ \A m \in Nodes : m # c.node =>
              /\ nodes'[m] = nodes[m] /\ leases'[m] = leases[m]
              /\ deadletters'[m] = deadletters[m]
         /\ UNCHANGED <<artifacts, replays, graph>>
<1> DEFINE n == c.node
           a == c.attempt
           retry == [nodes[n] EXCEPT !.state = "queued", !.next_run = b]
           dead == [nodes[n] EXCEPT !.state = "deadletter", !.next_run = "due"]
<1>1. c \in Claim /\ n \in Nodes /\ a \in AttemptNo
  BY DEF TypeOK, PassState, Claim
<1>2. nodes[n] \in NodeRow
  BY <1>1 DEF TypeOK
<1>3. retry \in NodeRow /\ retry.state = "queued" /\ retry.attempt_count = nodes[n].attempt_count
  BY <1>2 DEF NodeRow, NodeState
<1>4. dead \in NodeRow /\ dead.state = "deadletter" /\ dead.attempt_count = nodes[n].attempt_count
  BY <1>2 DEF NodeRow, NodeState
<1>5. /\ passes[p].phase = "execute" /\ SettleClaim(p, c)
      /\ attempts' = [attempts EXCEPT ![n][a] = "failed"]
      /\ leases' = leases \/ leases' = [leases EXCEPT ![n] = NoLease]
      /\ UNCHANGED <<artifacts, replays, graph>>
  BY DEF FailNode, Returned
<1>6. /\ passes' \in [Passes -> PassState] /\ RoundsLeft'
      /\ passes'[p].claims = passes[p].claims \ {c}
      /\ \A q \in Passes : q # p => SamePass(q)
  BY <1>5, SettleEffect
<1>7. \/ /\ nodes' = [nodes EXCEPT ![n] = retry] /\ deadletters' = deadletters
         /\ nodes[n].attempt_count <= RetryLimit(n)
      \/ /\ nodes' = [nodes EXCEPT ![n] = dead]
         /\ deadletters' = [deadletters EXCEPT ![n][a] = "open"]
  BY DEF FailNode, CanRetry, AddedDeadletter
<1> HIDE DEF n, a, retry, dead
<1>8. /\ leases' \in [Nodes -> Lease]
      /\ \A m \in Nodes : m # n => leases'[m] = leases[m]
  BY <1>1, <1>5, NoLeaseType DEF TypeOK
<1>9. attempts' \in [Nodes -> [AttemptNo -> {"none", "running", "succeeded", "failed"}]]
  BY <1>1, <1>5, CellUpdate DEF TypeOK
<1>10. CASE /\ nodes' = [nodes EXCEPT ![n] = retry] /\ deadletters' = deadletters
            /\ nodes[n].attempt_count <= RetryLimit(n)
  <2>1. /\ nodes' \in [Nodes -> NodeRow] /\ nodes'[n] = retry
        /\ \A m \in Nodes : m # n => nodes'[m] = nodes[m]
    BY <1>1, <1>3, <1>10, OneNode
  <2>2. TypeOK'
    BY <1>5, <1>6, <1>8, <1>9, <1>10, <2>1 DEF TypeOK
  <2> QED BY <1>1, <1>3, <1>5, <1>6, <1>8, <1>10, <2>1, <2>2 DEF n
<1>11. CASE /\ nodes' = [nodes EXCEPT ![n] = dead]
            /\ deadletters' = [deadletters EXCEPT ![n][a] = "open"]
  <2>1. /\ nodes' \in [Nodes -> NodeRow] /\ nodes'[n] = dead
        /\ \A m \in Nodes : m # n => nodes'[m] = nodes[m]
    BY <1>1, <1>4, <1>11, OneNode
  <2>2. /\ deadletters' \in [Nodes -> [AttemptNo -> {"none", "open", "replayed"}]]
        /\ deadletters'[n][a] = "open"
        /\ \A m \in Nodes : m # n => deadletters'[m] = deadletters[m]
    BY <1>1, <1>11, CellUpdate DEF TypeOK
  <2>3. TypeOK'
    BY <1>5, <1>6, <1>8, <1>9, <2>1, <2>2 DEF TypeOK
  <2> QED BY <1>1, <1>4, <1>5, <1>6, <1>8, <2>1, <2>2, <2>3 DEF n, a
<1> QED BY <1>7, <1>10, <1>11

\* Crash drops the claims of a pass.
LEMMA CrashEffect ==
  ASSUME TypeOK, RoundsLeft, NEW p \in Passes, Crash(p)
  PROVE  /\ TypeOK' /\ RoundsLeft'
         /\ passes'[p].claims = {} /\ passes'[p].phase = "crashed"
         /\ \A q \in Passes : q # p => SamePass(q)
         /\ UNCHANGED <<nodes, leases, artifacts, deadletters, replays, graph>>
<1> DEFINE r == [passes[p] EXCEPT !.phase = "crashed", !.claims = {}]
<1>0. passes[p] \in PassState
  BY DEF TypeOK
<1>1. r \in PassState /\ r.phase = "crashed" /\ r.claims = {}
  BY <1>0 DEF PassState
<1>2. /\ passes' = [passes EXCEPT ![p] = r]
      /\ UNCHANGED <<nodes, leases, attempts, artifacts, deadletters, replays, graph>>
  BY DEF Crash
<1> HIDE DEF r
<1>3. /\ passes' \in [Passes -> PassState] /\ passes'[p] = r
      /\ \A q \in Passes : q # p => passes'[q] = passes[q]
  BY <1>1, <1>2, OnePass
<1> QED BY <1>1, <1>2, <1>3 DEF TypeOK, RoundsLeft, SamePass

\* The end of a backoff changes next_run only.
LEMMA BackoffEffect ==
  ASSUME TypeOK, RoundsLeft, NEW n \in Nodes, BackoffElapses(n)
  PROVE  /\ TypeOK' /\ RoundsLeft'
         /\ \A m \in Nodes : /\ nodes'[m].state = nodes[m].state
                             /\ nodes'[m].attempt_count = nodes[m].attempt_count
         /\ UNCHANGED <<leases, artifacts, deadletters, replays, graph, passes>>
<1> DEFINE r == [nodes[n] EXCEPT !.next_run = "due"]
<1>0. nodes[n] \in NodeRow
  BY DEF TypeOK
<1>1. /\ r \in NodeRow /\ r.state = nodes[n].state
      /\ r.attempt_count = nodes[n].attempt_count
  BY <1>0 DEF NodeRow
<1>2. /\ nodes' = [nodes EXCEPT ![n] = r]
      /\ UNCHANGED <<leases, attempts, artifacts, deadletters, replays, graph, passes>>
  BY DEF BackoffElapses
<1> HIDE DEF r
<1>3. /\ nodes' \in [Nodes -> NodeRow] /\ nodes'[n] = r
      /\ \A m \in Nodes : m # n => nodes'[m] = nodes[m]
  BY <1>1, <1>2, OneNode
<1> QED BY <1>1, <1>2, <1>3 DEF TypeOK, RoundsLeft

\* A replay queues the node, counts, and marks one deadletter row of it.
LEMMA ReplayEffect ==
  ASSUME TypeOK, RoundsLeft, NEW n \in Nodes, NEW a \in AttemptNo, ReplayDeadletter(n, a)
  PROVE  /\ TypeOK' /\ RoundsLeft'
         /\ nodes'[n].state = "queued"
         /\ nodes'[n].attempt_count = nodes[n].attempt_count
         /\ replays'[n] = replays[n] + 1
         /\ \A m \in Nodes : m # n => /\ nodes'[m] = nodes[m]
                                      /\ replays'[m] = replays[m]
                                      /\ deadletters'[m] = deadletters[m]
         /\ CarefulReplays = TRUE => nodes[n].state = "deadletter"
         /\ UNCHANGED <<leases, artifacts, graph, passes>>
<1> DEFINE r == [nodes[n] EXCEPT !.state = "queued", !.next_run = "due"]
<1>0. nodes[n] \in NodeRow
  BY DEF TypeOK
<1>1. r \in NodeRow /\ r.state = "queued" /\ r.attempt_count = nodes[n].attempt_count
  BY <1>0 DEF NodeRow, NodeState
<1>2. /\ nodes' = [nodes EXCEPT ![n] = r]
      /\ deadletters' = [deadletters EXCEPT ![n][a] = "replayed"]
      /\ replays' = [replays EXCEPT ![n] = replays[n] + 1]
      /\ replays[n] < ReplayCap
      /\ UNCHANGED <<leases, attempts, artifacts, graph, passes>>
  BY DEF ReplayDeadletter
<1>3. CarefulReplays = TRUE => nodes[n].state = "deadletter"
  BY DEF ReplayDeadletter
<1> HIDE DEF r
<1>4. /\ nodes' \in [Nodes -> NodeRow] /\ nodes'[n] = r
      /\ \A m \in Nodes : m # n => nodes'[m] = nodes[m]
  BY <1>1, <1>2, OneNode
<1>5. /\ deadletters' \in [Nodes -> [AttemptNo -> {"none", "open", "replayed"}]]
      /\ \A m \in Nodes : m # n => deadletters'[m] = deadletters[m]
  BY <1>2, CellUpdate DEF TypeOK
<1>6. /\ replays' \in [Nodes -> 0 .. ReplayCap] /\ replays'[n] = replays[n] + 1
      /\ \A m \in Nodes : m # n => replays'[m] = replays[m]
  BY <1>2 DEF TypeOK
<1>7. TypeOK' /\ RoundsLeft'
  BY <1>2, <1>4, <1>5, <1>6 DEF TypeOK, RoundsLeft
<1> QED BY <1>1, <1>2, <1>3, <1>4, <1>5, <1>6, <1>7

-----------------------------------------------------------------------------
(* Any operator *)

\* The persisted graph satisfies the invariant.
LEMMA GraphInit == Init => GraphInv
<1> SUFFICES ASSUME Init PROVE GraphInv
  OBVIOUS
<1>1. \A n \in Nodes :
        /\ nodes[n].state \in {"queued", "blocked"}
        /\ nodes[n].attempt_count = 0
        /\ nodes[n] \in NodeRow
  BY DEF Init, InitialState, NodeRow, NodeState
<1>2. \A p \in Passes :
        /\ passes[p].phase = "waiting" /\ passes[p].round = 0 /\ passes[p].claims = {}
        /\ passes[p] \in PassState
  BY DEF Init, PassState
<1>3. nodes \in [Nodes -> NodeRow] /\ passes \in [Passes -> PassState]
  <2>1. nodes = [n \in Nodes |-> nodes[n]] /\ passes = [p \in Passes |-> passes[p]]
    BY DEF Init
  <2> QED BY <1>1, <1>2, <2>1
<1>4. TypeOK
  BY <1>3, NoLeaseType DEF Init, TypeOK, GraphStatus
<1>5. Merge \in Nodes /\ \A n \in Nodes : replays[n] = 0 /\ RetryLimit(n) \in Nat
  BY DEF Init, Nodes, RetryLimit
<1>6. HeldNodeHasHolder /\ DeadletterIsListed /\ NodeAttemptBudget
  BY <1>1, <1>5 DEF HeldNodeHasHolder, Held, DeadletterIsListed, NodeAttemptBudget
<1>7. graph = "queued"
  BY DEF Init
<1>8. MergeHasInputs
  BY <1>1, <1>5, <1>7 DEF MergeHasInputs
<1> QED BY <1>2, <1>4, <1>6, <1>8
        DEF GraphInv, RoundsLeft, MergeClaimsHaveInputs

\* A node keeps its holder when its row and lease stay and no pass drops the
\* claim or recovers from a crash.
LEMMA HolderKept ==
  ASSUME NEW n \in Nodes, HasHolder(n),
         nodes'[n].attempt_count = nodes[n].attempt_count,
         leases'[n] = leases[n],
         \A q \in Passes : \A c \in passes[q].claims :
           c.node = n /\ c.attempt = nodes[n].attempt_count =>
             \E d \in passes'[q].claims : d.node = n /\ d.attempt = c.attempt,
         \A q \in Passes : passes[q].phase = "crashed" => passes'[q].phase = "crashed"
  PROVE  HasHolder(n)'
<1>1. CASE \E p \in Passes : passes[p].phase = "crashed"
  BY <1>1 DEF HasHolder
<1>2. CASE \E p \in Passes : /\ Holds(p, n, nodes[n].attempt_count)
                             /\ leases[n].worker = WorkerOf[p]
  <2>1. PICK p \in Passes : /\ Holds(p, n, nodes[n].attempt_count)
                            /\ leases[n].worker = WorkerOf[p]
    BY <1>2
  <2>2. Holds(p, n, nodes[n].attempt_count)'
    BY <2>1 DEF Holds
  <2> QED BY <2>1, <2>2 DEF HasHolder
<1> QED BY <1>1, <1>2 DEF HasHolder

\* Phases and claims unchanged, rows kept or scheduled.
LEMMA GraphSchedule ==
  ASSUME GraphInv, NEW p \in Passes,
         BeginPass(p) \/ StopClaiming(p) \/ Schedule(p) \/ Finish(p)
  PROVE  GraphInv'
<1>t. TypeOK /\ RoundsLeft
  BY DEF GraphInv
<1>1. /\ TypeOK' /\ RoundsLeft'
      /\ \A q \in Passes : SamePass(q)
      /\ UNCHANGED <<leases, artifacts, deadletters, replays>>
      /\ graph' = "completed" => graph = "completed" \/ nodes'[Merge].state = "succeeded"
  BY <1>t, PhaseEffect, ScheduleEffect
<1>2. \A n \in Nodes :
        /\ nodes'[n].attempt_count = nodes[n].attempt_count
        /\ \/ nodes'[n].state = nodes[n].state
           \/ nodes'[n].state = "queued" /\ nodes[n].state \in {"blocked", "failed"}
  <2>1. nodes' = nodes \/ nodes' = Scheduled
    BY <1>t, PhaseEffect, ScheduleEffect
  <2> QED BY <1>t, <2>1, ScheduledRows
<1>3. HeldNodeHasHolder'
  <2> SUFFICES ASSUME NEW n \in Nodes, Held(n)' PROVE HasHolder(n)'
    BY DEF HeldNodeHasHolder
  <2>1. Held(n) /\ HasHolder(n)
    BY <1>2 DEF GraphInv, HeldNodeHasHolder, Held
  <2> QED BY <1>1, <1>2, <2>1, HolderKept DEF SamePass
<1>4. DeadletterIsListed'
  BY <1>1, <1>2 DEF GraphInv, DeadletterIsListed
<1>5. NodeAttemptBudget'
  BY <1>1, <1>2 DEF GraphInv, NodeAttemptBudget
<1>6. MergeClaimsHaveInputs'
  BY <1>1 DEF GraphInv, MergeClaimsHaveInputs, SamePass
<1>7. MergeHasInputs'
  <2>1. Merge \in Nodes
    BY DEF Nodes
  <2> QED BY <1>1, <1>2, <2>1 DEF GraphInv, MergeHasInputs
<1> QED BY <1>1, <1>3, <1>4, <1>5, <1>6, <1>7 DEF GraphInv

\* The number of retries and replays of a node.
LEMMA LimitType ==
  ASSUME TypeOK, NEW n \in Nodes
  PROVE  RetryLimit(n) \in Nat /\ replays[n] \in Nat /\ nodes[n].attempt_count \in Nat
BY DEF TypeOK, RetryLimit, NodeRow

\* Claiming uses one execution of the budget.
LEMMA GraphClaim ==
  ASSUME GraphInv, NEW p \in Passes, NEW n \in Nodes, ClaimNode(p, n)
  PROVE  GraphInv'
<1>t. TypeOK /\ RoundsLeft
  BY DEF GraphInv
<1> DEFINE c == [node |-> n, attempt |-> nodes[n].attempt_count + 1, status |-> "claimed"]
<1>1. /\ TypeOK' /\ RoundsLeft'
      /\ nodes'[n].state = "claimed"
      /\ nodes'[n].attempt_count = nodes[n].attempt_count + 1
      /\ \A m \in Nodes : m # n => nodes'[m] = nodes[m] /\ leases'[m] = leases[m]
      /\ leases'[n].worker = WorkerOf[p]
      /\ leases'[n].attempt = nodes[n].attempt_count + 1
      /\ passes'[p].claims = passes[p].claims \cup {c}
      /\ \A q \in Passes : q # p => SamePass(q)
      /\ passes[p].phase # "crashed"
      /\ nodes[n].state = "queued"
      /\ UNCHANGED <<artifacts, deadletters, replays, graph>>
  BY <1>t, ClaimEffect
<1>2. c.node = n /\ c.attempt = nodes'[n].attempt_count /\ c.status = "claimed"
  BY <1>1
<1> HIDE DEF c
<1>3. HeldNodeHasHolder'
  <2> SUFFICES ASSUME NEW m \in Nodes, Held(m)' PROVE HasHolder(m)'
    BY DEF HeldNodeHasHolder
  <2>1. CASE m = n
    <3>1. Holds(p, n, nodes[n].attempt_count)'
      BY <1>1, <1>2 DEF Holds
    <3> QED BY <1>1, <2>1, <3>1 DEF HasHolder
  <2>2. CASE m # n
    <3>1. HasHolder(m)
      BY <1>1, <2>2 DEF GraphInv, HeldNodeHasHolder, Held
    <3>2. \A q \in Passes : passes[q].claims \subseteq passes'[q].claims
      BY <1>1 DEF SamePass
    <3>3. \A q \in Passes : passes[q].phase = "crashed" => passes'[q].phase = "crashed"
      BY <1>1 DEF SamePass
    <3> QED BY <1>1, <2>2, <3>1, <3>2, <3>3, HolderKept
  <2> QED BY <2>1, <2>2
<1>4. DeadletterIsListed'
  BY <1>1 DEF GraphInv, DeadletterIsListed
<1>5. NodeAttemptBudget'
  BY <1>1, <1>t, LimitType DEF GraphInv, NodeAttemptBudget
<1>6. MergeClaimsHaveInputs'
  BY <1>1, <1>2 DEF GraphInv, MergeClaimsHaveInputs, SamePass
<1>7. MergeHasInputs'
  BY <1>1 DEF GraphInv, MergeHasInputs, Nodes
<1> QED BY <1>1, <1>3, <1>4, <1>5, <1>6, <1>7 DEF GraphInv

\* Starting keeps node, attempt and lease; an executing merge claim has inputs.
LEMMA GraphStart ==
  ASSUME GraphInv, NEW p \in Passes, NEW c \in passes[p].claims, StartNode(p, c)
  PROVE  GraphInv'
<1>t. TypeOK /\ RoundsLeft
  BY DEF GraphInv
<1>1. /\ TypeOK' /\ RoundsLeft'
      /\ \A m \in Nodes :
           /\ nodes'[m].attempt_count = nodes[m].attempt_count
           /\ \/ nodes'[m].state = nodes[m].state
              \/ nodes[m].state = "claimed" /\ nodes'[m].state = "running"
      /\ \A q \in Passes : q # p => SamePass(q)
      /\ passes[p].phase # "crashed"
      /\ UNCHANGED <<leases, artifacts, deadletters, replays, graph>>
  BY <1>t, StartEffect
<1>2. PICK d \in Claim :
        /\ passes'[p].claims = (passes[p].claims \ {c}) \cup {d}
        /\ d.node = c.node /\ d.attempt = c.attempt
        /\ d.status = "executing" => MergeGate(c.node)
  BY <1>t, StartEffect
<1>3. HeldNodeHasHolder'
  <2> SUFFICES ASSUME NEW m \in Nodes, Held(m)' PROVE HasHolder(m)'
    BY DEF HeldNodeHasHolder
  <2>1. HasHolder(m)
    BY <1>1 DEF GraphInv, HeldNodeHasHolder, Held
  <2>2. \A q \in Passes : \A e \in passes[q].claims :
          \E f \in passes'[q].claims : f.node = e.node /\ f.attempt = e.attempt
    BY <1>1, <1>2 DEF SamePass
  <2>3. \A q \in Passes : passes[q].phase = "crashed" => passes'[q].phase = "crashed"
    BY <1>1 DEF SamePass
  <2> QED BY <1>1, <2>1, <2>2, <2>3, HolderKept
<1>4. DeadletterIsListed'
  BY <1>1 DEF GraphInv, DeadletterIsListed
<1>5. NodeAttemptBudget'
  BY <1>1 DEF GraphInv, NodeAttemptBudget
<1>6. MergeClaimsHaveInputs'
  <2>1. MergeGate(Merge) => \A s \in Specialists : artifacts[s] # {}
    BY DEF MergeGate, Deps
  <2> QED BY <1>1, <1>2, <2>1 DEF GraphInv, MergeClaimsHaveInputs, SamePass
<1>7. MergeHasInputs'
  BY <1>1 DEF GraphInv, MergeHasInputs, Nodes
<1> QED BY <1>1, <1>3, <1>4, <1>5, <1>6, <1>7 DEF GraphInv

\* Completing: the holder of a node never finds a lease that does not match.
LEMMA GraphComplete ==
  ASSUME GraphInv, NEW p \in Passes, NEW c \in passes[p].claims, CompleteNode(p, c)
  PROVE  GraphInv'
<1>t. TypeOK /\ RoundsLeft
  BY DEF GraphInv
<1> DEFINE n == c.node
<1>1. /\ TypeOK' /\ RoundsLeft'
      /\ c \in Claim /\ c.status = "executing"
      /\ passes[p].phase = "execute"
      /\ passes'[p].claims = passes[p].claims \ {c}
      /\ \A q \in Passes : q # p => SamePass(q)
      /\ \A m \in Nodes : m # n => nodes'[m] = nodes[m] /\ leases'[m] = leases[m]
      /\ \A m \in Nodes : artifacts[m] \subseteq artifacts'[m]
      /\ UNCHANGED <<deadletters, replays, graph>>
  BY <1>t, CompleteEffect
<1>2. \/ /\ nodes'[n].state = "succeeded"
         /\ nodes'[n].attempt_count = nodes[n].attempt_count
      \/ /\ nodes'[n] = nodes[n] /\ leases'[n] = leases[n]
         /\ leases[n] # [worker |-> WorkerOf[p], attempt |-> c.attempt]
  BY <1>t, CompleteEffect
<1>n. n \in Nodes
  BY <1>1 DEF Claim
<1> HIDE DEF n
<1>3. HeldNodeHasHolder'
  <2> SUFFICES ASSUME NEW m \in Nodes, Held(m)' PROVE HasHolder(m)'
    BY DEF HeldNodeHasHolder
  <2>1. /\ nodes'[m] = nodes[m] /\ leases'[m] = leases[m]
        /\ m = n => leases[m] # [worker |-> WorkerOf[p], attempt |-> c.attempt]
    BY <1>1, <1>2, <1>n DEF Held
  <2>2. HasHolder(m)
    BY <2>1 DEF GraphInv, HeldNodeHasHolder, Held
  <2>3. \A q \in Passes : passes[q].phase = "crashed" => passes'[q].phase = "crashed"
    BY <1>1 DEF SamePass
  <2>4. CASE \E q \in Passes : passes[q].phase = "crashed"
    BY <2>1, <2>2, <2>3, <2>4 DEF HasHolder
  <2>5. CASE \E q \in Passes : /\ Holds(q, m, nodes[m].attempt_count)
                               /\ leases[m].worker = WorkerOf[q]
    <3>1. PICK q \in Passes : /\ Holds(q, m, nodes[m].attempt_count)
                              /\ leases[m].worker = WorkerOf[q]
      BY <2>5
    <3>2. PICK e \in passes[q].claims : e.node = m /\ e.attempt = nodes[m].attempt_count
      BY <3>1 DEF Holds
    <3>3. ~(q = p /\ e = c)
      <4> SUFFICES ASSUME q = p, e = c PROVE FALSE
        OBVIOUS
      <4>1. m = n /\ leases[m].worker = WorkerOf[p] /\ leases[m].attempt = c.attempt
        BY <2>2, <3>1, <3>2 DEF HasHolder, n
      <4>2. leases[m] \in Lease
        BY <1>t DEF TypeOK
      <4>3. leases[m] = [worker |-> WorkerOf[p], attempt |-> c.attempt]
        BY <4>1, <4>2 DEF Lease
      <4> QED BY <2>1, <4>1, <4>3
    <3>4. e \in passes'[q].claims
      BY <1>1, <3>3 DEF SamePass
    <3>5. Holds(q, m, nodes[m].attempt_count)'
      BY <2>1, <3>2, <3>4 DEF Holds
    <3> QED BY <2>1, <2>2, <3>1, <3>5 DEF HasHolder
  <2> QED BY <2>2, <2>4, <2>5 DEF HasHolder
<1>4. DeadletterIsListed'
  BY <1>1, <1>2, <1>n DEF GraphInv, DeadletterIsListed
<1>5. NodeAttemptBudget'
  BY <1>1, <1>2, <1>n DEF GraphInv, NodeAttemptBudget
<1>6. MergeClaimsHaveInputs'
  <2>1. \A q \in Passes : passes'[q].claims \subseteq passes[q].claims
    BY <1>1 DEF SamePass
  <2>2. \A s \in Specialists : artifacts[s] \subseteq artifacts'[s]
    BY <1>1 DEF Nodes
  <2> QED BY <2>1, <2>2 DEF GraphInv, MergeClaimsHaveInputs
<1>7. MergeHasInputs'
  <2>1. \A s \in Specialists : artifacts[s] \subseteq artifacts'[s]
    BY <1>1 DEF Nodes
  <2>2. n = Merge => \A s \in Specialists : artifacts[s] # {}
    BY <1>1 DEF GraphInv, MergeClaimsHaveInputs, n
  <2>3. Merge \in Nodes
    BY DEF Nodes
  <2> QED BY <1>1, <2>1, <2>2, <2>3 DEF GraphInv, MergeHasInputs
<1> QED BY <1>1, <1>3, <1>4, <1>5, <1>6, <1>7 DEF GraphInv

\* Failing: the node is not held any more, by anyone.
LEMMA GraphFail ==
  ASSUME GraphInv, NEW p \in Passes, NEW c \in passes[p].claims,
         NEW b \in {"due", "later"}, FailNode(p, c, b)
  PROVE  GraphInv'
<1>t. TypeOK /\ RoundsLeft
  BY DEF GraphInv
<1> DEFINE n == c.node
<1>1. /\ TypeOK' /\ RoundsLeft'
      /\ c \in Claim
      /\ passes[p].phase = "execute"
      /\ passes'[p].claims = passes[p].claims \ {c}
      /\ \A q \in Passes : q # p => SamePass(q)
      /\ nodes'[n].attempt_count = nodes[n].attempt_count
      /\ \A m \in Nodes : m # n =>
           /\ nodes'[m] = nodes[m] /\ leases'[m] = leases[m]
           /\ deadletters'[m] = deadletters[m]
      /\ UNCHANGED <<artifacts, replays, graph>>
  BY <1>t, FailEffect
<1>2. \/ nodes'[n].state = "queued" /\ nodes[n].attempt_count <= RetryLimit(n)
      \/ nodes'[n].state = "deadletter" /\ deadletters'[n][c.attempt] = "open"
  BY <1>t, FailEffect
<1>n. n \in Nodes /\ c.attempt \in AttemptNo
  BY <1>1 DEF Claim
<1>3. HeldNodeHasHolder'
  <2> SUFFICES ASSUME NEW m \in Nodes, Held(m)' PROVE HasHolder(m)'
    BY DEF HeldNodeHasHolder
  <2>1. m # n
    BY <1>2 DEF Held
  <2>2. HasHolder(m)
    BY <1>1, <2>1 DEF GraphInv, HeldNodeHasHolder, Held
  <2>3. \A q \in Passes : \A e \in passes[q].claims : e.node = m => e \in passes'[q].claims
    BY <1>1, <2>1 DEF SamePass
  <2>4. \A q \in Passes : passes[q].phase = "crashed" => passes'[q].phase = "crashed"
    BY <1>1 DEF SamePass
  <2> QED BY <1>1, <2>1, <2>2, <2>3, <2>4, HolderKept
<1> HIDE DEF n
<1>4. DeadletterIsListed'
  BY <1>1, <1>2, <1>n DEF GraphInv, DeadletterIsListed
<1>5. NodeAttemptBudget'
  BY <1>1, <1>2, <1>n, <1>t, LimitType DEF GraphInv, NodeAttemptBudget
<1>6. MergeClaimsHaveInputs'
  BY <1>1 DEF GraphInv, MergeClaimsHaveInputs, SamePass
<1>7. MergeHasInputs'
  <2>1. Merge \in Nodes
    BY DEF Nodes
  <2> QED BY <1>1, <1>2, <2>1 DEF GraphInv, MergeHasInputs
<1> QED BY <1>1, <1>3, <1>4, <1>5, <1>6, <1>7 DEF GraphInv

\* A crash leaves a crashed pass behind, which every held node may point to.
LEMMA GraphCrash ==
  ASSUME GraphInv, NEW p \in Passes, Crash(p)
  PROVE  GraphInv'
<1>t. TypeOK /\ RoundsLeft
  BY DEF GraphInv
<1>1. /\ TypeOK' /\ RoundsLeft'
      /\ passes'[p].claims = {} /\ passes'[p].phase = "crashed"
      /\ \A q \in Passes : q # p => SamePass(q)
      /\ UNCHANGED <<nodes, leases, artifacts, deadletters, replays, graph>>
  BY <1>t, CrashEffect
<1>2. HeldNodeHasHolder'
  BY <1>1 DEF GraphInv, HeldNodeHasHolder, HasHolder, Held
<1>3. DeadletterIsListed' /\ NodeAttemptBudget' /\ MergeHasInputs'
  BY <1>1 DEF GraphInv, DeadletterIsListed, NodeAttemptBudget, MergeHasInputs
<1>4. MergeClaimsHaveInputs'
  BY <1>1 DEF GraphInv, MergeClaimsHaveInputs, SamePass
<1> QED BY <1>1, <1>2, <1>3, <1>4 DEF GraphInv

\* Time and the operator leave passes and leases alone.
LEMMA GraphNodeStep ==
  ASSUME GraphInv, NEW n \in Nodes, NodeStep(n)
  PROVE  GraphInv'
<1>t. TypeOK /\ RoundsLeft
  BY DEF GraphInv
<1>1. CASE BackoffElapses(n)
  <2>1. /\ TypeOK' /\ RoundsLeft'
        /\ \A m \in Nodes : /\ nodes'[m].state = nodes[m].state
                            /\ nodes'[m].attempt_count = nodes[m].attempt_count
        /\ UNCHANGED <<leases, artifacts, deadletters, replays, graph, passes>>
    BY <1>t, <1>1, BackoffEffect
  <2>2. HeldNodeHasHolder'
    BY <2>1 DEF GraphInv, HeldNodeHasHolder, HasHolder, Held, Holds
  <2>3. DeadletterIsListed' /\ NodeAttemptBudget'
    BY <2>1 DEF GraphInv, DeadletterIsListed, NodeAttemptBudget
  <2>4. MergeHasInputs' /\ MergeClaimsHaveInputs'
    BY <2>1 DEF GraphInv, MergeHasInputs, MergeClaimsHaveInputs, Nodes
  <2> QED BY <2>1, <2>2, <2>3, <2>4 DEF GraphInv
<1>2. ASSUME NEW a \in AttemptNo, ReplayDeadletter(n, a) PROVE GraphInv'
  <2>1. /\ TypeOK' /\ RoundsLeft'
        /\ nodes'[n].state = "queued"
        /\ nodes'[n].attempt_count = nodes[n].attempt_count
        /\ replays'[n] = replays[n] + 1
        /\ \A m \in Nodes : m # n => /\ nodes'[m] = nodes[m]
                                     /\ replays'[m] = replays[m]
                                     /\ deadletters'[m] = deadletters[m]
        /\ UNCHANGED <<leases, artifacts, graph, passes>>
    BY <1>t, <1>2, ReplayEffect
  <2>2. HeldNodeHasHolder'
    BY <2>1 DEF GraphInv, HeldNodeHasHolder, HasHolder, Held, Holds
  <2>3. DeadletterIsListed'
    BY <2>1 DEF GraphInv, DeadletterIsListed
  <2>4. NodeAttemptBudget'
    BY <2>1, <1>t, LimitType DEF GraphInv, NodeAttemptBudget
  <2>5. MergeHasInputs' /\ MergeClaimsHaveInputs'
    BY <2>1 DEF GraphInv, MergeHasInputs, MergeClaimsHaveInputs, Nodes
  <2> QED BY <2>1, <2>2, <2>3, <2>4, <2>5 DEF GraphInv
<1> QED BY <1>1, <1>2 DEF NodeStep

\* GraphInv is inductive.
LEMMA GraphNext == GraphInv /\ [Next]_vars => GraphInv'
<1> SUFFICES ASSUME GraphInv, [Next]_vars PROVE GraphInv'
  OBVIOUS
<1>1. CASE UNCHANGED vars
  <2>1. (TypeOK /\ RoundsLeft)'
    BY <1>1 DEF vars, GraphInv, TypeOK, RoundsLeft
  <2>2. HeldNodeHasHolder'
    BY <1>1 DEF vars, GraphInv, HeldNodeHasHolder, HasHolder, Held, Holds
  <2>3. (DeadletterIsListed /\ NodeAttemptBudget)'
    BY <1>1 DEF vars, GraphInv, DeadletterIsListed, NodeAttemptBudget
  <2>4. (MergeClaimsHaveInputs /\ MergeHasInputs)'
    BY <1>1 DEF vars, GraphInv, MergeClaimsHaveInputs, MergeHasInputs
  <2> QED BY <2>1, <2>2, <2>3, <2>4 DEF GraphInv
<1>2. ASSUME NEW p \in Passes, PassStep(p) PROVE GraphInv'
  BY <1>2, GraphSchedule, GraphClaim, GraphStart, GraphComplete, GraphFail, GraphCrash
     DEF PassStep
<1>3. ASSUME NEW n \in Nodes, NodeStep(n) PROVE GraphInv'
  BY <1>3, GraphNodeStep
<1> QED BY <1>1, <1>2, <1>3 DEF Next

\* The tables of a work graph keep their types, whatever passes overlap.
THEOREM GraphTypeCorrect == Spec => []TypeOK
<1>1. GraphInv => TypeOK
  BY DEF GraphInv
<1> QED BY <1>1, GraphInit, GraphNext, PTL DEF Spec

\* For any number of specialists, passes, workers, retries and replays: a held
\* node has a holder or a pass died, a dead node can be listed, the attempts
\* stay within retries plus replays, and nothing completes without its inputs.
THEOREM GraphSafety ==
  Spec => [](HeldNodeHasHolder /\ DeadletterIsListed /\ NodeAttemptBudget /\ MergeHasInputs)
<1>1. GraphInv => HeldNodeHasHolder /\ DeadletterIsListed /\ NodeAttemptBudget /\ MergeHasInputs
  BY DEF GraphInv
<1> QED BY <1>1, GraphInit, GraphNext, PTL DEF Spec

\* A node that is dead has an open deadletter, so that an operator can find it,
\* whichever of its deadletters were replayed.
THEOREM DeadNodesListed == Spec => []DeadletterIsListed
BY GraphSafety, PTL

\* The executions of a node stay within its retries plus its replays.
THEOREM NodeBudgetKept == Spec => []NodeAttemptBudget
BY GraphSafety, PTL

\* Neither the merge node succeeds nor the graph completes before every
\* specialist has left an artifact.
THEOREM NothingMergedEarly == Spec => []MergeHasInputs
BY GraphSafety, PTL

-----------------------------------------------------------------------------
(* Careful operators *)

\* The persisted graph satisfies the careful invariant.
LEMMA CarefulInit == Init => CarefulInv
<1> SUFFICES ASSUME Init PROVE CarefulInv
  OBVIOUS
<1>1. \A p \in Passes : passes[p].claims = {}
  BY DEF Init
<1>2. ClaimsHold /\ NodeExclusive
  BY <1>1 DEF ClaimsHold, NodeExclusive
<1>3. nodes[Merge].state = "blocked" \/ Specialists = {}
  BY DEF Init, InitialState, Deps, Nodes
<1>4. MergeAfterInputs
  BY <1>3 DEF MergeAfterInputs, DepsSucceeded, Deps
<1> QED BY <1>2, <1>4 DEF CarefulInv

\* The merge node keeps its inputs when succeeded nodes stay so and the merge
\* node enters the three states only from one of them.
LEMMA MergeKept ==
  ASSUME MergeAfterInputs,
         \A n \in Nodes : nodes[n].state = "succeeded" => nodes'[n].state = "succeeded",
         nodes'[Merge].state \in {"claimed", "running", "succeeded"} =>
           \/ nodes[Merge].state \in {"claimed", "running", "succeeded"}
           \/ DepsSucceeded(Merge)
  PROVE  MergeAfterInputs'
BY DEF MergeAfterInputs, DepsSucceeded, Deps, Nodes

\* A step keeps the careful invariant and every success.
Kept == CarefulInv' /\ \A n \in Nodes : nodes[n].state = "succeeded" => nodes'[n].state = "succeeded"

\* Phase changes and scheduling.
LEMMA CarefulSchedule ==
  ASSUME GraphInv, CarefulInv, NEW p \in Passes,
         BeginPass(p) \/ StopClaiming(p) \/ Schedule(p) \/ Finish(p)
  PROVE  Kept
<1>t. TypeOK /\ RoundsLeft /\ Merge \in Nodes
  BY DEF GraphInv, Nodes
<1>1. TypeOK /\ \A q \in Passes : SamePass(q)
  BY <1>t, PhaseEffect, ScheduleEffect
<1>2. \A n \in Nodes :
        /\ nodes'[n].attempt_count = nodes[n].attempt_count
        /\ \/ nodes'[n].state = nodes[n].state
           \/ nodes'[n].state = "queued" /\ nodes[n].state \in {"blocked", "failed"}
  <2>1. nodes' = nodes \/ nodes' = Scheduled
    BY <1>t, PhaseEffect, ScheduleEffect
  <2> QED BY <1>t, <2>1, ScheduledRows
<1>3. ClaimsHold'
  <2> SUFFICES ASSUME NEW q \in Passes, NEW c \in passes'[q].claims
               PROVE  Held(c.node)' /\ c.attempt = nodes'[c.node].attempt_count
    BY DEF ClaimsHold
  <2>1. c \in passes[q].claims /\ c.node \in Nodes
    BY <1>1 DEF SamePass, TypeOK, PassState, Claim
  <2>2. Held(c.node) /\ c.attempt = nodes[c.node].attempt_count
    BY <2>1 DEF CarefulInv, ClaimsHold
  <2> QED BY <1>2, <2>1, <2>2 DEF Held
<1>4. NodeExclusive'
  BY <1>1 DEF CarefulInv, NodeExclusive, SamePass
<1>5. MergeAfterInputs'
  BY <1>t, <1>2, MergeKept DEF CarefulInv
<1> QED BY <1>2, <1>3, <1>4, <1>5 DEF Kept, CarefulInv

\* A queued node has no claim, so the new claim is its only one.
LEMMA CarefulClaim ==
  ASSUME GraphInv, CarefulInv, NEW p \in Passes, NEW n \in Nodes, ClaimNode(p, n)
  PROVE  Kept
<1>t. TypeOK /\ RoundsLeft /\ Merge \in Nodes
  BY DEF GraphInv, Nodes
<1> DEFINE c == [node |-> n, attempt |-> nodes[n].attempt_count + 1, status |-> "claimed"]
<1>1. /\ TypeOK'
      /\ nodes'[n].state = "claimed"
      /\ nodes'[n].attempt_count = nodes[n].attempt_count + 1
      /\ \A m \in Nodes : m # n => nodes'[m] = nodes[m]
      /\ passes'[p].claims = passes[p].claims \cup {c}
      /\ \A q \in Passes : q # p => SamePass(q)
      /\ nodes[n].state = "queued" /\ DepsSucceeded(n)
  BY <1>t, ClaimEffect
<1>2. c.node = n /\ c.attempt = nodes'[n].attempt_count
  BY <1>1
<1> HIDE DEF c
<1>3. \A q \in Passes : \A d \in passes[q].claims : d.node \in Nodes /\ d.node # n
  <2>1. \A q \in Passes : \A d \in passes[q].claims : d.node \in Nodes
    BY <1>t DEF TypeOK, PassState, Claim
  <2>2. \A q \in Passes : \A d \in passes[q].claims :
          nodes[d.node].state \in {"claimed", "running"}
    BY DEF CarefulInv, ClaimsHold, Held
  <2>3. nodes[n].state = "queued"
    BY <1>1
  <2> QED BY <2>1, <2>2, <2>3
<1>4. \A q \in Passes : \A d \in passes'[q].claims :
        d \in passes[q].claims \/ (q = p /\ d = c)
  BY <1>1 DEF SamePass
<1>5. ClaimsHold'
  BY <1>1, <1>2, <1>3, <1>4 DEF CarefulInv, ClaimsHold, Held
<1>6. NodeExclusive'
  BY <1>2, <1>3, <1>4 DEF CarefulInv, NodeExclusive
<1>7. MergeAfterInputs'
  BY <1>t, <1>1, MergeKept DEF CarefulInv
<1> QED BY <1>1, <1>5, <1>6, <1>7 DEF Kept, CarefulInv

\* Starting replaces a claim by one for the same node and attempt.
LEMMA CarefulStart ==
  ASSUME GraphInv, CarefulInv, NEW p \in Passes, NEW c \in passes[p].claims, StartNode(p, c)
  PROVE  Kept
<1>t. TypeOK /\ RoundsLeft /\ Merge \in Nodes
  BY DEF GraphInv, Nodes
<1>1. /\ \A m \in Nodes :
           /\ nodes'[m].attempt_count = nodes[m].attempt_count
           /\ \/ nodes'[m].state = nodes[m].state
              \/ nodes[m].state = "claimed" /\ nodes'[m].state = "running"
      /\ \A q \in Passes : q # p => SamePass(q)
  BY <1>t, StartEffect
<1>2. PICK d \in Claim :
        /\ passes'[p].claims = (passes[p].claims \ {c}) \cup {d}
        /\ d.node = c.node /\ d.attempt = c.attempt
  BY <1>t, StartEffect
<1>3. \A q \in Passes : \A e \in passes[q].claims : e.node \in Nodes
  BY <1>t DEF TypeOK, PassState, Claim
<1>4. \A q \in Passes : \A e \in passes'[q].claims :
        \/ e \in passes[q].claims /\ ~(q = p /\ e = c)
        \/ q = p /\ e = d
  BY <1>1, <1>2 DEF SamePass
<1>5. ClaimsHold'
  BY <1>1, <1>2, <1>3, <1>4 DEF CarefulInv, ClaimsHold, Held
<1>6. NodeExclusive'
  BY <1>2, <1>4 DEF CarefulInv, NodeExclusive
<1>7. MergeAfterInputs'
  BY <1>t, <1>1, MergeKept DEF CarefulInv
<1> QED BY <1>1, <1>5, <1>6, <1>7 DEF Kept, CarefulInv

\* Settling a claim: its node was held, and by nobody else.
LEMMA CarefulSettle ==
  ASSUME GraphInv, CarefulInv, NEW p \in Passes, NEW c \in passes[p].claims,
         CompleteNode(p, c) \/ \E b \in {"due", "later"} : FailNode(p, c, b)
  PROVE  Kept
<1>t. TypeOK /\ RoundsLeft /\ Merge \in Nodes
  BY DEF GraphInv, Nodes
<1> DEFINE n == c.node
<1>1. /\ passes'[p].claims = passes[p].claims \ {c}
      /\ \A q \in Passes : q # p => SamePass(q)
      /\ \A m \in Nodes : m # n => nodes'[m] = nodes[m]
      /\ c \in Claim
  <2>1. CASE CompleteNode(p, c)
    <3>1. c \in Claim /\ passes'[p].claims = passes[p].claims \ {c}
      BY <1>t, <2>1, CompleteEffect
    <3>2. \A q \in Passes : q # p => SamePass(q)
      BY <1>t, <2>1, CompleteEffect, Zenon
    <3>3. \A m \in Nodes : m # c.node => nodes'[m] = nodes[m] /\ leases'[m] = leases[m]
      BY <1>t, <2>1, CompleteEffect
    <3> QED BY <3>1, <3>2, <3>3
  <2>2. CASE \E b \in {"due", "later"} : FailNode(p, c, b)
    <3>1. PICK b \in {"due", "later"} : FailNode(p, c, b)
      BY <2>2
    <3> QED BY <1>t, <3>1, FailEffect
  <2> QED BY <2>1, <2>2
<1>3. n \in Nodes /\ Held(n)
  BY <1>1 DEF Claim, CarefulInv, ClaimsHold
<1>4. \A q \in Passes : \A e \in passes'[q].claims :
        e \in passes[q].claims /\ e.node \in Nodes /\ e.node # n
  <2>1. \A q \in Passes : \A e \in passes'[q].claims :
          e \in passes[q].claims /\ ~(q = p /\ e = c)
    BY <1>1 DEF SamePass
  <2>2. \A q \in Passes : \A e \in passes[q].claims : e.node \in Nodes
    BY <1>t DEF TypeOK, PassState, Claim
  <2> QED BY <2>1, <2>2 DEF CarefulInv, NodeExclusive
<1> HIDE DEF n
<1>5. ClaimsHold'
  BY <1>1, <1>4 DEF CarefulInv, ClaimsHold, Held
<1>6. NodeExclusive'
  BY <1>4 DEF CarefulInv, NodeExclusive
<1>7. \A m \in Nodes : nodes[m].state = "succeeded" => nodes'[m].state = "succeeded"
  BY <1>1, <1>3 DEF Held
<1>8. MergeAfterInputs'
  BY <1>t, <1>1, <1>3, <1>7, MergeKept DEF CarefulInv, Held
<1> QED BY <1>5, <1>6, <1>7, <1>8 DEF Kept, CarefulInv

\* A crash drops claims; a careful replay takes up a node without one.
LEMMA CarefulOther ==
  ASSUME GraphInv, CarefulInv, CarefulReplays = TRUE,
         (\E p \in Passes : Crash(p)) \/ (\E n \in Nodes : NodeStep(n))
  PROVE  Kept
<1>t. TypeOK /\ RoundsLeft /\ Merge \in Nodes
  BY DEF GraphInv, Nodes
<1>c. \A q \in Passes : \A e \in passes[q].claims : e.node \in Nodes
  BY <1>t DEF TypeOK, PassState, Claim
<1>1. ASSUME NEW p \in Passes, Crash(p) PROVE Kept
  <2>1. /\ \A q \in Passes : passes'[q].claims \subseteq passes[q].claims
        /\ nodes' = nodes
    BY <1>t, <1>1, CrashEffect DEF SamePass
  <2>2. ClaimsHold' /\ NodeExclusive'
    BY <2>1 DEF CarefulInv, ClaimsHold, NodeExclusive, Held
  <2>3. MergeAfterInputs'
    BY <2>1, MergeKept DEF CarefulInv
  <2> QED BY <2>1, <2>2, <2>3 DEF Kept, CarefulInv
<1>2. ASSUME NEW n \in Nodes, BackoffElapses(n) PROVE Kept
  <2>1. /\ \A m \in Nodes : /\ nodes'[m].state = nodes[m].state
                            /\ nodes'[m].attempt_count = nodes[m].attempt_count
        /\ passes' = passes
    BY <1>t, <1>2, BackoffEffect
  <2>2. ClaimsHold' /\ NodeExclusive'
    BY <1>c, <2>1 DEF CarefulInv, ClaimsHold, NodeExclusive, Held
  <2>3. MergeAfterInputs'
    BY <1>t, <2>1, MergeKept DEF CarefulInv
  <2> QED BY <2>1, <2>2, <2>3 DEF Kept, CarefulInv
<1>3. ASSUME NEW n \in Nodes, NEW a \in AttemptNo, ReplayDeadletter(n, a) PROVE Kept
  <2>1. /\ nodes'[n].state = "queued" /\ nodes[n].state = "deadletter"
        /\ \A m \in Nodes : m # n => nodes'[m] = nodes[m]
        /\ passes' = passes
    BY <1>t, <1>3, ReplayEffect
  <2>2. ClaimsHold' /\ NodeExclusive'
    BY <1>c, <2>1 DEF CarefulInv, ClaimsHold, NodeExclusive, Held
  <2>3. MergeAfterInputs'
    BY <1>t, <2>1, MergeKept DEF CarefulInv
  <2> QED BY <2>1, <2>2, <2>3 DEF Kept, CarefulInv
<1> QED BY <1>1, <1>2, <1>3 DEF NodeStep

\* The careful invariant is inductive, and no step undoes a success.
LEMMA CarefulNext ==
  ASSUME CarefulReplays = TRUE
  PROVE  GraphInv /\ CarefulInv /\ [Next]_vars => Kept
<1> SUFFICES ASSUME GraphInv, CarefulInv, [Next]_vars PROVE Kept
  OBVIOUS
<1>1. CASE UNCHANGED vars
  BY <1>1 DEF vars, Kept, CarefulInv, ClaimsHold, NodeExclusive, MergeAfterInputs, Held,
     DepsSucceeded
<1>2. ASSUME NEW p \in Passes, PassStep(p) PROVE Kept
  BY <1>2, CarefulSchedule, CarefulClaim, CarefulStart, CarefulSettle, CarefulOther
     DEF PassStep
<1>3. ASSUME NEW n \in Nodes, NodeStep(n) PROVE Kept
  BY <1>3, CarefulOther
<1> QED BY <1>1, <1>2, <1>3 DEF Next

\* When operators replay only open deadletters of dead nodes, two passes never
\* work on the same node, and the merge node works over succeeded inputs only.
THEOREM PassExclusion ==
  ASSUME CarefulReplays = TRUE
  PROVE  Spec => [](NodeExclusive /\ MergeAfterInputs)
<1>1. GraphInv /\ CarefulInv /\ [Next]_vars => GraphInv' /\ CarefulInv'
  BY GraphNext, CarefulNext DEF Kept
<1>2. Init => GraphInv /\ CarefulInv
  BY GraphInit, CarefulInit
<1>3. CarefulInv => NodeExclusive /\ MergeAfterInputs
  BY DEF CarefulInv
<1> QED BY <1>1, <1>2, <1>3, PTL DEF Spec

\* Under that care, the merge node is held or done only over succeeded inputs.
THEOREM MergeInOrder ==
  ASSUME CarefulReplays = TRUE
  PROVE  Spec => []MergeAfterInputs
BY PassExclusion, PTL

\* Under the same care, a node that has succeeded is never executed again.
THEOREM SuccessFinal ==
  ASSUME CarefulReplays = TRUE
  PROVE  Spec => SucceededIsFinal
<1>1. GraphInv /\ CarefulInv /\ [Next]_vars => GraphInv' /\ CarefulInv'
  BY GraphNext, CarefulNext DEF Kept
<1>2. Init => GraphInv /\ CarefulInv
  BY GraphInit, CarefulInit
<1>3. GraphInv /\ CarefulInv /\ [Next]_vars =>
        [\A n \in Nodes : nodes[n].state = "succeeded" => nodes'[n].state = "succeeded"]_vars
  BY CarefulNext DEF Kept
<1> QED BY <1>1, <1>2, <1>3, PTL DEF Spec, SucceededIsFinal
=============================================================================
