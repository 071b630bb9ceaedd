---------------------------- MODULE SessionQueue ----------------------------
(***************************************************************************)
(* The per-session queue of single-machine-runtime-coordination.mjs: a map *)
(* from coordination key to the promise `current` of the last caller, and  *)
(* a chain of promises through each caller's `previous`.  A promise        *)
(* `current` is named by the call that made it.                            *)
(*                                                                         *)
(* All code runs on one event loop.  An action is a stretch of code that   *)
(* runs without giving way: the part of a call before its await, one       *)
(* promise job, or the finally block.  The promise jobs run in the order   *)
(* in which they were queued; new calls, and works that end, may come      *)
(* between any two of them.  Whether a work returns or throws makes no     *)
(* difference to the finally block, so neither does it here.  Calls        *)
(* without a coordination key run at once and touch nothing of this.       *)
(***************************************************************************)
EXTENDS Naturals, Sequences

CONSTANTS
  Calls,        \* calls of runInSingleMachineRuntimeSession
  Sessions,     \* coordination keys
  SessionOf,    \* the coordination key of each call
  NoCall        \* no entry in the map; Promise.resolve() as `previous`

ASSUME SessionAssumption ==
  /\ SessionOf \in [Calls -> Sessions]
  /\ NoCall \notin Calls

VARIABLES
  sessionQueues,   \* the map: the call whose promise is last in the session
  previous,        \* the promise a call waits for
  pc,              \* where a call is: before, at and after its await, or over
  armed,           \* calls whose releaseCurrent is set
  resolved,        \* calls whose promise `current` is resolved
  jobs,            \* the promise jobs that are queued
  earlier          \* history: the calls of the session that came before

vars == <<sessionQueues, previous, pc, armed, resolved, jobs, earlier>>

\* catchCurrent, catchWait: the reactions of previous.catch(() => {}), for the
\* chain of `current` and for the await; arm: the callback that sets
\* releaseCurrent; enter: the continuation of the await; settle: the adoption
\* by `current` of the promise that releaseCurrent resolves (two jobs in one).
Job == [kind : {"catchCurrent", "catchWait", "arm", "enter", "settle"}, call : Calls]

J(kind, c) == [kind |-> kind, call |-> c]

TypeOK ==
  /\ sessionQueues \in [Sessions -> Calls \cup {NoCall}]
  /\ previous \in [Calls -> Calls \cup {NoCall}]
  /\ pc \in [Calls -> {"new", "waiting", "working", "done"}]
  /\ armed \in SUBSET Calls
  /\ resolved \in SUBSET Calls
  /\ jobs \in Seq(Job)
  /\ earlier \in [Calls -> SUBSET Calls]

Init ==
  /\ sessionQueues = [s \in Sessions |-> NoCall]
  /\ previous = [c \in Calls |-> NoCall]
  /\ pc = [c \in Calls |-> "new"]
  /\ armed = {}
  /\ resolved = {}
  /\ jobs = <<>>
  /\ earlier = [c \in Calls |-> {}]

-----------------------------------------------------------------------------
\* Mutant: the await is registered before the chain of `current`.
ReactionsAwaitFirst(c) == <<J("catchWait", c), J("catchCurrent", c)>>

\* What a call hangs on the promise `previous`, in the order of the code.
Reactions(c) == <<J("catchCurrent", c), J("catchWait", c)>>

\* The call up to its await: read the tail, become the tail.
Arrive(c) ==
  LET s == SessionOf[c]
      p == sessionQueues[s]
  IN
  /\ pc[c] = "new"
  /\ previous' = [previous EXCEPT ![c] = p]
  /\ sessionQueues' = [sessionQueues EXCEPT ![s] = c]
  /\ jobs' = IF p = NoCall \/ p \in resolved THEN jobs \o Reactions(c) ELSE jobs
  /\ pc' = [pc EXCEPT ![c] = "waiting"]
  /\ earlier' = [earlier EXCEPT ![c] =
                   {d \in Calls : SessionOf[d] = s /\ pc[d] # "new"}]
  /\ UNCHANGED <<armed, resolved>>

\* The first queued job is of this kind for c; `queued` is what it queues.
Runs(kind, c, queued) ==
  /\ jobs # <<>>
  /\ Head(jobs) = J(kind, c)
  /\ jobs' = Tail(jobs) \o queued

PassThrough(c) ==
  /\ \/ Runs("catchCurrent", c, <<J("arm", c)>>)
     \/ Runs("catchWait", c, <<J("enter", c)>>)
  /\ UNCHANGED <<sessionQueues, previous, pc, armed, resolved, earlier>>

Arm(c) ==
  /\ Runs("arm", c, <<>>)
  /\ armed' = armed \cup {c}
  /\ UNCHANGED <<sessionQueues, previous, pc, resolved, earlier>>

\* The await returns and work() is called.
Enter(c) ==
  /\ Runs("enter", c, <<>>)
  /\ pc' = [pc EXCEPT ![c] = "working"]
  /\ UNCHANGED <<sessionQueues, previous, armed, resolved, earlier>>

Release(c) == IF c \in armed THEN Append(jobs, J("settle", c)) ELSE jobs

\* Mutants of the finally block: the entry is deleted whoever is the tail; it
\* is never deleted.
LeaveDeletesAlways(c) ==
  /\ pc[c] = "working"
  /\ jobs' = Release(c)
  /\ sessionQueues' = [sessionQueues EXCEPT ![SessionOf[c]] = NoCall]
  /\ pc' = [pc EXCEPT ![c] = "done"]
  /\ UNCHANGED <<previous, armed, resolved, earlier>>
LeaveKeepsEntry(c) ==
  /\ pc[c] = "working"
  /\ jobs' = Release(c)
  /\ pc' = [pc EXCEPT ![c] = "done"]
  /\ UNCHANGED <<sessionQueues, previous, armed, resolved, earlier>>

\* work() has returned or thrown: the finally block.
Leave(c) ==
  /\ pc[c] = "working"
  /\ jobs' = Release(c)
  /\ sessionQueues' = [sessionQueues EXCEPT ![SessionOf[c]] = IF @ = c THEN NoCall ELSE @]
  /\ pc' = [pc EXCEPT ![c] = "done"]
  /\ UNCHANGED <<previous, armed, resolved, earlier>>

WaitsFor(d, c) == pc[d] = "waiting" /\ previous[d] = c

\* `current` resolves, which queues the reactions of the call that waits for it.
Settle(c) ==
  /\ \/ \E d \in Calls : WaitsFor(d, c) /\ Runs("settle", c, Reactions(d))
     \/ (\A d \in Calls : ~WaitsFor(d, c)) /\ Runs("settle", c, <<>>)
  /\ resolved' = resolved \cup {c}
  /\ UNCHANGED <<sessionQueues, previous, pc, armed, earlier>>

PromiseJob(c) == PassThrough(c) \/ Arm(c) \/ Enter(c) \/ Settle(c)

Next == \E c \in Calls : Arrive(c) \/ Leave(c) \/ PromiseJob(c)

Spec == Init /\ [][Next]_vars

\* The event loop runs every queued promise job.  Nothing is assumed of works:
\* one that never ends blocks its session for good.
FairSpec == Spec /\ WF_vars(\E c \in Calls : PromiseJob(c))

-----------------------------------------------------------------------------
Gate == INSTANCE SessionGate WITH phase <- pc

\* Mutual exclusion in arrival order, per session, whatever the interleaving
\* of arrivals, promise jobs and works: the chain of promises implements the
\* gate.
ImplementsGate == Gate!GateSpec

\* The map forgets a session exactly when its last call is over: an entry is
\* always a call that has not ended (no call chains on a dead promise, and the
\* map does not grow with the sessions ever seen), and without an entry
\* nobody of the session waits or works.
MapHoldsLiveTail ==
  \A s \in Sessions :
    IF sessionQueues[s] = NoCall
      THEN \A c \in Calls : SessionOf[c] = s => pc[c] \in {"new", "done"}
      ELSE /\ pc[sessionQueues[s]] \in {"waiting", "working"}
           /\ SessionOf[sessionQueues[s]] = s
           /\ \A c \in Calls : SessionOf[c] = s /\ pc[c] # "new" =>
                c \in earlier[sessionQueues[s]] \cup {sessionQueues[s]}

\* A call whose predecessors are over gets its turn.
TurnComes ==
  \A c \in Calls :
    pc[c] = "waiting" /\ (\A d \in earlier[c] : pc[d] = "done") ~> pc[c] = "working"

-----------------------------------------------------------------------------
(* The inductive invariant behind the refinement *)

\* A call comes after calls of its own session that have arrived.
ArrivalOrder ==
  \A c \in Calls :
    /\ c \notin earlier[c]
    /\ pc[c] = "new" => earlier[c] = {}
    /\ \A d \in earlier[c] : SessionOf[d] = SessionOf[c] /\ pc[d] # "new"

\* `previous` is the call right before, or everybody before is over.
PreviousIsLast ==
  \A c \in Calls : pc[c] # "new" =>
    IF previous[c] = NoCall
      THEN \A d \in earlier[c] : pc[d] = "done"
      ELSE earlier[c] = earlier[previous[c]] \cup {previous[c]}

WorksAfterEarlier ==
  \A c \in Calls : pc[c] \in {"working", "done"} => \A d \in earlier[c] : pc[d] = "done"

ResolvedAreDone == \A c \in resolved : pc[c] = "done"

PreviousResolved(c) == previous[c] = NoCall \/ previous[c] \in resolved

EnterKinds == {"catchWait", "enter"}

\* Jobs of a call are queued only when its `previous` is resolved, the job that
\* resolves `current` only when the call is over.
JobTimely(k, c) ==
  /\ k # "settle" => pc[c] # "new" /\ PreviousResolved(c)
  /\ k \in EnterKinds => pc[c] = "waiting"
  /\ k = "settle" => pc[c] = "done" /\ c \notin resolved

JobsTimely == \A i \in 1 .. Len(jobs) : JobTimely(jobs[i].kind, jobs[i].call)

\* A call is entered once and its promise is resolved once.
JobsOnce ==
  \A i, j \in 1 .. Len(jobs) :
    i # j /\ jobs[i].call = jobs[j].call =>
      /\ ~(jobs[i].kind \in EnterKinds /\ jobs[j].kind \in EnterKinds)
      /\ ~(jobs[i].kind = "settle" /\ jobs[j].kind = "settle")

QueueInv ==
  /\ TypeOK
  /\ ArrivalOrder
  /\ MapHoldsLiveTail
  /\ PreviousIsLast
  /\ WorksAfterEarlier
  /\ ResolvedAreDone
  /\ JobsTimely
  /\ JobsOnce
=============================================================================
