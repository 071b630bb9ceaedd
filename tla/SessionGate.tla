---------------------------- MODULE SessionGate -----------------------------
(***************************************************************************)
(* What the callers of runInSingleMachineRuntimeSession rely on: the works *)
(* of one session run one at a time, in the order in which they were asked *)
(* for; works of different sessions do not wait for each other.            *)
(***************************************************************************)
CONSTANTS
  Calls,        \* calls of runInSingleMachineRuntimeSession
  SessionOf     \* the coordination key of each call

VARIABLES
  phase,        \* "new", "waiting", "working" or "done"
  earlier       \* the calls of the same session that arrived before

gateVars == <<phase, earlier>>

GateInit ==
  /\ phase = [c \in Calls |-> "new"]
  /\ earlier = [c \in Calls |-> {}]

SameSessionArrived(c) ==
  {d \in Calls : SessionOf[d] = SessionOf[c] /\ phase[d] # "new"}

GateArrive(c) ==
  /\ phase[c] = "new"
  /\ phase' = [phase EXCEPT ![c] = "waiting"]
  /\ earlier' = [earlier EXCEPT ![c] = SameSessionArrived(c)]

\* Everybody who came earlier has left.
GateEnter(c) ==
  /\ phase[c] = "waiting"
  /\ \A d \in earlier[c] : phase[d] = "done"
  /\ phase' = [phase EXCEPT ![c] = "working"]
  /\ UNCHANGED earlier

GateLeave(c) ==
  /\ phase[c] = "working"
  /\ phase' = [phase EXCEPT ![c] = "done"]
  /\ UNCHANGED earlier

GateNext == \E c \in Calls : GateArrive(c) \/ GateEnter(c) \/ GateLeave(c)

GateSpec == GateInit /\ [][GateNext]_gateVars
=============================================================================
