-------------------------- MODULE MCExecutiveTask --------------------------
(* Instances of ExecutiveTask for TLC. *)
EXTENDS ExecutiveTask, TLC

CONSTANTS f1, f2, f3, f4

\* Every kind of flow.
Everything == DOMAIN Kinds

\* Flows are told apart only by what they do.
FlowsAlike == Permutations(Flows)
=============================================================================
