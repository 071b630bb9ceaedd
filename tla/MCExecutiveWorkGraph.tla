------------------------ MODULE MCExecutiveWorkGraph ------------------------
(* Instances of ExecutiveWorkGraph for TLC. *)
EXTENDS ExecutiveWorkGraph, TLC

CONSTANTS p1, p2, p3, w1, w2

\* p1 and p2 are passes of one worker id: a timed-out pass and its retry.
ThreePasses == {p1, p2, p3}
TwoWorkers == (p1 :> w1) @@ (p2 :> w1) @@ (p3 :> w2)
=============================================================================
