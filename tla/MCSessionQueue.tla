--------------------------- MODULE MCSessionQueue ---------------------------
(* Instances of SessionQueue for TLC. *)
EXTENDS SessionQueue, TLC

CONSTANTS c1, c2, c3, c4, c5, s1, s2

\* Three calls contend for one session, two for another.
FiveCalls == {c1, c2, c3, c4, c5}
TwoSessions == (c1 :> s1) @@ (c2 :> s1) @@ (c3 :> s1) @@ (c4 :> s2) @@ (c5 :> s2)
=============================================================================
