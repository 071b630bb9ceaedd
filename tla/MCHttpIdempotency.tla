------------------------- MODULE MCHttpIdempotency -------------------------
(* Instances of HttpIdempotency for TLC. *)
EXTENDS HttpIdempotency, TLC

CONSTANTS r1, r2, r3, k1

\* Three requests with one key.
ThreeRequests == {r1, r2, r3}
OneKey == (r1 :> k1) @@ (r2 :> k1) @@ (r3 :> k1)
=============================================================================
