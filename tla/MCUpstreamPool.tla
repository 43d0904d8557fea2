---------------------------- MODULE MCUpstreamPool ----------------------------
(* TLC instance of UpstreamPool: one pool that keeps one connection and may   *)
(* open two; the third slot is for one that is stopped but not gone.          *)
EXTENDS UpstreamPool

CONSTANTS p1, known, unknown

MCCandidates == [m \in Method |-> IF m = known THEN <<p1>> ELSE <<>>]
=============================================================================
