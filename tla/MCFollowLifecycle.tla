-------------------------- MODULE MCFollowLifecycle --------------------------
(* TLC instance of FollowLifecycle: r1 and r2 come from one client, r3 from  *)
(* another, so that a client follows twice and two clients share a follow.   *)
EXTENDS FollowLifecycle, TLC

CONSTANTS c1, c2, r1, r2, r3

MCOwner == (r1 :> c1) @@ (r2 :> c1) @@ (r3 :> c2)
=============================================================================
