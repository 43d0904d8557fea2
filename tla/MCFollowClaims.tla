--------------------------- MODULE MCFollowClaims ---------------------------
(* TLC instance of FollowClaims.                                             *)
EXTENDS FollowClaims, MCFollowLifecycle
=============================================================================
