---------------------------- MODULE MCFollowStream ----------------------------
(* TLC instance of FollowStream: every tree of three blocks, which the        *)
(* tracker cannot all know at a time; one client may join late, and another   *)
(* follow may share the manager.                                              *)
EXTENDS FollowStreamClaims

\* The clients are alike.
Clients == Permutations(Client)
=============================================================================
