-------------------------- MODULE FollowStreamClaims --------------------------
(* What the comments of state/manager.ts say and the code does not do.       *)
EXTENDS FollowStream

\* "needed to keep up the initial snapshot": the manager listens to its follow as long
\* as a client is on it.
KeepsListening ==
  phase = "on" /\ (\E c \in Client : stream[c] \in {"waiting", "live"}) => Listening
=============================================================================
