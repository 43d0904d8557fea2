----------------------------- MODULE FollowClaims -----------------------------
(* What the README and the comments say of follows and the code does not do. *)
EXTENDS FollowLifecycle

\* README: a client is "fully isolated logically".  It loses a follow only by its
\* own unfollow or close, or because the node or the connection ended it.
FollowIsolation ==
  [][\A c \in Client, u \in Request : c \in locals[u] \ locals'[u] =>
       \/ Unfollow(c, u)
       \/ c \notin open'
       \/ conn' # "up"
       \/ StreamEnds(u, TRUE) \/ StreamEnds(u, FALSE)]_vars
=============================================================================
