--------------------------- MODULE MCSubscriptions ---------------------------
(* TLC instance of Subscriptions.  No property tells requests or connections  *)
(* apart.                                                                    *)
EXTENDS Subscriptions, TLC

Alike == Permutations(Request) \cup Permutations(Conn)
=============================================================================
