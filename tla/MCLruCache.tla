------------------------------ MODULE MCLruCache ------------------------------
(* TLC instance of LruCache: four keys in a cache of three, so that a node is *)
(* moved and removed at the head, in the middle and at the tail.              *)
EXTENDS LruCache
=============================================================================
