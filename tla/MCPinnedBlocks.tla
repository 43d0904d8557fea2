---------------------------- MODULE MCPinnedBlocks ----------------------------
(* TLC instance of PinnedBlocks.  No property tells clients or blocks apart.  *)
EXTENDS PinnedBlocks, TLC

Alike == Permutations(Subscriber) \cup Permutations(Pinnable)
=============================================================================
