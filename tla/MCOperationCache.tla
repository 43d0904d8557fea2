--------------------------- MODULE MCOperationCache ---------------------------
(* TLC instance of OperationCache: r1 and r2 come from one client, r3 from    *)
(* another.                                                                  *)
EXTENDS OperationCache, TLC

CONSTANTS c1, c2, r1, r2, r3, a, b

MCOwner == (r1 :> c1) @@ (r2 :> c1) @@ (r3 :> c2)
Alike == Permutations({r1, r2}) \cup Permutations(CacheKey)
=============================================================================
