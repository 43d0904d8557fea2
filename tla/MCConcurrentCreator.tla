------------------------- MODULE MCConcurrentCreator -------------------------
(* TLC instance of ConcurrentCreator: four invocations, two keys.           *)
EXTENDS ConcurrentCreator
=============================================================================
