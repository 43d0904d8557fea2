--------------------------- MODULE MCJsonRpcSession ---------------------------
(* TLC instance of JsonRpcSession.                                           *)
EXTENDS JsonRpcSession

CONSTANTS a1

MCFrom == [c \in Client |-> a1]
=============================================================================
