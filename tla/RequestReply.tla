----------------------------- MODULE RequestReply -----------------------------
(* What an upstream server promises its callers: a request ends exactly once, *)
(* with the node's reply if one came in time and with an error otherwise.     *)
CONSTANT Request

VARIABLES outcome,  \* of each request
          replied   \* requests whose reply has come in

TypeOK ==
  /\ outcome \in [Request -> {"none", "asked", "ok", "error"}]
  /\ replied \subseteq Request

Init == outcome = [r \in Request |-> "none"] /\ replied = {}

Ask(r) == /\ outcome[r] = "none"
          /\ outcome' = [outcome EXCEPT ![r] = "asked"]
          /\ UNCHANGED replied

\* A request may be refused on the spot.
Refuse(r) == /\ outcome[r] = "none"
             /\ outcome' = [outcome EXCEPT ![r] = "error"]
             /\ UNCHANGED replied

Reply(r) == /\ outcome[r] = "asked" /\ r \notin replied
            /\ replied' = replied \cup {r}
            /\ UNCHANGED outcome

Deliver(r) == /\ outcome[r] = "asked" /\ r \in replied
              /\ outcome' = [outcome EXCEPT ![r] = "ok"]
              /\ UNCHANGED replied

\* A reply that has come in may still be too late.
Fail(r) == /\ outcome[r] = "asked"
           /\ outcome' = [outcome EXCEPT ![r] = "error"]
           /\ replied' = replied \ {r}

Settle(r) == Deliver(r) \/ Fail(r)
Next == \E r \in Request : Ask(r) \/ Refuse(r) \/ Reply(r) \/ Settle(r)

Spec == /\ Init /\ [][Next]_<<outcome, replied>>
        /\ \A r \in Request : WF_<<outcome, replied>>(Settle(r))
=============================================================================
