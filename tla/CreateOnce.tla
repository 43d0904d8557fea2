------------------------------ MODULE CreateOnce ------------------------------
(* What a single-flight creator promises those who call it: at most one       *)
(* creation for a key at a time, its outcome is that of everybody who waits   *)
(* for it, at one moment, and nobody is turned away unless it is full.        *)
EXTENDS Naturals, FiniteSets

CONSTANTS Call, Key,
          Limit  \* calls that may share a creation

VARIABLES outcome, \* of each call
          party    \* calls that share the creation of each key; {} when there is none

vars == <<outcome, party>>

Init == /\ outcome = [c \in Call |-> "none"]
        /\ party = [k \in Key |-> {}]

\* A call finds no creation, and begins one.
Begin(c, k) == /\ outcome[c] = "none" /\ party[k] = {}
               /\ outcome' = [outcome EXCEPT ![c] = "pending"]
               /\ party' = [party EXCEPT ![k] = {c}]

\* The same, when there is nothing to wait for.
BeginAndEnd(c, k, result) == /\ outcome[c] = "none" /\ party[k] = {}
                             /\ outcome' = [outcome EXCEPT ![c] = result]
                             /\ UNCHANGED party

Join(c, k) == /\ outcome[c] = "none" /\ party[k] # {}
              /\ Cardinality(party[k]) < Limit
              /\ outcome' = [outcome EXCEPT ![c] = "pending"]
              /\ party' = [party EXCEPT ![k] = @ \cup {c}]

Refuse(c, k) == /\ outcome[c] = "none" /\ party[k] # {}
                /\ Cardinality(party[k]) >= Limit
                /\ outcome' = [outcome EXCEPT ![c] = "error"]
                /\ UNCHANGED party

Settle(k, result) == /\ party[k] # {}
                     /\ outcome' = [c \in Call |-> IF c \in party[k] THEN result ELSE outcome[c]]
                     /\ party' = [party EXCEPT ![k] = {}]

SettleStep(k) == \E result \in {"ok", "error"} : Settle(k, result)
CallStep(c, k) ==
  \/ Begin(c, k) \/ Join(c, k) \/ Refuse(c, k)
  \/ \E result \in {"ok", "error"} : BeginAndEnd(c, k, result)

Next == \E k \in Key : SettleStep(k) \/ \E c \in Call : CallStep(c, k)

Spec == /\ Init /\ [][Next]_vars
        /\ \A k \in Key : WF_vars(SettleStep(k))
=============================================================================
