------------------------------- MODULE Recency -------------------------------
(* What a least-recently-used cache promises: keys in order of use, and the   *)
(* one used longest ago makes room for a new one.                             *)
EXTENDS Filter

CONSTANTS Key, Value, MaxSize, None

Without(s, k) == Within(s, Key \ {k})
Cached(s, k) == \E i \in 1..Len(s) : s[i] = k

\* get() of a cached key, and set(): the key comes first, and the last one goes if
\* that makes one too many.
Used(s, k) == <<k>> \o Without(s, k)
Stored(s, k) == SubSeq(Used(s, k), 1, IF Len(Used(s, k)) > MaxSize THEN MaxSize
                                      ELSE Len(Used(s, k)))

VARIABLES order,  \* the cached keys, the one used last in front
          value,  \* of each cached key
          result  \* of the last get()

Init == order = <<>> /\ value = [k \in Key |-> None] /\ result = None

Get(k) ==
  /\ IF Cached(order, k) THEN order' = Used(order, k) ELSE UNCHANGED order
  /\ result' = value[k]
  /\ UNCHANGED value

Set(k, v) ==
  /\ order' = Stored(order, k)
  /\ value' = [l \in Key |-> IF ~Cached(order', l) THEN None
                             ELSE IF l = k THEN v ELSE value[l]]
  /\ UNCHANGED result

Remove(k) ==
  /\ order' = Without(order, k)
  /\ value' = [value EXCEPT ![k] = None]
  /\ UNCHANGED result

Clear ==
  /\ order' = <<>>
  /\ value' = [k \in Key |-> None]
  /\ UNCHANGED result

Next == Clear \/ \E k \in Key : Get(k) \/ Remove(k) \/ \E v \in Value : Set(k, v)

Spec == Init /\ [][Next]_<<order, value, result>>
=============================================================================
