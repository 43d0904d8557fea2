----------------------------- MODULE TokenBucket -----------------------------
(***************************************************************************)
(* util/token-bucket.ts.  Time goes by in ticks, `window` of them per       *)
(* refill; tokens are counted in parts of 1/window, of which `capacity`     *)
(* come with each tick, so that the arithmetic is exact.                    *)
(***************************************************************************)
EXTENDS Naturals, Sequences, FiniteSets

\* `idle` is the time since the last call, of which more than a window makes no difference.
NewBucket(capacity, window) == [tokens |-> capacity * window, idle |-> 0]

\* Bug: the refill is not bounded by the capacity.
Refilled_Unbounded(capacity, window, b) == b.tokens + b.idle * capacity

Refilled(capacity, window, b) ==
  LET tokens == b.tokens + b.idle * capacity
  IN IF tokens < capacity * window THEN tokens ELSE capacity * window

\* What allow() returns, and the bucket it leaves.
Allows(capacity, window, b) == Refilled(capacity, window, b) >= window

Taken(capacity, window, b) ==
  [tokens |-> Refilled(capacity, window, b)
                - (IF Allows(capacity, window, b) THEN window ELSE 0),
   idle |-> 0]

\* The same bucket a tick later.
Aged(window, b) == [b EXCEPT !.idle = IF @ < window THEN @ + 1 ELSE @]

Buckets(capacity, window) == [tokens : 0..capacity * window, idle : 0..window]

-----------------------------------------------------------------------------
\* The buckets along a history of ticks and calls, from a new one on.
Along(capacity, window, s) ==
  LET at[k \in 0..Len(s)] ==
        IF k = 0 THEN NewBucket(capacity, window)
        ELSE IF s[k] = "tick" THEN Aged(window, at[k - 1])
        ELSE Taken(capacity, window, at[k - 1])
  IN at
Ticks(s) == {k \in 1..Len(s) : s[k] = "tick"}
CallsOf(s) == {k \in 1..Len(s) : s[k] = "call"}
Passed(capacity, window, s) ==
  {k \in CallsOf(s) : Allows(capacity, window, Along(capacity, window, s)[k - 1])}

\* allow(): from any moment to any other, no more calls are let pass than the capacity and
\* what is refilled in between, and after a window without calls as many as the capacity.
BurstIsBounded(capacity, window, s) ==
  LET passed == Passed(capacity, window, s)
  IN \A i, j \in 1..Len(s) :
       /\ Cardinality(passed \cap (i..j)) * window
            <= (window + Cardinality(Ticks(s) \cap (i..j))) * capacity
       /\ /\ i..(i + window - 1) \subseteq Ticks(s)
          /\ j \in CallsOf(s) /\ i + window <= j
          /\ Cardinality(CallsOf(s) \cap ((i + window)..j)) <= capacity
          => j \in passed
=============================================================================
