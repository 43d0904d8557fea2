------------------------- MODULE JsonRpcSessionProofs -------------------------
(* Safety of the downstream side: counters, gauge and bursts, for any number  *)
(* of websockets, addresses and messages, and any limits.                     *)
EXTENDS JsonRpcSession, InductionLemmas

-----------------------------------------------------------------------------
(* Token buckets.                                                            *)

LEMMA NewBucketType ==
  ASSUME NEW capacity \in Nat, NEW window \in Nat
  PROVE  NewBucket(capacity, window) \in Buckets(capacity, window)
  BY DEF Buckets, NewBucket

\* A refill gives at most the capacity, and nothing without time in between.
LEMMA RefilledBounds ==
  ASSUME NEW capacity \in Nat, NEW window \in Nat, NEW b \in Buckets(capacity, window)
  PROVE  /\ Refilled(capacity, window, b) \in Nat
         /\ Refilled(capacity, window, b) <= capacity * window
         /\ b.idle = 0 => Refilled(capacity, window, b) = b.tokens
<1> DEFINE most == capacity * window
           more == b.idle * capacity
<1>1. b.tokens \in Nat /\ b.idle \in Nat /\ b.tokens <= most
  BY DEF Buckets
<1>2. most \in Nat /\ more \in Nat
  BY <1>1
<1>3. b.idle = 0 => more = 0
  OBVIOUS
<1>4. Refilled(capacity, window, b) = IF b.tokens + more < most THEN b.tokens + more
                                      ELSE most
  BY DEF Refilled
<1> HIDE DEF most, more
<1>5. /\ Refilled(capacity, window, b) \in Nat
      /\ Refilled(capacity, window, b) <= most
      /\ b.idle = 0 => Refilled(capacity, window, b) = b.tokens
  BY <1>1, <1>2, <1>3, <1>4
<1> QED BY <1>5 DEF most

LEMMA TakenType ==
  ASSUME NEW capacity \in Nat, NEW window \in Nat, NEW b \in Buckets(capacity, window)
  PROVE  Taken(capacity, window, b) \in Buckets(capacity, window)
<1>1. /\ Refilled(capacity, window, b) \in Nat
      /\ Refilled(capacity, window, b) <= capacity * window
  BY RefilledBounds
<1>2. capacity * window \in Nat
  OBVIOUS
<1> QED BY <1>1, <1>2 DEF Buckets, Taken, Allows

LEMMA AgedType ==
  ASSUME NEW capacity \in Nat, NEW window \in Nat, NEW b \in Buckets(capacity, window)
  PROVE  Aged(window, b) \in Buckets(capacity, window)
  BY DEF Buckets, Aged

\* A tick adds a refill, up to the capacity.
LEMMA AgedRefill ==
  ASSUME NEW capacity \in Nat, NEW window \in Nat, NEW b \in Buckets(capacity, window)
  PROVE  LET more == Refilled(capacity, window, b) + capacity
         IN Refilled(capacity, window, Aged(window, b)) =
              IF more < capacity * window THEN more ELSE capacity * window
<1> DEFINE most == capacity * window
           more == b.idle * capacity
<1>1. b.tokens \in Nat /\ b.idle \in 0..window /\ b.tokens <= most
  BY DEF Buckets
<1>2. most \in Nat /\ more \in Nat /\ b.idle \in Nat
  BY <1>1
<1>3. Refilled(capacity, window, b) = IF b.tokens + more < most THEN b.tokens + more
                                      ELSE most
  BY DEF Refilled
<1>4. CASE b.idle < window
  <2>1. Aged(window, b).tokens = b.tokens /\ Aged(window, b).idle = b.idle + 1
    BY <1>4 DEF Aged, Buckets
  <2>2. (b.idle + 1) * capacity = more + capacity
    BY <1>2
  <2>3. Refilled(capacity, window, Aged(window, b)) =
          IF b.tokens + (more + capacity) < most THEN b.tokens + (more + capacity) ELSE most
    BY <2>1, <2>2 DEF Refilled
  <2> HIDE DEF most, more
  <2>4. \/ /\ b.tokens + more < most
           /\ Refilled(capacity, window, b) + capacity = b.tokens + (more + capacity)
        \/ ~ (Refilled(capacity, window, b) + capacity < most)
           /\ ~ (b.tokens + (more + capacity) < most)
    BY <1>1, <1>2, <1>3
  <2>5. Refilled(capacity, window, Aged(window, b)) =
          IF Refilled(capacity, window, b) + capacity < most
          THEN Refilled(capacity, window, b) + capacity ELSE most
    BY <2>3, <2>4
  <2> QED BY <2>5 DEF most
<1>5. CASE ~ (b.idle < window)
  <2>1. b.idle = window /\ Aged(window, b) = b
    <3>1. b.idle = window
      BY <1>1, <1>5
    <3>2. Aged(window, b) = [b EXCEPT !.idle = b.idle]
      BY <1>5 DEF Aged
    <3>3. b = [b EXCEPT !.idle = b.idle]
      BY DEF Buckets
    <3> QED BY <3>1, <3>2, <3>3
  <2>2. more = most
    BY <1>2, <2>1
  <2> HIDE DEF most, more
  <2>3. Refilled(capacity, window, b) = most
    BY <1>1, <1>2, <1>3, <2>2
  <2>4. ~ (most + capacity < most)
    BY <1>2
  <2> QED BY <2>1, <2>3, <2>4 DEF most
<1> QED BY <1>4, <1>5

\* A call takes one token if there is one.
LEMMA TakenRefill ==
  ASSUME NEW capacity \in Nat, NEW window \in Nat, NEW b \in Buckets(capacity, window)
  PROVE  Refilled(capacity, window, Taken(capacity, window, b)) =
           Refilled(capacity, window, b) - (IF Allows(capacity, window, b) THEN window ELSE 0)
<1>1. Taken(capacity, window, b) \in Buckets(capacity, window)
  BY TakenType
<1>2. /\ Taken(capacity, window, b).idle = 0
      /\ Taken(capacity, window, b).tokens =
           Refilled(capacity, window, b) - (IF Allows(capacity, window, b) THEN window ELSE 0)
  BY DEF Taken
<1> QED BY <1>1, <1>2, RefilledBounds

\* A history of ticks and calls, and the tokens after each of them.
Histories == Seq({"tick", "call"})
Tokens(capacity, window, s, k) == Refilled(capacity, window, Along(capacity, window, s)[k])

LEMMA AlongIs ==
  ASSUME NEW capacity \in Nat, NEW window \in Nat, NEW s \in Histories
  PROVE  /\ \A k \in 0..Len(s) : Along(capacity, window, s)[k] \in Buckets(capacity, window)
         /\ Along(capacity, window, s)[0] = NewBucket(capacity, window)
         /\ \A k \in 1..Len(s) :
              Along(capacity, window, s)[k] =
                IF s[k] = "tick" THEN Aged(window, Along(capacity, window, s)[k - 1])
                ELSE Taken(capacity, window, Along(capacity, window, s)[k - 1])
<1> DEFINE n == Len(s)
           T == Buckets(capacity, window)
           first == NewBucket(capacity, window)
           Turn(k, b) == IF s[k] = "tick" THEN Aged(window, b) ELSE Taken(capacity, window, b)
           step == [a \in (1..n) \X T |-> Turn(a[1], a[2])]
           Walk(f) == f = [k \in 0..Len(s) |->
                             IF k = 0 THEN NewBucket(capacity, window)
                             ELSE IF s[k] = "tick" THEN Aged(window, f[k - 1])
                             ELSE Taken(capacity, window, f[k - 1])]
           walk == CHOOSE f : Walk(f)
<1>1. n \in Nat /\ first \in T
  BY NewBucketType DEF Histories
<1>2. \A k \in 1..n, b \in T : Turn(k, b) \in T
  BY AgedType, TakenType
<1>3. step \in [(1..n) \X T -> T] /\ \A k \in 1..n, b \in T : step[<<k, b>>] = Turn(k, b)
  <2> HIDE DEF T, Turn
  <2> QED BY <1>2
<1>4. PICK f \in [0..n -> T] : Recursive(f, n, first, step)
  <2> HIDE DEF T, step, first, n
  <2> QED BY <1>1, <1>3, Recursion
<1>5. f[0] = first /\ \A k \in 1..n : f[k] = Turn(k, f[k - 1])
  <2>1. 0 \in 0..n /\ \A k \in 1..n : k \in 0..n /\ k # 0 /\ k - 1 \in 0..n
    BY <1>1
  <2>2. \A k \in 1..n : f[k - 1] \in T
    BY <2>1
  <2> HIDE DEF T, step, first, n, Turn
  <2> QED BY <1>3, <1>4, <2>1, <2>2 DEF Recursive
<1>6. Walk(f)
  BY <1>1, <1>4, <1>5
<1>7. Walk(walk)
  BY <1>6
<1>8. Along(capacity, window, s) = walk
  BY DEF Along
<1> HIDE DEF walk
<1>9. /\ walk[0] = first /\ \A k \in 1..n : walk[k] = Turn(k, walk[k - 1])
  <2>1. 0 \in 0..n /\ \A k \in 1..n : k \in 0..n /\ k # 0
    BY <1>1
  <2> QED BY <1>7, <2>1
<1>10. \A k \in 0..n : walk[k] \in T
  <2> DEFINE Q == {k \in 0..n : walk[k] \in T}
  <2> HIDE DEF T, first, n, Turn
  <2>1. 0 \in Q
    BY <1>1, <1>9
  <2>2. ASSUME NEW k \in 0..(n - 1), k \in Q PROVE k + 1 \in Q
    <3>1. k + 1 \in 1..n /\ (k + 1) - 1 = k /\ k + 1 \in 0..n
      BY <1>1
    <3>2. walk[k + 1] = Turn(k + 1, walk[k])
      BY <1>9, <3>1
    <3>3. walk[k] \in T
      BY <2>2
    <3> QED BY <1>2, <3>1, <3>2, <3>3
  <2> HIDE DEF Q
  <2>3. \A k \in 0..n : k \in Q
    BY <1>1, <2>1, <2>2, Induct
  <2> QED BY <2>3 DEF Q
<1> QED BY <1>8, <1>9, <1>10

\* What one more tick or call does to the tokens.
LEMMA TokensStep ==
  ASSUME NEW capacity \in Nat, NEW window \in Nat, NEW s \in Histories, NEW k \in 1..Len(s)
  PROVE  /\ k \in Ticks(s) => LET more == Tokens(capacity, window, s, k - 1) + capacity IN
              Tokens(capacity, window, s, k) =
                IF more < capacity * window THEN more ELSE capacity * window
         /\ k \notin Ticks(s) =>
              Tokens(capacity, window, s, k) =
                Tokens(capacity, window, s, k - 1)
                  - (IF k \in Passed(capacity, window, s) THEN window ELSE 0)
         /\ k \in Passed(capacity, window, s)
              <=> k \notin Ticks(s) /\ Tokens(capacity, window, s, k - 1) >= window
         /\ k \in CallsOf(s) <=> k \notin Ticks(s)
<1>1. PICK b \in Buckets(capacity, window) : b = Along(capacity, window, s)[k - 1]
  <2>1. Len(s) \in Nat
    BY DEF Histories
  <2>2. k - 1 \in 0..Len(s)
    BY <2>1
  <2> QED BY <2>2, AlongIs
<1>2. Along(capacity, window, s)[k] = IF s[k] = "tick" THEN Aged(window, b)
                                      ELSE Taken(capacity, window, b)
  BY <1>1, AlongIs
<1>3. s[k] \in {"tick", "call"}
  BY DEF Histories
<1>4. (k \in Ticks(s) <=> s[k] = "tick") /\ (k \in CallsOf(s) <=> s[k] # "tick")
  BY <1>3 DEF Ticks, CallsOf
<1>5. k \in Passed(capacity, window, s) <=> k \in CallsOf(s) /\ Allows(capacity, window, b)
  BY <1>1 DEF Passed
<1>6. Tokens(capacity, window, s, k - 1) = Refilled(capacity, window, b)
  BY <1>1 DEF Tokens
<1>7. Tokens(capacity, window, s, k) =
        IF s[k] = "tick" THEN Refilled(capacity, window, Aged(window, b))
        ELSE Refilled(capacity, window, Taken(capacity, window, b))
  BY <1>2 DEF Tokens
<1>8. Allows(capacity, window, b) <=> Refilled(capacity, window, b) >= window
  BY DEF Allows
<1>9. CASE s[k] = "tick"
  BY <1>4, <1>5, <1>6, <1>7, <1>9, AgedRefill
<1>10. CASE s[k] # "tick"
  BY <1>4, <1>5, <1>6, <1>7, <1>8, <1>10, TakenRefill
<1> QED BY <1>9, <1>10

LEMMA TokensNext ==
  ASSUME NEW capacity \in Nat, NEW window \in Nat, NEW s \in Histories, NEW k \in Nat,
         k + 1 \in 1..Len(s)
  PROVE  /\ k + 1 \in Ticks(s) =>
              Tokens(capacity, window, s, k + 1) =
                IF Tokens(capacity, window, s, k) + capacity < capacity * window
                THEN Tokens(capacity, window, s, k) + capacity ELSE capacity * window
         /\ k + 1 \notin Ticks(s) =>
              Tokens(capacity, window, s, k + 1) =
                Tokens(capacity, window, s, k)
                  - (IF k + 1 \in Passed(capacity, window, s) THEN window ELSE 0)
         /\ k + 1 \in Passed(capacity, window, s)
              <=> k + 1 \notin Ticks(s) /\ Tokens(capacity, window, s, k) >= window
         /\ k + 1 \in CallsOf(s) <=> k + 1 \notin Ticks(s)
<1>1. PICK m \in 1..Len(s) : m = k + 1
  OBVIOUS
<1>2. m - 1 = k
  BY <1>1
<1>3. /\ m \in Ticks(s) => LET more == Tokens(capacity, window, s, m - 1) + capacity IN
           Tokens(capacity, window, s, m) =
             IF more < capacity * window THEN more ELSE capacity * window
      /\ m \notin Ticks(s) =>
           Tokens(capacity, window, s, m) =
             Tokens(capacity, window, s, m - 1)
               - (IF m \in Passed(capacity, window, s) THEN window ELSE 0)
      /\ m \in Passed(capacity, window, s)
           <=> m \notin Ticks(s) /\ Tokens(capacity, window, s, m - 1) >= window
      /\ m \in CallsOf(s) <=> m \notin Ticks(s)
  BY TokensStep
<1> QED BY <1>1, <1>2, <1>3

LEMMA TokensBounds ==
  ASSUME NEW capacity \in Nat, NEW window \in Nat, NEW s \in Histories, NEW k \in 0..Len(s)
  PROVE  /\ Tokens(capacity, window, s, k) \in Nat
         /\ Tokens(capacity, window, s, k) <= capacity * window
<1>1. PICK b \in Buckets(capacity, window) : b = Along(capacity, window, s)[k]
  BY AlongIs
<1> QED BY <1>1, RefilledBounds DEF Tokens

\* Counting the members of a set of numbers up to the next one.
CountsOn(S, i, j) ==
  /\ Cardinality(S \cap (i..j)) \in Nat
  /\ Cardinality(S \cap (i..(j + 1))) =
       Cardinality(S \cap (i..j)) + (IF j + 1 \in S THEN 1 ELSE 0)
LEMMA CountNext ==
  ASSUME NEW S, NEW i \in Nat, NEW j \in Nat, i <= j + 1
  PROVE  CountsOn(S, i, j)
<1>1. IsFiniteSet(S \cap (i..j)) /\ j + 1 \notin S \cap (i..j)
  <2>1. IsFiniteSet(i..j)
    BY FS_Interval
  <2>2. S \cap (i..j) \in SUBSET (i..j)
    OBVIOUS
  <2> QED BY <2>1, <2>2, FS_Subset
<1>2. i..(j + 1) = (i..j) \cup {j + 1}
  OBVIOUS
<1>3. S \cap (i..(j + 1)) = IF j + 1 \in S THEN (S \cap (i..j)) \cup {j + 1} ELSE S \cap (i..j)
  BY <1>2
<1>4. Cardinality(S \cap (i..j)) \in Nat
  BY <1>1, FS_CardinalityType
<1>5. Cardinality((S \cap (i..j)) \cup {j + 1}) = Cardinality(S \cap (i..j)) + 1
  BY <1>1, FS_AddElement
<1> QED BY <1>3, <1>4, <1>5 DEF CountsOn

\* Each call that passes from the i-th event on has been paid for, by the capacity or by a
\* refill since.
LEMMA PassedPay ==
  ASSUME NEW capacity \in Nat, NEW window \in Nat, NEW s \in Histories, NEW i \in 1..Len(s),
         NEW j \in (i - 1)..Len(s)
  PROVE  Cardinality(Passed(capacity, window, s) \cap (i..j)) * window
           + Tokens(capacity, window, s, j)
           <= capacity * window + Cardinality(Ticks(s) \cap (i..j)) * capacity
<1> DEFINE P == Passed(capacity, window, s)
           K == Ticks(s)
           most == capacity * window
           F(k) == Tokens(capacity, window, s, k)
           p(k) == Cardinality(P \cap (i..k))
           t(k) == Cardinality(K \cap (i..k))
           n == Len(s) - (i - 1)
           Q == {d \in 0..n : p(i - 1 + d) * window + F(i - 1 + d)
                                <= most + t(i - 1 + d) * capacity}
<1>1. Len(s) \in Nat /\ i \in Nat /\ i - 1 \in Nat /\ n \in Nat /\ most \in Nat
  BY DEF Histories
<1>2. 0 \in Q
  <2>1. i..(i - 1) = {} /\ i - 1 + 0 = i - 1 /\ 0 \in 0..n /\ i - 1 \in 0..Len(s)
    BY <1>1
  <2>2. p(i - 1) = 0 /\ t(i - 1) = 0
    BY <2>1, FS_EmptySet
  <2>3. F(i - 1) \in Nat /\ F(i - 1) <= most
    BY <2>1, TokensBounds
  <2> HIDE DEF p, t, F, most, n
  <2>4. p(i - 1) * window + F(i - 1) <= most + t(i - 1) * capacity
    BY <1>1, <2>2, <2>3
  <2> QED BY <2>1, <2>4
<1>3. ASSUME NEW d \in 0..(n - 1), d \in Q PROVE d + 1 \in Q
  <2>1. PICK k \in Nat : k = i - 1 + d
    BY <1>1
  <2>2. /\ k + 1 \in 1..Len(s) /\ (k + 1) - 1 = k /\ i <= k + 1 /\ k \in 0..Len(s)
        /\ i - 1 + (d + 1) = k + 1 /\ d + 1 \in 0..n
    BY <1>1, <2>1
  <2>3. F(k) \in Nat /\ F(k) <= most /\ F(k + 1) \in Nat
    <3>1. k + 1 \in 0..Len(s)
      BY <2>2
    <3> QED BY <2>2, <3>1, TokensBounds
  <2>4. /\ p(k) \in Nat /\ p(k + 1) = p(k) + (IF k + 1 \in P THEN 1 ELSE 0)
        /\ t(k) \in Nat /\ t(k + 1) = t(k) + (IF k + 1 \in K THEN 1 ELSE 0)
    <3>1. CountsOn(P, i, k) /\ CountsOn(K, i, k)
      BY <1>1, <2>2, CountNext
    <3> QED BY <3>1 DEF CountsOn
  <2>5. /\ k + 1 \in K => F(k + 1) = IF F(k) + capacity < most THEN F(k) + capacity ELSE most
        /\ k + 1 \notin K => F(k + 1) = F(k) - (IF k + 1 \in P THEN window ELSE 0)
        /\ k + 1 \in P => k + 1 \notin K
    BY <2>2, TokensNext
  <2>6. p(k) * window + F(k) <= most + t(k) * capacity
    BY <1>3, <2>1
  <2> HIDE DEF P, K, F, p, t, most, n
  <2>7. p(k + 1) * window + F(k + 1) <= most + t(k + 1) * capacity
    <3>1. PICK x, y \in Nat : x = p(k) * window /\ y = t(k) * capacity
      BY <2>4
    <3>2. x + F(k) <= most + y
      BY <2>6, <3>1
    <3>3. CASE k + 1 \in K
      <4>1. p(k + 1) * window = x /\ t(k + 1) * capacity = y + capacity
        <5>1. p(k + 1) = p(k) + 0 /\ t(k + 1) = t(k) + 1
          BY <2>4, <2>5, <3>3
        <5>2. (t(k) + 1) * capacity = t(k) * capacity + capacity /\ p(k) + 0 = p(k)
          BY <2>4
        <5> QED BY <3>1, <5>1, <5>2
      <4>2. F(k + 1) <= F(k) + capacity
        BY <1>1, <2>3, <2>5, <3>3
      <4>3. x + F(k + 1) <= most + (y + capacity)
        BY <1>1, <2>3, <3>2, <4>2
      <4> QED BY <4>1, <4>3
    <3>4. CASE k + 1 \in P
      <4>1. p(k + 1) * window = x + window /\ t(k + 1) * capacity = y
        <5>1. p(k + 1) = p(k) + 1 /\ t(k + 1) = t(k) + 0
          BY <2>4, <2>5, <3>4
        <5>2. (p(k) + 1) * window = p(k) * window + window /\ t(k) + 0 = t(k)
          BY <2>4
        <5> QED BY <3>1, <5>1, <5>2
      <4>2. F(k + 1) = F(k) - window
        BY <2>5, <3>4
      <4>3. (x + window) + F(k + 1) <= most + y
        BY <1>1, <2>3, <3>2, <4>2
      <4> QED BY <4>1, <4>3
    <3>5. CASE k + 1 \notin P /\ k + 1 \notin K
      <4>1. p(k + 1) * window = x /\ t(k + 1) * capacity = y
        BY <2>4, <3>1, <3>5
      <4>2. F(k + 1) = F(k)
        BY <2>3, <2>5, <3>5
      <4> QED BY <3>2, <4>1, <4>2
    <3> QED BY <3>3, <3>4, <3>5
  <2> QED BY <2>2, <2>7
<1>4. PICK d \in 0..n : d = j - (i - 1)
  BY <1>1
<1>5. d \in Q
  <2> HIDE DEF Q, n
  <2> QED BY <1>1, <1>2, <1>3, Induct
<1>6. i - 1 + d = j
  BY <1>1, <1>4
<1> QED BY <1>5, <1>6

\* After a window of ticks the bucket is full, and what has been taken since is all that
\* it lacks.
LEMMA FullAfterQuiet ==
  ASSUME NEW capacity \in Nat, NEW window \in Nat, NEW s \in Histories, NEW i \in 1..Len(s),
         i + window - 1 <= Len(s), i..(i + window - 1) \subseteq Ticks(s)
  PROVE  capacity * window <= Tokens(capacity, window, s, i + window - 1)
<1> DEFINE most == capacity * window
           F(k) == Tokens(capacity, window, s, k)
           Q == {d \in 0..window : d * capacity <= F(i - 1 + d)}
<1>1. Len(s) \in Nat /\ i \in Nat /\ i - 1 \in Nat /\ most \in Nat
  BY DEF Histories
<1>2. 0 \in Q
  <2>1. i - 1 + 0 \in 0..Len(s) /\ 0 \in 0..window /\ 0 * capacity = 0
    BY <1>1
  <2> QED BY <2>1, TokensBounds
<1>3. ASSUME NEW d \in 0..(window - 1), d \in Q PROVE d + 1 \in Q
  <2>1. PICK k \in Nat : k = i - 1 + d
    BY <1>1
  <2>2. /\ k + 1 \in 1..Len(s) /\ (k + 1) - 1 = k /\ k + 1 \in Ticks(s) /\ k \in 0..Len(s)
        /\ i - 1 + (d + 1) = k + 1 /\ d + 1 \in 0..window /\ d \in Nat
    BY <1>1, <2>1
  <2>3. F(k + 1) = IF F(k) + capacity < most THEN F(k) + capacity ELSE most
    BY <2>2, TokensStep
  <2>4. F(k) \in Nat
    BY <2>2, TokensBounds
  <2>5. PICK x \in Nat : x = d * capacity
    BY <2>2
  <2>6. x <= F(k) /\ (d + 1) * capacity = x + capacity
    BY <1>3, <2>1, <2>2, <2>5
  <2>7. x + capacity <= most
    <3>1. PICK e \in Nat : window = (d + 1) + e
      <4>1. window - (d + 1) \in Nat /\ window = (d + 1) + (window - (d + 1))
        BY <2>2
      <4> QED BY <4>1
    <3>2. most = (d + 1) * capacity + e * capacity /\ e * capacity \in Nat
      BY <2>2, <3>1
    <3> HIDE DEF most
    <3> QED BY <2>6, <3>2
  <2> HIDE DEF F, most
  <2>8. (d + 1) * capacity <= F(k + 1)
    BY <1>1, <2>3, <2>4, <2>5, <2>6, <2>7
  <2> QED BY <2>2, <2>8
<1>4. window \in Q
  <2> HIDE DEF Q
  <2>1. window \in 0..window
    OBVIOUS
  <2> QED BY <1>2, <1>3, <2>1, Induct
<1>5. i - 1 + window = i + window - 1 /\ window * capacity = most
  BY <1>1
<1> QED BY <1>4, <1>5

\* From a full bucket on, what it lacks was taken by calls.
LEMMA CallsTake ==
  ASSUME NEW capacity \in Nat, NEW window \in Nat, NEW s \in Histories, NEW q \in 0..Len(s),
         capacity * window <= Tokens(capacity, window, s, q), NEW j \in q..Len(s)
  PROVE  capacity * window <= Tokens(capacity, window, s, j)
                                + Cardinality(CallsOf(s) \cap ((q + 1)..j)) * window
<1> DEFINE most == capacity * window
           C == CallsOf(s)
           F(k) == Tokens(capacity, window, s, k)
           c(k) == Cardinality(C \cap ((q + 1)..k))
           n == Len(s) - q
           Q == {d \in 0..n : most <= F(q + d) + c(q + d) * window}
<1>1. Len(s) \in Nat /\ q \in Nat /\ n \in Nat /\ most \in Nat
  BY DEF Histories
<1>2. 0 \in Q
  <2>1. (q + 1)..q = {} /\ q + 0 = q /\ 0 \in 0..n /\ F(q) \in Nat
    BY <1>1, TokensBounds
  <2>2. c(q) = 0
    BY <2>1, FS_EmptySet
  <2>3. most <= F(q)
    OBVIOUS
  <2> HIDE DEF most, F, c, n
  <2>4. most <= F(q) + c(q) * window
    BY <1>1, <2>1, <2>2, <2>3
  <2> QED BY <2>1, <2>4
<1>3. ASSUME NEW d \in 0..(n - 1), d \in Q PROVE d + 1 \in Q
  <2>1. PICK k \in Nat : k = q + d
    BY <1>1
  <2>2. /\ k + 1 \in 1..Len(s) /\ (k + 1) - 1 = k /\ q + 1 <= k + 1 /\ k \in 0..Len(s)
        /\ q + (d + 1) = k + 1 /\ d + 1 \in 0..n /\ q + 1 \in Nat /\ k + 1 \in 0..Len(s)
    BY <1>1, <2>1
  <2>3. F(k) \in Nat /\ F(k) <= most /\ F(k + 1) \in Nat
    BY <2>2, TokensBounds
  <2>4. c(k) \in Nat /\ c(k + 1) = c(k) + (IF k + 1 \in C THEN 1 ELSE 0)
    <3>1. CountsOn(C, q + 1, k)
      BY <2>2, CountNext
    <3> QED BY <3>1 DEF CountsOn
  <2>5. /\ k + 1 \notin C => F(k + 1) = IF F(k) + capacity < most THEN F(k) + capacity
                                       ELSE most
        /\ k + 1 \in C => F(k + 1) = F(k) \/ F(k + 1) = F(k) - window
    <3>1. F(k) - 0 = F(k)
      BY <2>3
    <3>2. F(k + 1) = F(k) - 0 \/ F(k + 1) = F(k) - window \/ k + 1 \in Ticks(s)
      BY <2>2, TokensNext
    <3>3. k + 1 \in C <=> k + 1 \notin Ticks(s)
      BY <2>2, TokensNext
    <3>4. k + 1 \in Ticks(s) => F(k + 1) = IF F(k) + capacity < most THEN F(k) + capacity
                                         ELSE most
      BY <2>2, TokensNext
    <3> QED BY <3>1, <3>2, <3>3, <3>4
  <2>6. PICK x \in Nat : x = c(k) * window
    BY <2>4
  <2>7. most <= F(k) + x
    BY <1>3, <2>1, <2>6
  <2> HIDE DEF C, F, c, most, n
  <2>8. most <= F(k + 1) + c(k + 1) * window
    <3>1. CASE k + 1 \in C
      <4>1. c(k + 1) * window = x + window
        BY <2>4, <2>6, <3>1
      <4>2. F(k + 1) = F(k) \/ F(k + 1) = F(k) - window
        BY <2>5, <3>1
      <4>3. most <= F(k + 1) + (x + window)
        <5>1. CASE F(k + 1) = F(k)
          BY <1>1, <2>3, <2>7, <5>1
        <5>2. CASE F(k + 1) = F(k) - window
          BY <1>1, <2>3, <2>7, <5>2
        <5> QED BY <4>2, <5>1, <5>2
      <4> QED BY <4>1, <4>3
    <3>2. CASE k + 1 \notin C
      <4>1. c(k + 1) * window = x
        BY <2>4, <2>6, <3>2
      <4>2. F(k + 1) >= F(k)
        BY <1>1, <2>3, <2>5, <3>2
      <4>3. F(k) + x <= F(k + 1) + x
        BY <2>3, <4>2
      <4> QED BY <1>1, <2>3, <2>7, <4>1, <4>3
    <3> QED BY <3>1, <3>2
  <2> QED BY <2>2, <2>8
<1>4. PICK d \in 0..n : d = j - q
  BY <1>1
<1>5. d \in Q
  <2> HIDE DEF Q, n
  <2> QED BY <1>1, <1>2, <1>3, Induct
<1>6. q + d = j
  BY <1>1, <1>4
<1> QED BY <1>5, <1>6

\* allow(): a bucket lets pass no more than its capacity and what is refilled in between,
\* and all that its capacity allows after a quiet window, whatever its history.
THEOREM BurstsBounded ==
  ASSUME NEW capacity \in Nat, NEW window \in Nat \ {0}, NEW s \in Seq({"tick", "call"})
  PROVE  BurstIsBounded(capacity, window, s)
<1> USE DEF Histories
<1> DEFINE P == Passed(capacity, window, s)
           C == CallsOf(s)
           K == Ticks(s)
           most == capacity * window
           F(k) == Tokens(capacity, window, s, k)
<1>1. Len(s) \in Nat /\ most \in Nat
  OBVIOUS
<1>2. ASSUME NEW i \in 1..Len(s), NEW j \in 1..Len(s)
      PROVE  Cardinality(P \cap (i..j)) * window
               <= (window + Cardinality(K \cap (i..j))) * capacity
  <2>1. /\ Cardinality(P \cap (i..j)) \in Nat /\ Cardinality(K \cap (i..j)) \in Nat
    <3>1. IsFiniteSet(i..j) /\ P \cap (i..j) \in SUBSET (i..j) /\ K \cap (i..j) \in SUBSET (i..j)
      BY FS_Interval
    <3> QED BY <3>1, FS_Subset, FS_CardinalityType
  <2> DEFINE t == Cardinality(K \cap (i..j))
             p == Cardinality(P \cap (i..j))
  <2>2. (window + t) * capacity = most + t * capacity /\ t * capacity \in Nat
    BY <2>1
  <2>3. CASE i <= j
    <3>1. j \in (i - 1)..Len(s) /\ j \in 0..Len(s)
      BY <2>3
    <3>2. p * window + F(j) <= most + t * capacity
      BY <3>1, PassedPay
    <3>3. F(j) \in Nat
      BY <3>1, TokensBounds
    <3>4. p * window \in Nat
      BY <2>1
    <3> HIDE DEF most, F, t, p
    <3>5. p * window <= (window + t) * capacity
      BY <1>1, <2>2, <3>2, <3>3, <3>4
    <3> QED BY <3>5 DEF t, p
  <2>4. CASE ~ (i <= j)
    <3>1. P \cap (i..j) = {}
      BY <2>4
    <3>2. p = 0
      BY <3>1, FS_EmptySet
    <3> HIDE DEF most, t, p
    <3>3. p * window = 0
      BY <3>2
    <3>4. p * window <= (window + t) * capacity
      BY <1>1, <2>2, <3>3
    <3> QED BY <3>4 DEF t, p
  <2> QED BY <2>3, <2>4
<1>3. ASSUME NEW i \in 1..Len(s), NEW j \in 1..Len(s), i..(i + window - 1) \subseteq K,
             j \in C, i + window <= j, Cardinality(C \cap ((i + window)..j)) <= capacity
      PROVE  j \in P
  <2>1. PICK q \in 0..Len(s) : q = i + window - 1
    BY <1>1, <1>3
  <2>2. PICK k \in q..Len(s) : j = k + 1
    BY <1>1, <1>3, <2>1
  <2>3. q + 1 = i + window /\ q + 1 \in Nat /\ k \in Nat /\ k \in 0..Len(s) /\ q + 1 <= k + 1
    BY <1>1, <2>1, <2>2
  <2>4. most <= F(q)
    BY <1>1, <1>3, <2>1, FullAfterQuiet
  <2> DEFINE c == Cardinality(C \cap ((q + 1)..k))
  <2>5. most <= F(k) + c * window
    BY <2>4, CallsTake
  <2>6. c \in Nat /\ c + 1 <= capacity
    <3>1. CountsOn(C, q + 1, k)
      BY <2>3, CountNext
    <3> QED BY <1>3, <2>2, <2>3, <3>1 DEF CountsOn
  <2>7. F(k) \in Nat
    BY <2>3, TokensBounds
  <2>8. F(k) >= window
    <3>1. PICK e \in Nat : capacity = (c + 1) + e
      <4>1. capacity - (c + 1) \in Nat /\ capacity = (c + 1) + (capacity - (c + 1))
        BY <2>6
      <4> QED BY <4>1
    <3>2. most = c * window + window + e * window /\ c * window \in Nat /\ e * window \in Nat
      <4>1. PICK d \in Nat : d = c
        BY <2>6
      <4>2. ((d + 1) + e) * window = (d + 1) * window + e * window
        OBVIOUS
      <4>3. (d + 1) * window = d * window + window
        OBVIOUS
      <4>4. d * window \in Nat /\ e * window \in Nat
        OBVIOUS
      <4>5. most = ((d + 1) + e) * window
        BY <3>1, <4>1
      <4> HIDE DEF most, c
      <4> QED BY <4>1, <4>2, <4>3, <4>4, <4>5
    <3> HIDE DEF most, F, c
    <3> QED BY <2>5, <2>7, <3>2
  <2>9. j \notin K /\ j - 1 = k
    <3>1. k + 1 \in C <=> k + 1 \notin K
      BY <2>2, <2>3, TokensNext
    <3> QED BY <1>3, <2>2, <2>3, <3>1
  <2>10. k + 1 \in P <=> k + 1 \notin K /\ F(k) >= window
    BY <2>2, <2>3, TokensNext
  <2> QED BY <2>2, <2>8, <2>9, <2>10
<1> QED BY <1>2, <1>3 DEF BurstIsBounded

\* token-bucket.ts: the instances of this that the run evaluates.
THEOREM BurstBoundedHolds == Spec => []BurstBounded
<1>1. ASSUME NEW capacity \in 1..SmallBucket, NEW window \in 1..SmallBucket,
             NEW s \in [1..HistoryLength -> {"tick", "call"}]
      PROVE  BurstIsBounded(capacity, window, s)
  <2>1. capacity \in Nat /\ window \in Nat \ {0}
    BY DEF SmallBucket
  <2>2. HistoryLength \in Nat
    BY DEF HistoryLength
  <2>3. s \in Seq({"tick", "call"})
    BY <2>2
  <2> QED BY <2>1, <2>3, BurstsBounded
<1>2. BurstBounded
  BY <1>1 DEF BurstBounded
<1> QED BY <1>2, PTL

-----------------------------------------------------------------------------
(* The counters of requests and connections.                                 *)

Counted == /\ \A c \in Client : pending[c] = Cardinality(Running \cap Of(c))
           /\ globalPending = Cardinality(Running)

\* What an address was let through since the last tick it paid with tokens, but for the
\* first connection.
Paid(a) ==
  IF connects[a] = None THEN admitted[a] = 0
  ELSE admitted[a] * Window + Refilled(MaxConnects, Window, connects[a])
         <= (MaxConnects + 1) * Window

Inv == TypeOK /\ Counted /\ GaugeDrift /\ \A a \in Address : Paid(a)

USE SessionAssumption

LEMMA Constants == /\ MaxConnects \in Nat /\ MaxConnects > 0
                   /\ MaxRequests \in Nat /\ MaxRequests > 0
                   /\ Window \in Nat /\ Window > 0
                   /\ MaxPending \in Nat /\ MaxGlobal \in Nat
                   /\ MaxConnects * Window \in Nat
                   /\ (MaxConnects + 1) * Window = MaxConnects * Window + Window
  OBVIOUS

LEMMA InitInv == Init => Inv
<1> SUFFICES ASSUME Init PROVE Inv
  OBVIOUS
<1>1. NewBucket(MaxRequests, Window) \in Buckets(MaxRequests, Window)
  BY NewBucketType, Constants
<1>2. TypeOK
  BY <1>1 DEF Init, TypeOK
<1>3. Running = {} /\ client = {} /\ Refusing = {}
  BY DEF Init, Running, Refusing
<1>4. \A c \in Client : Running \cap Of(c) = {}
  BY <1>3
<1>5. Counted /\ GaugeDrift
  BY <1>3, <1>4, FS_EmptySet DEF Counted, GaugeDrift, Init
<1>6. \A a \in Address : Paid(a)
  BY DEF Init, Paid
<1> QED BY <1>2, <1>5, <1>6 DEF Inv

\* Steps that leave the messages, the connections or the buckets alone.
LEMMA SameCounted == Counted /\ UNCHANGED requests => Counted'
  BY DEF Counted, requests, Running, Of
LEMMA SameGauge ==
  ASSUME GaugeDrift, UNCHANGED <<client, gauge, refused>>,
         \A c \in Client : socket'[c] = "none" <=> socket[c] = "none"
  PROVE  GaugeDrift'
<1>1. Refusing' = Refusing
  BY DEF Refusing
<1> QED BY <1>1 DEF GaugeDrift
LEMMA SamePaid ==
  ASSUME \A a \in Address : Paid(a), UNCHANGED <<connects, admitted>>
  PROVE  \A a \in Address : Paid(a)'
  BY DEF Paid

LEMMA FiniteRunning ==
  /\ IsFiniteSet(Running) /\ \A c \in Client : IsFiniteSet(Running \cap Of(c))
<1>1. Running \subseteq Handler
  BY DEF Running
<1> QED BY <1>1, FS_Subset

\* What a message counts when it comes and when it is done.
LEMMA Begins ==
  ASSUME TypeOK, Counted, NEW c \in Client, NEW h \in Handler, run[h] = "idle",
         NEW s \in {"waiting", "handling"},
         pending' = [pending EXCEPT ![c] = @ + 1], globalPending' = globalPending + 1,
         run' = [run EXCEPT ![h] = s], by' = [by EXCEPT ![h] = c]
  PROVE  Counted'
<1>1. Running' = Running \cup {h} /\ h \notin Running
  BY DEF Running, TypeOK
<1>2. (Running \cap Of(c))' = (Running \cap Of(c)) \cup {h}
  BY DEF Running, Of, TypeOK
<1>3. \A d \in Client \ {c} : (Running \cap Of(d))' = Running \cap Of(d)
  BY DEF Running, Of, TypeOK
<1>4. Cardinality(Running') = Cardinality(Running) + 1
  BY <1>1, FiniteRunning, FS_AddElement
<1>5. Cardinality((Running \cap Of(c))') = Cardinality(Running \cap Of(c)) + 1
  BY <1>1, <1>2, FiniteRunning, FS_AddElement
<1>6. pending'[c] = pending[c] + 1 /\ \A d \in Client \ {c} : pending'[d] = pending[d]
  BY DEF TypeOK
<1> QED BY <1>3, <1>4, <1>5, <1>6 DEF Counted

LEMMA Ends ==
  ASSUME TypeOK, Counted, NEW h \in Handler, Return(h)
  PROVE  /\ Counted'
         /\ pending' \in [Client -> 0..MaxPending] /\ globalPending' \in 0..MaxGlobal
<1> PICK c \in Client : c = by[h]
  BY DEF TypeOK
<1>1. /\ c \in Client
      /\ pending' = [pending EXCEPT ![c] = @ - 1] /\ globalPending' = globalPending - 1
      /\ run[h] # "idle" /\ run' = [run EXCEPT ![h] = "idle"] /\ by' = by
  BY DEF Return, CountedDown, TypeOK
<1>2. Running' = Running \ {h} /\ h \in Running /\ h \in Of(c)
  BY <1>1 DEF Running, Of, TypeOK
<1>3. \A d \in Client \ {c} : h \notin Of(d)
  BY DEF Of
<1>4. \A d \in Client : Of(d)' = Of(d)
  BY <1>1 DEF Of
<1>5. (Running \cap Of(c))' = (Running \cap Of(c)) \ {h}
  BY <1>1, <1>2, <1>4
<1>6. \A d \in Client \ {c} : (Running \cap Of(d))' = Running \cap Of(d)
  BY <1>2, <1>3, <1>4
<1>7. Cardinality(Running') = Cardinality(Running) - 1
  BY <1>2, FiniteRunning, FS_RemoveElement
<1>8. Cardinality((Running \cap Of(c)) \ {h}) = Cardinality(Running \cap Of(c)) - 1
  <2>1. h \in Running \cap Of(c) /\ IsFiniteSet(Running \cap Of(c))
    BY <1>1, <1>2, FiniteRunning
  <2> QED BY <2>1, FS_RemoveElement
<1>9. pending'[c] = pending[c] - 1 /\ \A d \in Client \ {c} : pending'[d] = pending[d]
  BY <1>1 DEF TypeOK
<1>10. Counted'
  <2>1. \A d \in Client : pending'[d] = Cardinality((Running \cap Of(d))')
    <3> SUFFICES ASSUME NEW d \in Client
                 PROVE  pending'[d] = Cardinality((Running \cap Of(d))')
      OBVIOUS
    <3>1. pending[d] = Cardinality(Running \cap Of(d))
      BY DEF Counted
    <3>2. CASE d = c
      BY <1>5, <1>8, <1>9, <3>1, <3>2
    <3>3. CASE d # c
      BY <1>6, <1>9, <3>1, <3>3
    <3> QED BY <3>2, <3>3
  <2>2. globalPending' = Cardinality(Running')
    BY <1>1, <1>7 DEF Counted
  <2> QED BY <2>1, <2>2 DEF Counted
<1>11. Cardinality(Running \ {h}) \in Nat /\ Cardinality((Running \cap Of(c)) \ {h}) \in Nat
  <2>1. IsFiniteSet(Running \ {h}) /\ IsFiniteSet((Running \cap Of(c)) \ {h})
    BY <1>1, FiniteRunning, FS_Subset
  <2> QED BY <2>1, FS_CardinalityType
<1>12. pending[c] \in 0..MaxPending /\ globalPending \in 0..MaxGlobal
  BY <1>1 DEF TypeOK
<1>13. pending[c] - 1 \in 0..MaxPending /\ globalPending - 1 \in 0..MaxGlobal
  BY <1>1, <1>2, <1>7, <1>8, <1>11, <1>12, Constants DEF Counted
<1> QED BY <1>1, <1>10, <1>13 DEF TypeOK

-----------------------------------------------------------------------------
(* The steps.                                                                *)

\* What the rate limiter lets an address have is paid for.
LEMMA Pays ==
  ASSUME TypeOK, NEW a \in Address, Paid(a),
         connects' = [connects EXCEPT ![a] = Bucket(a)],
         admitted' = IF Admits(a) THEN [admitted EXCEPT ![a] = @ + 1] ELSE admitted
  PROVE  Paid(a)' /\ connects'[a] \in Buckets(MaxConnects, Window)
<1> DEFINE b == connects[a]
           full == MaxConnects * Window
           n == admitted[a]
           left == Refilled(MaxConnects, Window, b)
<1>1. /\ n \in Nat /\ admitted'[a] = (IF Admits(a) THEN n + 1 ELSE n)
      /\ connects'[a] = Bucket(a)
  BY DEF TypeOK
<1>2. full \in Nat /\ (MaxConnects + 1) * Window = full + Window
      /\ (n + 1) * Window = n * Window + Window /\ n * Window \in Nat
  BY <1>1, Constants
<1>3. CASE b = None
  <2>1. n = 0 /\ admitted'[a] = 1 /\ connects'[a] = NewBucket(MaxConnects, Window)
    BY <1>1, <1>3 DEF Paid, Admits, Bucket
  <2>2. connects'[a] \in Buckets(MaxConnects, Window) /\ connects'[a].idle = 0
    BY <2>1, NewBucketType, Constants DEF NewBucket
  <2>3. Refilled(MaxConnects, Window, connects'[a]) <= full
    BY <2>2, RefilledBounds, Constants
  <2>4. Refilled(MaxConnects, Window, connects'[a]) \in Nat /\ 1 * Window = Window
    BY <2>2, RefilledBounds, Constants
  <2> HIDE DEF full
  <2>5. connects'[a] # None
    BY <2>2
  <2> QED BY <1>2, <2>1, <2>2, <2>3, <2>4, <2>5, Constants DEF Paid
<1>4. CASE b # None
  <2>1. b \in Buckets(MaxConnects, Window)
    BY <1>4 DEF TypeOK
  <2>2. /\ connects'[a] = Taken(MaxConnects, Window, b)
        /\ Admits(a) <=> Allows(MaxConnects, Window, b)
    BY <1>1, <1>4 DEF Bucket, Admits
  <2>3. connects'[a] \in Buckets(MaxConnects, Window) /\ connects'[a].idle = 0
    BY <2>1, <2>2, TakenType, Constants DEF Taken
  <2>4. Refilled(MaxConnects, Window, connects'[a]) = connects'[a].tokens
    BY <2>3, RefilledBounds, Constants
  <2>5. connects'[a].tokens = left - (IF Admits(a) THEN Window ELSE 0)
    BY <2>2 DEF Taken
  <2>6. left \in Nat /\ n * Window + left <= full + Window
    BY <1>2, <1>4, <2>1, RefilledBounds, Constants DEF Paid
  <2>7. connects'[a] # None
    BY <2>3
  <2> HIDE DEF full, left, n, b
  <2>8. CASE Admits(a)
    BY <1>1, <1>2, <2>3, <2>4, <2>5, <2>6, <2>7, <2>8, Constants DEF Paid
  <2>9. CASE ~Admits(a)
    BY <1>1, <1>2, <2>3, <2>4, <2>5, <2>6, <2>7, <2>9, Constants DEF Paid
  <2> QED BY <2>3, <2>8, <2>9
<1> QED BY <1>3, <1>4

\* open: the rate limiter, then metrics and json-rpc.
LEMMA OpenInv == ASSUME Inv, NEW c \in Client, Open(c) PROVE Inv'
<1> DEFINE a == From[c]
<1>1. a \in Address /\ socket[c] = "none" /\ c \notin client
  BY DEF Open, Inv, TypeOK
<1>2. /\ connects' = [connects EXCEPT ![a] = Bucket(a)]
      /\ admitted' = IF Admits(a) THEN [admitted EXCEPT ![a] = @ + 1] ELSE admitted
      /\ UNCHANGED <<requests, ready, running>>
  BY DEF Open
<1> HIDE DEF a
<1>3. \A d \in Address : Paid(d)'
  <2> SUFFICES ASSUME NEW d \in Address PROVE Paid(d)'
    OBVIOUS
  <2>1. CASE d = a
    BY <1>1, <1>2, <2>1, Pays DEF Inv
  <2>2. CASE d # a
    BY <1>1, <1>2, <2>2 DEF Inv, TypeOK, Paid
  <2> QED BY <2>1, <2>2
<1>4. Counted'
  BY <1>2, SameCounted DEF Inv
<1>5. connects'[a] \in Buckets(MaxConnects, Window)
  BY <1>1, <1>2, Pays DEF Inv
<1>6. NewBucket(MaxRequests, Window) \in Buckets(MaxRequests, Window)
  BY NewBucketType, Constants
<1>7. connects' \in [Address -> Buckets(MaxConnects, Window) \cup {None}]
  BY <1>1, <1>2, <1>5 DEF Inv, TypeOK
<1>8. IsFiniteSet(client) /\ IsFiniteSet(Refusing)
  <2>1. client \subseteq Client /\ Refusing \subseteq Client
    BY DEF Inv, TypeOK, Refusing
  <2> QED BY <2>1, FS_Subset
<1>9. CASE Admits(a)
  <2>1. /\ socket' = [socket EXCEPT ![c] = "open"] /\ client' = client \cup {c}
        /\ gauge' = gauge + 1 /\ refused' = refused
        /\ rate' = [rate EXCEPT ![c] = NewBucket(MaxRequests, Window)]
    BY <1>9 DEF Open, a
  <2>2. TypeOK'
    BY <1>1, <1>2, <1>6, <1>7, <1>9, <2>1 DEF Inv, TypeOK, requests
  <2>3. Refusing' = Refusing
    BY <1>1, <2>1 DEF Refusing, Inv, TypeOK
  <2>4. Cardinality(client') = Cardinality(client) + 1
    BY <1>1, <1>8, <2>1, FS_AddElement
  <2>5. Cardinality(client) \in Nat /\ Cardinality(Refusing) \in Nat
    BY <1>8, FS_CardinalityType
  <2>6. GaugeDrift'
    BY <2>1, <2>3, <2>4, <2>5 DEF GaugeDrift, Inv, TypeOK
  <2> QED BY <1>3, <1>4, <2>2, <2>6 DEF Inv
<1>10. CASE ~Admits(a)
  <2>1. /\ socket' = [socket EXCEPT ![c] = "closing"] /\ refused' = refused + 1
        /\ refused < MaxRefused /\ UNCHANGED <<client, gauge, rate>>
    BY <1>10 DEF Open, a
  <2>2. TypeOK'
    BY <1>2, <1>7, <1>10, <2>1 DEF Inv, TypeOK, requests
  <2>3. Refusing' = Refusing \cup {c} /\ c \notin Refusing
    BY <1>1, <2>1 DEF Refusing, Inv, TypeOK
  <2>4. Cardinality(Refusing') = Cardinality(Refusing) + 1
    BY <1>8, <2>3, FS_AddElement
  <2>5. Cardinality(client) \in Nat /\ Cardinality(Refusing) \in Nat
    BY <1>8, FS_CardinalityType
  <2>6. GaugeDrift'
    BY <2>1, <2>4, <2>5 DEF GaugeDrift, Inv, TypeOK
  <2> QED BY <1>3, <1>4, <2>2, <2>6 DEF Inv
<1> QED BY <1>9, <1>10

\* close: always through the metrics.
LEMMA CloseInv == ASSUME Inv, NEW c \in Client, Close(c) PROVE Inv'
<1>1. /\ socket' = [socket EXCEPT ![c] = "none"] /\ socket[c] # "none"
      /\ gauge' = gauge - 1 /\ client' = client \ {c}
      /\ UNCHANGED <<refused, limits, requests, ready, running>>
  BY DEF Close, GaugeAfterClose
<1>2. TypeOK'
  BY <1>1 DEF Inv, TypeOK, limits, requests
<1>3. Counted' /\ \A a \in Address : Paid(a)'
  BY <1>1, SameCounted, SamePaid DEF Inv, limits
<1>4. IsFiniteSet(client) /\ IsFiniteSet(Refusing)
  <2>1. client \subseteq Client /\ Refusing \subseteq Client
    BY DEF Inv, TypeOK, Refusing
  <2> QED BY <2>1, FS_Subset
<1>5. Cardinality(client) \in Nat /\ Cardinality(Refusing) \in Nat
  BY <1>4, FS_CardinalityType
<1>6. GaugeDrift'
  <2>1. CASE c \in client
    <3>1. Refusing' = Refusing
      BY <1>1, <2>1 DEF Refusing, Inv, TypeOK
    <3>2. Cardinality(client') = Cardinality(client) - 1
      BY <1>1, <1>4, <2>1, FS_RemoveElement
    <3> QED BY <1>1, <1>5, <3>1, <3>2 DEF GaugeDrift, Inv, TypeOK
  <2>2. CASE c \notin client
    <3>1. Refusing' = Refusing \ {c} /\ c \in Refusing /\ client' = client
      BY <1>1, <2>2 DEF Refusing, Inv, TypeOK
    <3>2. Cardinality(Refusing') = Cardinality(Refusing) - 1
      BY <1>4, <3>1, FS_RemoveElement
    <3>3. gauge' = gauge - 1 /\ refused' = refused
      BY <1>1
    <3>4. Cardinality(client') = Cardinality(client)
      BY <3>1
    <3> QED BY <1>5, <3>2, <3>3, <3>4 DEF GaugeDrift, Inv, TypeOK
  <2> QED BY <2>1, <2>2
<1> QED BY <1>2, <1>3, <1>6 DEF Inv

\* message: what is within the limits is counted, the rest ends the websocket.
LEMMA MessageInv ==
  ASSUME Inv, NEW c \in Client, NEW h \in Handler, Message(c, h) PROVE Inv'
<1>1. /\ socket[c] = "open" /\ run[h] = "idle"
      /\ UNCHANGED <<client, gauge, refused, connects, admitted, ready, running>>
  BY DEF Message
<1>2. rate' \in [Client -> Buckets(MaxRequests, Window)]
  <2>1. Taken(MaxRequests, Window, rate[c]) \in Buckets(MaxRequests, Window)
    BY TakenType, Constants DEF Inv, TypeOK
  <2> QED BY <2>1 DEF Message, Inv, TypeOK
<1>3. \A a \in Address : Paid(a)'
  BY <1>1, SamePaid DEF Inv
<1>4. CASE /\ ~Overloaded(c) /\ UNCHANGED socket
           /\ pending' = [pending EXCEPT ![c] = @ + 1]
           /\ globalPending' = globalPending + 1
           /\ run' = [run EXCEPT ![h] = IF ready THEN "handling" ELSE "waiting"]
           /\ by' = [by EXCEPT ![h] = c]
  <2>1. Counted'
    BY <1>1, <1>4, Begins DEF Inv
  <2>2. pending[c] + 1 \in 0..MaxPending /\ globalPending + 1 \in 0..MaxGlobal
    BY <1>4, Constants DEF Inv, TypeOK, Overloaded
  <2>3. TypeOK'
    BY <1>1, <1>2, <1>4, <2>2 DEF Inv, TypeOK
  <2>4. socket' = socket
    BY <1>4
  <2>5. GaugeDrift'
    BY <1>1, <2>4, SameGauge DEF Inv
  <2> QED BY <1>3, <2>1, <2>3, <2>5 DEF Inv
<1>5. CASE socket' = [socket EXCEPT ![c] = "closing"] /\ UNCHANGED requests
  <2>1. TypeOK'
    BY <1>1, <1>2, <1>5 DEF Inv, TypeOK, requests
  <2>2. GaugeDrift'
    BY <1>1, <1>5, SameGauge DEF Inv, TypeOK
  <2> QED BY <1>3, <1>5, <2>1, <2>2, SameCounted DEF Inv
<1> QED BY <1>4, <1>5 DEF Message

\* The finally block, and the wait for the connection.
LEMMA HandlerInv ==
  ASSUME Inv, NEW h \in Handler, Resume(h) \/ Return(h) PROVE Inv'
<1>1. /\ UNCHANGED <<sockets, limits, ready, running, by>>
      /\ run' \in [Handler -> {"idle", "waiting", "handling"}]
  BY DEF Resume, Return, Inv, TypeOK
<1>2. GaugeDrift' /\ \A a \in Address : Paid(a)'
  BY <1>1, SameGauge, SamePaid DEF Inv, sockets, limits
<1>3. CASE Resume(h)
  <2>1. run[h] = "waiting" /\ run' = [run EXCEPT ![h] = "handling"]
        /\ UNCHANGED <<pending, globalPending>>
    BY <1>3 DEF Resume
  <2>2. Running' = Running
    BY <2>1 DEF Running, Inv, TypeOK
  <2>3. Counted'
    BY <1>1, <2>1, <2>2 DEF Inv, Counted, Of
  <2> QED BY <1>1, <1>2, <2>1, <2>3 DEF Inv, TypeOK, sockets, limits
<1>4. CASE Return(h)
  <2>1. Counted' /\ pending' \in [Client -> 0..MaxPending] /\ globalPending' \in 0..MaxGlobal
    BY <1>4, Ends DEF Inv
  <2> QED BY <1>1, <1>2, <2>1 DEF Inv, TypeOK, sockets, limits
<1> QED BY <1>3, <1>4

\* A tick gives addresses their bursts anew.
LEMMA TickInv == ASSUME Inv, Tick PROVE Inv'
<1>1. /\ connects' = [a \in Address |-> IF connects[a] = None THEN None
                                        ELSE Aged(Window, connects[a])]
      /\ rate' = [c \in Client |-> Aged(Window, rate[c])]
      /\ admitted' = [a \in Address |-> 0]
      /\ UNCHANGED <<sockets, requests, ready, running>>
  BY DEF Tick
<1>2. \A a \in Address : connects[a] # None =>
        Aged(Window, connects[a]) \in Buckets(MaxConnects, Window)
  BY AgedType, Constants DEF Inv, TypeOK
<1>3. \A c \in Client : Aged(Window, rate[c]) \in Buckets(MaxRequests, Window)
  BY AgedType, Constants DEF Inv, TypeOK
<1>4. TypeOK'
  <2>1. connects' \in [Address -> Buckets(MaxConnects, Window) \cup {None}]
    BY <1>1, <1>2
  <2>2. rate' \in [Client -> Buckets(MaxRequests, Window)]
    BY <1>1, <1>3
  <2>3. admitted' \in [Address -> Nat]
    BY <1>1
  <2> QED BY <1>1, <2>1, <2>2, <2>3 DEF Inv, TypeOK, sockets, requests
<1>5. \A a \in Address : Paid(a)'
  <2> SUFFICES ASSUME NEW a \in Address PROVE Paid(a)'
    OBVIOUS
  <2>1. CASE connects[a] = None
    BY <1>1, <2>1 DEF Paid
  <2>2. CASE connects[a] # None
    <3> DEFINE b == Aged(Window, connects[a])
    <3>1. b \in Buckets(MaxConnects, Window) /\ connects'[a] = b /\ b # None
          /\ admitted'[a] = 0
      BY <1>1, <1>2, <2>2
    <3>2. /\ Refilled(MaxConnects, Window, b) \in Nat
          /\ Refilled(MaxConnects, Window, b) <= MaxConnects * Window
      BY <3>1, RefilledBounds, Constants
    <3> HIDE DEF b
    <3>3. 0 * Window = 0
      BY Constants
    <3> QED BY <3>1, <3>2, <3>3, Constants DEF Paid
  <2> QED BY <2>1, <2>2
<1>6. Counted' /\ GaugeDrift'
  BY <1>1, SameCounted, SameGauge DEF Inv, sockets
<1> QED BY <1>4, <1>5, <1>6 DEF Inv

\* The upstream comes and goes; the process is told to stop.
LEMMA OtherInv == ASSUME Inv, Flip \/ Shutdown PROVE Inv'
<1>1. /\ UNCHANGED <<client, gauge, refused, limits, requests>>
      /\ running' \in BOOLEAN /\ ready' \in BOOLEAN
      /\ socket' \in [Client -> {"none", "open", "closing"}]
      /\ \A c \in Client : socket'[c] = "none" <=> socket[c] = "none"
  BY DEF Flip, Shutdown, sockets, Inv, TypeOK
<1>2. TypeOK'
  BY <1>1 DEF Inv, TypeOK, limits, requests
<1>3. Counted' /\ GaugeDrift' /\ \A a \in Address : Paid(a)'
  BY <1>1, SameCounted, SameGauge, SamePaid DEF Inv, limits
<1> QED BY <1>2, <1>3 DEF Inv

LEMMA NextInv == Inv /\ [Next]_vars => Inv'
<1> SUFFICES ASSUME Inv, [Next]_vars PROVE Inv'
  OBVIOUS
<1>1. CASE UNCHANGED vars
  <2>1. TypeOK'
    BY <1>1 DEF vars, sockets, limits, requests, Inv, TypeOK
  <2>2. Counted' /\ GaugeDrift' /\ \A a \in Address : Paid(a)'
    BY <1>1, SameCounted, SameGauge, SamePaid DEF vars, sockets, limits, requests, Inv
  <2> QED BY <2>1, <2>2 DEF Inv
<1>2. CASE Next
  BY <1>2, OpenInv, CloseInv, MessageInv, HandlerInv, TickInv, OtherInv DEF Next
<1> QED BY <1>1, <1>2

\* What the middlewares keep up between any two events.
THEOREM Invariance == Spec => []Inv
  BY InitInv, NextInv, PTL DEF Spec

\* protocol.ts: the pending counters are what is being handled, and within their limits.
THEOREM PendingExactHolds == Spec => []PendingExact
<1>1. Inv => PendingExact
  BY DEF Inv, PendingExact, Counted
<1> QED BY <1>1, Invariance, PTL

\* metrics.ts: each refused connection lowers the gauge for ever.
THEOREM GaugeDriftHolds == Spec => []GaugeDrift
  BY Invariance, PTL DEF Inv

\* rate-limiter.ts: an address gets at most one connection more than its limit at a time.
THEOREM ConnectBurstHolds == Spec => []ConnectBurst
<1>1. Inv => ConnectBurst
  <2> SUFFICES ASSUME Inv, NEW a \in Address PROVE admitted[a] <= MaxConnects + 1
    BY DEF ConnectBurst
  <2>1. Paid(a) /\ admitted[a] \in Nat
    BY DEF Inv, TypeOK
  <2>2. CASE connects[a] = None
    BY <2>1, <2>2, Constants DEF Paid
  <2>3. CASE connects[a] # None
    <3> DEFINE n == admitted[a]
               left == Refilled(MaxConnects, Window, connects[a])
    <3>1. left \in Nat
      BY <2>3, RefilledBounds, Constants DEF Inv, TypeOK
    <3>2. n * Window + left <= (MaxConnects + 1) * Window
      BY <2>1, <2>3 DEF Paid
    <3> HIDE DEF n, left
    <3>3. n \in Nat
      BY <2>1 DEF n
    <3>4. n * Window <= (MaxConnects + 1) * Window
      BY <3>1, <3>2, <3>3, Constants
    <3>5. \A i, j, w \in Nat : w > 0 /\ i * w <= j * w => i <= j
      OBVIOUS
    <3>6. n <= MaxConnects + 1
      BY <3>3, <3>4, <3>5, Constants
    <3> QED BY <3>6 DEF n
  <2> QED BY <2>2, <2>3
<1> QED BY <1>1, Invariance, PTL
=============================================================================
