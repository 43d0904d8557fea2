---------------------------- MODULE InductionLemmas ----------------------------
EXTENDS Filter, Integers, FiniteSets, FiniteSetTheorems, WellFoundedInduction, TLAPS

\* A set of natural numbers that is not empty has a least element.
LEMMA LeastNumber ==
  ASSUME NEW T \in SUBSET Nat, T # {}
  PROVE  \E x \in T : \A y \in T : x <= y
<1> DEFINE R == OpToRel(<, Nat)
<1>1. IsWellFoundedOn(R, Nat)
  BY NatLessThanWellFounded
<1>2. R = {ss \in Nat \X Nat : ss[1] < ss[2]}
  BY DEF OpToRel
<1> HIDE DEF R
<1>3. PICK x \in T : \A y \in T : ~ (<<y, x>> \in R)
  BY <1>1, WFMin
<1>4. ASSUME NEW y \in T PROVE x <= y
  <2>1. x \in Nat /\ y \in Nat /\ <<y, x>> \notin R
    BY <1>3
  <2>2. y < x => <<y, x>> \in R
    BY <1>2, <2>1
  <2> QED BY <2>1, <2>2
<1> QED BY <1>4

\* Induction: what holds at 0 and goes from each number to the next holds up to n.
LEMMA Induct ==
  ASSUME NEW n \in Nat, NEW Q, 0 \in Q, \A i \in 0..(n - 1) : i \in Q => i + 1 \in Q
  PROVE  \A i \in 0..n : i \in Q
<1> DEFINE T == (0..n) \ Q
<1> SUFFICES ASSUME T # {} PROVE FALSE
  OBVIOUS
<1>1. T \in SUBSET Nat
  OBVIOUS
<1> HIDE DEF T
<1>2. PICK x \in T : \A y \in T : x <= y
  BY <1>1, LeastNumber
<1>3. x \in 0..n /\ x \notin Q /\ x # 0
  BY DEF T
<1>4. x - 1 \in 0..(n - 1) /\ ~ (x <= x - 1)
  BY <1>3
<1>5. x - 1 \in Q
  BY <1>2, <1>4 DEF T
<1>6. (x - 1) + 1 \in Q
  BY <1>4, <1>5
<1> QED BY <1>3, <1>6

\* A function defined by recursion on 0..n exists.
Recursive(f, n, base, step) ==
  \A i \in 0..n : f[i] = IF i = 0 THEN base ELSE step[<<i, f[i - 1]>>]
LEMMA Recursion ==
  ASSUME NEW n \in Nat, NEW T, NEW base \in T, NEW step \in [(1..n) \X T -> T]
  PROVE  \E f \in [0..n -> T] : Recursive(f, n, base, step)
<1> USE DEF Recursive
<1> DEFINE R(m, f) == Recursive(f, m, base, step)
           Q == {m \in 0..n : \E f \in [0..m -> T] : R(m, f)}
<1>1. 0 \in Q
  <2> DEFINE g == [i \in 0..0 |-> base]
  <2>1. R(0, g) /\ g \in [0..0 -> T]
    OBVIOUS
  <2>2. 0 \in 0..n
    OBVIOUS
  <2> HIDE DEF g, R
  <2> QED BY <2>1, <2>2
<1>2. ASSUME NEW m \in 0..(n - 1), m \in Q PROVE m + 1 \in Q
  <2>1. PICK f \in [0..m -> T] : R(m, f)
    BY <1>2
  <2> DEFINE g == [i \in 0..(m + 1) |-> IF i = m + 1 THEN step[<<m + 1, f[m]>>] ELSE f[i]]
  <2>2. g \in [0..(m + 1) -> T]
    <3>1. <<m + 1, f[m]>> \in (1..n) \X T
      OBVIOUS
    <3> QED BY <3>1
  <2>3. ASSUME NEW i \in 0..(m + 1)
        PROVE  g[i] = IF i = 0 THEN base ELSE step[<<i, g[i - 1]>>]
    <3>1. CASE i = m + 1
      <4>1. i # 0 /\ i - 1 = m /\ g[i - 1] = f[m]
        BY <3>1
      <4> QED BY <3>1, <4>1
    <3>2. CASE i # m + 1
      <4>1. i \in 0..m /\ g[i] = f[i] /\ (i # 0 => g[i - 1] = f[i - 1])
        BY <3>2
      <4> QED BY <2>1, <4>1
    <3> QED BY <3>1, <3>2
  <2>4. R(m + 1, g)
    BY <2>2, <2>3
  <2>5. m + 1 \in 0..n
    OBVIOUS
  <2> HIDE DEF g, R
  <2> QED BY <2>2, <2>4, <2>5
<1>3. n \in Q
  <2> HIDE DEF Q
  <2> QED BY <1>1, <1>2, Induct
<1> QED BY <1>3

\* w consists of what is in S among the first m items of s, in the same order.
Selects(w, s, m, S, pos) ==
  /\ Len(w) <= m
  /\ pos \in [1..Len(w) -> 1..m]
  /\ \A i, j \in 1..Len(w) : i < j => pos[i] < pos[j]
  /\ \A i \in 1..Len(w) : w[i] = s[pos[i]] /\ w[i] \in S
  /\ \A j \in 1..m : s[j] \in S => \E i \in 1..Len(w) : pos[i] = j

LEMMA SelectsNext ==
  ASSUME NEW T, NEW s \in Seq(T), NEW S, NEW m \in 0..(Len(s) - 1), NEW w \in Seq(T),
         NEW pos, Selects(w, s, m, S, pos)
  PROVE  \E at : Selects(IF s[m + 1] \in S THEN Append(w, s[m + 1]) ELSE w, s, m + 1, S, at)
<1>1. CASE s[m + 1] \notin S
  <2>1. Selects(w, s, m + 1, S, pos)
    <3>1. \A j \in 1..(m + 1) : j \in 1..m \/ j = m + 1
      OBVIOUS
    <3>2. pos \in [1..Len(w) -> 1..(m + 1)]
      BY DEF Selects
    <3> QED BY <1>1, <3>1, <3>2 DEF Selects
  <2> QED BY <1>1, <2>1
<1>2. CASE s[m + 1] \in S
  <2> DEFINE x == s[m + 1]
             v == Append(w, x)
             at == [i \in 1..(Len(w) + 1) |-> IF i = Len(w) + 1 THEN m + 1 ELSE pos[i]]
  <2>1. x \in T /\ Len(w) \in Nat
    OBVIOUS
  <2>2. Len(v) = Len(w) + 1 /\ v[Len(w) + 1] = x /\ \A i \in 1..Len(w) : v[i] = w[i]
    BY <2>1
  <2>3. \A i \in 1..(Len(w) + 1) : i \in 1..Len(w) \/ i = Len(w) + 1
    BY <2>1
  <2>4. \A j \in 1..(m + 1) : j \in 1..m \/ j = m + 1
    OBVIOUS
  <2>5. at \in [1..Len(v) -> 1..(m + 1)]
    BY <2>1, <2>2, <2>3 DEF Selects
  <2> HIDE DEF v
  <2>6. ASSUME NEW i \in 1..Len(v), NEW j \in 1..Len(v), i < j PROVE at[i] < at[j]
    <3>1. i \in 1..Len(w) /\ at[i] = pos[i] /\ pos[i] \in 1..m
      BY <2>1, <2>2, <2>6 DEF Selects
    <3>2. CASE j = Len(w) + 1
      BY <2>2, <3>1, <3>2
    <3>3. CASE j # Len(w) + 1
      <4>1. j \in 1..Len(w) /\ at[j] = pos[j]
        BY <2>1, <2>2, <3>3
      <4> QED BY <2>6, <3>1, <4>1 DEF Selects
    <3> QED BY <3>2, <3>3
  <2>7. \A i \in 1..Len(v) : v[i] = s[at[i]] /\ v[i] \in S
    BY <1>2, <2>1, <2>2, <2>3 DEF Selects
  <2>8. \A j \in 1..(m + 1) : s[j] \in S => \E i \in 1..Len(v) : at[i] = j
    <3>1. at[Len(w) + 1] = m + 1 /\ Len(w) + 1 \in 1..Len(v)
      BY <2>1, <2>2
    <3>2. \A i \in 1..Len(w) : at[i] = pos[i] /\ i \in 1..Len(v)
      BY <2>1, <2>2
    <3> QED BY <2>4, <3>1, <3>2 DEF Selects
  <2>9. Len(v) <= m + 1
    BY <2>1, <2>2 DEF Selects
  <2>10. Selects(v, s, m + 1, S, at)
    BY <2>5, <2>6, <2>7, <2>8, <2>9 DEF Selects
  <2> QED BY <1>2, <2>10 DEF v
<1> QED BY <1>1, <1>2

LEMMA WithinSelects ==
  ASSUME NEW T, NEW s \in Seq(T), NEW S
  PROVE  /\ Within(s, S) \in Seq(T)
         /\ \E pos : Selects(Within(s, S), s, Len(s), S, pos)
<1> DEFINE n == Len(s)
           step == [a \in (1..n) \X Seq(T) |->
                      IF s[a[1]] \in S THEN Append(a[2], s[a[1]]) ELSE a[2]]
           R(f) == f = [i \in 0..n |-> IF i = 0 THEN <<>>
                                       ELSE IF s[i] \in S THEN Append(f[i - 1], s[i])
                                       ELSE f[i - 1]]
<1>1. n \in Nat /\ <<>> \in Seq(T)
  OBVIOUS
<1>2. step \in [(1..n) \X Seq(T) -> Seq(T)]
  OBVIOUS
<1>3. \E f \in [0..n -> Seq(T)] : R(f)
  <2>1. \E f \in [0..n -> Seq(T)] :
          \A i \in 0..n : f[i] = IF i = 0 THEN <<>> ELSE step[<<i, f[i - 1]>>]
    <3> DEFINE U == Seq(T)
               none == <<>>
    <3>1. none \in U /\ step \in [(1..n) \X U -> U]
      BY <1>1, <1>2
    <3> HIDE DEF step, n, U, none
    <3>2. \E f \in [0..n -> U] : Recursive(f, n, none, step)
      BY <1>1, <3>1, Recursion
    <3> QED BY <3>2 DEF U, none, Recursive
  <2>2. PICK f \in [0..n -> Seq(T)] :
          \A i \in 0..n : f[i] = IF i = 0 THEN <<>> ELSE step[<<i, f[i - 1]>>]
    BY <2>1
  <2>3. ASSUME NEW i \in 0..n
        PROVE  f[i] = IF i = 0 THEN <<>>
                      ELSE IF s[i] \in S THEN Append(f[i - 1], s[i]) ELSE f[i - 1]
    <3>1. CASE i = 0
      BY <2>2, <3>1
    <3>2. CASE i # 0
      <4>1. i \in 1..n /\ f[i - 1] \in Seq(T)
        BY <3>2
      <4>2. <<i, f[i - 1]>> \in (1..n) \X Seq(T)
        BY <4>1
      <4>3. step[<<i, f[i - 1]>>] = IF s[i] \in S THEN Append(f[i - 1], s[i]) ELSE f[i - 1]
        BY <4>2
      <4>4. f[i] = step[<<i, f[i - 1]>>]
        <5> HIDE DEF step
        <5> QED BY <2>2, <3>2
      <4> HIDE DEF step
      <4> QED BY <3>2, <4>3, <4>4
    <3> QED BY <3>1, <3>2
  <2> QED BY <2>3
<1> DEFINE kept == CHOOSE f : R(f)
<1>4. R(kept)
  BY <1>3
<1>5. Within(s, S) = kept[n]
  BY DEF Within
<1> HIDE DEF kept
<1> DEFINE Q == {m \in 0..n : kept[m] \in Seq(T) /\ \E pos : Selects(kept[m], s, m, S, pos)}
<1>6. 0 \in Q
  <2>1. kept[0] = <<>> /\ <<>> \in Seq(T) /\ Len(<<>>) = 0
    BY <1>4
  <2>2. Selects(<<>>, s, 0, S, [i \in {} |-> 1])
    BY DEF Selects
  <2>3. 0 \in 0..n
    OBVIOUS
  <2> QED BY <2>1, <2>2, <2>3
<1>7. ASSUME NEW m \in 0..(n - 1), m \in Q PROVE m + 1 \in Q
  <2>1. kept[m] \in Seq(T)
    BY <1>7
  <2>2. PICK pos : Selects(kept[m], s, m, S, pos)
    BY <1>7
  <2>3. /\ m + 1 \in 0..n /\ m + 1 # 0 /\ (m + 1) - 1 = m /\ s[m + 1] \in T
        /\ m \in 0..(Len(s) - 1)
    OBVIOUS
  <2>4. kept[m + 1] = IF s[m + 1] \in S THEN Append(kept[m], s[m + 1]) ELSE kept[m]
    BY <1>4, <2>3
  <2>5. kept[m + 1] \in Seq(T)
    BY <2>1, <2>3, <2>4
  <2>6. \E at : Selects(kept[m + 1], s, m + 1, S, at)
    <3> HIDE DEF n
    <3> QED BY <2>1, <2>2, <2>3, <2>4, SelectsNext
  <2> QED BY <2>3, <2>5, <2>6
<1>8. n \in Q
  <2> HIDE DEF Q, n
  <2>1. \A i \in 0..n : i \in Q
    BY <1>1, <1>6, <1>7, Induct
  <2> QED BY <1>1, <2>1
<1> QED BY <1>5, <1>8

\* What Within leaves is what s has of S; it is shorter if s has anything else.
LEMMA WithinRange ==
  ASSUME NEW T, NEW s \in Seq(T), NEW S
  PROVE  /\ Within(s, S) \in Seq(T)
         /\ Len(Within(s, S)) <= Len(s)
         /\ {Within(s, S)[i] : i \in 1..Len(Within(s, S))} = {s[i] : i \in 1..Len(s)} \cap S
<1>1. PICK w : w = Within(s, S)
  OBVIOUS
<1>2. w \in Seq(T) /\ \E pos : Selects(w, s, Len(s), S, pos)
  BY <1>1, WithinSelects
<1>3. PICK pos : Selects(w, s, Len(s), S, pos)
  BY <1>2
<1>4. {w[i] : i \in 1..Len(w)} = {s[i] : i \in 1..Len(s)} \cap S
  <2>1. \A i \in 1..Len(w) : pos[i] \in 1..Len(s) /\ w[i] = s[pos[i]] /\ w[i] \in S
    BY <1>3 DEF Selects
  <2>2. \A j \in 1..Len(s) : s[j] \in S => \E i \in 1..Len(w) : w[i] = s[j]
    BY <1>3 DEF Selects
  <2> QED BY <2>1, <2>2
<1> QED BY <1>1, <1>2, <1>3, <1>4 DEF Selects

LEMMA WithinShorter ==
  ASSUME NEW T, NEW s \in Seq(T), NEW S, NEW k \in 1..Len(s), s[k] \notin S
  PROVE  Len(Within(s, S)) < Len(s)
<1>1. PICK w : w = Within(s, S)
  OBVIOUS
<1>2. w \in Seq(T) /\ \E pos : Selects(w, s, Len(s), S, pos)
  BY <1>1, WithinSelects
<1>3. PICK pos : Selects(w, s, Len(s), S, pos)
  BY <1>2
<1> DEFINE n == Len(w)
           m == Len(s)
<1>4. n \in Nat /\ m \in Nat /\ 1 \in Int /\ 1 <= m
  BY <1>2
<1>5. /\ pos \in [1..n -> 1..m]
      /\ \A i, j \in 1..n : i < j => pos[i] < pos[j]
      /\ \A i \in 1..n : s[pos[i]] \in S
  BY <1>3 DEF Selects
<1> HIDE DEF n, m
<1>6. pos \in Injection(1..n, (1..m) \ {k})
  <2>1. \A i \in 1..n : pos[i] # k
    BY <1>5
  <2>2. pos \in [1..n -> (1..m) \ {k}]
    BY <1>5, <2>1
  <2>3. ASSUME NEW i \in 1..n, NEW j \in 1..n, pos[i] = pos[j] PROVE i = j
    <3>1. pos[i] \in 1..m /\ ~ (pos[i] < pos[j]) /\ ~ (pos[j] < pos[i])
      BY <1>4, <1>5, <2>3
    <3>2. ~ (i < j) /\ ~ (j < i)
      BY <1>5, <3>1
    <3> QED BY <1>4, <3>2
  <2> QED BY <2>2, <2>3 DEF Injection, IsInjective
<1>7. IsFiniteSet(1..m) /\ Cardinality(1..m) = m /\ Cardinality(1..n) = n
  <2>1. \A q \in Nat : IsFiniteSet(1..q) /\ Cardinality(1..q) = q
    <3> TAKE q \in Nat
    <3>1. IsFiniteSet(1..q) /\ Cardinality(1..q) = IF 1 > q THEN 0 ELSE q - 1 + 1
      BY FS_Interval
    <3> QED BY <3>1
  <2> QED BY <1>4, <2>1
<1>8. IsFiniteSet((1..m) \ {k}) /\ Cardinality((1..m) \ {k}) = m - 1
  <2>1. k \in 1..m
    BY DEF m
  <2> QED BY <1>7, <2>1, FS_RemoveElement
<1>9. Cardinality(1..n) <= Cardinality((1..m) \ {k})
  BY <1>6, <1>8, FS_Injection
<1> QED BY <1>1, <1>4, <1>7, <1>8, <1>9 DEF n, m

\* There is one selection only: the items are in the order they had.
LEMMA SelectsUnique ==
  ASSUME NEW T, NEW s \in Seq(T), NEW S, NEW w \in Seq(T), NEW v \in Seq(T), NEW pos, NEW at,
         Selects(w, s, Len(s), S, pos), Selects(v, s, Len(s), S, at)
  PROVE  w = v
<1> DEFINE n == Len(w)
           m == Len(v)
<1>1. n \in Nat /\ m \in Nat /\ Len(s) \in Nat
  OBVIOUS
<1>2. /\ \A i \in 1..n : pos[i] \in 1..Len(s) /\ w[i] = s[pos[i]] /\ w[i] \in S
      /\ \A i, j \in 1..n : i < j => pos[i] < pos[j]
      /\ \A j \in 1..Len(s) : s[j] \in S => \E i \in 1..n : pos[i] = j
  BY DEF Selects
<1>3. /\ \A i \in 1..m : at[i] \in 1..Len(s) /\ v[i] = s[at[i]] /\ v[i] \in S
      /\ \A i, j \in 1..m : i < j => at[i] < at[j]
      /\ \A j \in 1..Len(s) : s[j] \in S => \E i \in 1..m : at[i] = j
  BY DEF Selects
<1> HIDE DEF n, m
<1>4. \A i \in 1..n, j \in 1..n : pos[i] < pos[j] => i < j
  <2> TAKE i \in 1..n, j \in 1..n
  <2> HAVE pos[i] < pos[j]
  <2>1. ~ (pos[j] < pos[i]) /\ pos[i] # pos[j]
    BY <1>1, <1>2
  <2> QED BY <1>1, <1>2, <2>1
<1>5. \A i \in 1..m, j \in 1..m : at[i] < at[j] => i < j
  <2> TAKE i \in 1..m, j \in 1..m
  <2> HAVE at[i] < at[j]
  <2>1. ~ (at[j] < at[i]) /\ at[i] # at[j]
    BY <1>1, <1>3
  <2> QED BY <1>1, <1>3, <2>1
<1> DEFINE B == {i \in 1..n : i \in 1..m /\ pos[i] # at[i]}
<1>6. B = {}
  <2> SUFFICES ASSUME B # {} PROVE FALSE
    OBVIOUS
  <2>1. B \in SUBSET Nat
    OBVIOUS
  <2>2. PICK i \in B : \A j \in B : i <= j
    <3> HIDE DEF B
    <3> QED BY <2>1, LeastNumber
  <2>3. i \in 1..n /\ i \in 1..m /\ pos[i] # at[i] /\ pos[i] \in 1..Len(s) /\ at[i] \in 1..Len(s)
    BY <1>2, <1>3
  <2>4. \A j \in 1..n : j < i => j \in 1..m /\ pos[j] = at[j]
    <3> TAKE j \in 1..n
    <3> HAVE j < i
    <3>1. j \in 1..m /\ ~ (i <= j)
      BY <1>1, <2>3
    <3>2. j \notin B
      BY <2>2, <3>1
    <3> QED BY <3>1, <3>2
  <2> HIDE DEF B
  <2>5. CASE pos[i] < at[i]
    <3>1. PICK j \in 1..m : at[j] = pos[i]
      BY <1>2, <1>3, <2>3
    <3>2. j < i
      BY <1>5, <2>3, <2>5, <3>1
    <3>3. j \in 1..n /\ pos[j] = at[j]
      BY <1>1, <2>3, <2>4, <3>1, <3>2
    <3>4. pos[j] < pos[i]
      BY <1>2, <2>3, <3>2, <3>3
    <3> QED BY <2>3, <3>1, <3>3, <3>4
  <2>6. CASE at[i] < pos[i]
    <3>1. PICK j \in 1..n : pos[j] = at[i]
      BY <1>2, <1>3, <2>3
    <3>2. j < i
      BY <1>4, <2>3, <2>6, <3>1
    <3>3. j \in 1..m /\ pos[j] = at[j]
      BY <2>4, <3>1, <3>2
    <3>4. at[j] < at[i]
      BY <1>3, <2>3, <3>2, <3>3
    <3> QED BY <2>3, <3>1, <3>3, <3>4
  <2> QED BY <2>3, <2>5, <2>6
<1>7. \A i \in 1..n : i \in 1..m => pos[i] = at[i]
  BY <1>6
<1> HIDE DEF B
<1>8. ~ (n < m)
  <2> SUFFICES ASSUME n < m PROVE FALSE
    OBVIOUS
  <2>1. n + 1 \in 1..m
    BY <1>1
  <2>2. PICK i \in 1..n : pos[i] = at[n + 1]
    BY <1>2, <1>3, <2>1
  <2>3. i \in 1..m /\ i < n + 1
    BY <1>1
  <2>4. at[i] < at[n + 1] /\ at[i] \in 1..Len(s)
    BY <1>3, <2>1, <2>3
  <2> QED BY <1>7, <2>2, <2>3, <2>4
<1>9. ~ (m < n)
  <2> SUFFICES ASSUME m < n PROVE FALSE
    OBVIOUS
  <2>1. m + 1 \in 1..n
    BY <1>1
  <2>2. PICK i \in 1..m : at[i] = pos[m + 1]
    BY <1>2, <1>3, <2>1
  <2>3. i \in 1..n /\ i < m + 1
    BY <1>1
  <2>4. pos[i] < pos[m + 1] /\ pos[i] \in 1..Len(s)
    BY <1>2, <2>1, <2>3
  <2> QED BY <1>7, <2>2, <2>3, <2>4
<1>10. n = m
  BY <1>1, <1>8, <1>9
<1>11. \A i \in 1..n : w[i] = v[i]
  BY <1>2, <1>3, <1>7, <1>10
<1> QED BY <1>10, <1>11 DEF n, m

LEMMA WithinIs ==
  ASSUME NEW T, NEW s \in Seq(T), NEW S, NEW v \in Seq(T), NEW at,
         Selects(v, s, Len(s), S, at)
  PROVE  Within(s, S) = v
<1>1. PICK w : w = Within(s, S)
  OBVIOUS
<1>2. w \in Seq(T) /\ \E pos : Selects(w, s, Len(s), S, pos)
  BY <1>1, WithinSelects
<1>3. PICK pos : Selects(w, s, Len(s), S, pos)
  BY <1>2
<1>4. w = v
  BY <1>2, <1>3, SelectsUnique
<1> QED BY <1>1, <1>4

\* Leaving nothing out, or the one item at place p.
LEMMA WithinAll ==
  ASSUME NEW T, NEW s \in Seq(T), NEW S, \A i \in 1..Len(s) : s[i] \in S
  PROVE  Within(s, S) = s
<1> DEFINE at == [i \in 1..Len(s) |-> i]
<1>1. Selects(s, s, Len(s), S, at)
  BY DEF Selects
<1> HIDE DEF at
<1> QED BY <1>1, WithinIs

Skipped(s, p) == [i \in 1..(Len(s) - 1) |-> IF i < p THEN s[i] ELSE s[i + 1]]
LEMMA WithinDrops ==
  ASSUME NEW T, NEW s \in Seq(T), NEW S, NEW p \in 1..Len(s), s[p] \notin S,
         \A i \in 1..Len(s) : i # p => s[i] \in S
  PROVE  /\ Within(s, S) = Skipped(s, p)
         /\ Skipped(s, p) \in Seq(T) /\ Len(Skipped(s, p)) = Len(s) - 1
<1> DEFINE n == Len(s)
           v == Skipped(s, p)
           at == [i \in 1..(n - 1) |-> IF i < p THEN i ELSE i + 1]
<1>1. n \in Nat /\ 1 <= p /\ p <= n /\ p \in Nat /\ n - 1 \in Nat
  OBVIOUS
<1>2. \A i \in 1..(n - 1) : s[i] \in T /\ s[i + 1] \in T
  OBVIOUS
<1>3. v \in Seq(T) /\ Len(v) = n - 1 /\ \A i \in 1..(n - 1) : v[i] = s[at[i]]
  BY <1>1, <1>2 DEF Skipped
<1>4. Selects(v, s, n, S, at)
  <2>1. at \in [1..Len(v) -> 1..n]
    BY <1>1, <1>3
  <2>2. \A i, j \in 1..Len(v) : i < j => at[i] < at[j]
    BY <1>1, <1>3
  <2>3. \A i \in 1..Len(v) : at[i] # p /\ at[i] \in 1..n
    BY <1>1, <1>3
  <2>4. \A i \in 1..Len(v) : v[i] = s[at[i]] /\ v[i] \in S
    BY <1>3, <2>3
  <2>5. ASSUME NEW j \in 1..n, s[j] \in S PROVE \E i \in 1..Len(v) : at[i] = j
    <3>1. j # p
      BY <2>5
    <3>2. CASE j < p
      <4>1. j \in 1..(n - 1) /\ at[j] = j
        BY <1>1, <3>2
      <4> QED BY <1>3, <4>1
    <3>3. CASE j > p
      <4>1. j - 1 \in 1..(n - 1) /\ at[j - 1] = j
        BY <1>1, <3>3
      <4> QED BY <1>3, <4>1
    <3>4. j < p \/ j > p
      BY <1>1, <3>1
    <3> QED BY <3>2, <3>3, <3>4
  <2>6. Len(v) <= n
    BY <1>1, <1>3
  <2> HIDE DEF at, v, n
  <2> QED BY <2>1, <2>2, <2>4, <2>5, <2>6 DEF Selects
<1>5. Within(s, S) = v
  <2> HIDE DEF at, v
  <2> QED BY <1>3, <1>4, WithinIs
<1> QED BY <1>3, <1>5
=============================================================================
