--------------------------- MODULE FollowStateProofs ---------------------------
(* The state of a chainHead follow (chain-head/state): what each client can tell *)
(* from its stream, for any number of clients and blocks; and which pinned       *)
(* blocks are released, for any number of clients, blocks and entries.          *)
EXTENDS FollowStream, PinnedBlocks, InductionLemmas, SequenceTheorems

Tree == parent \in [Block -> Hash] /\ \A b \in Block : parent[b] < b

\* The table of ancestors is the one its recursive definition describes.
LEMMA AncestorsIs ==
  ASSUME Tree, ahead \subseteq Block, NEW b \in Hash
  PROVE  Ancestors(b) = IF b \in ahead THEN {b} \cup Ancestors(parent[b]) ELSE {}
<1> DEFINE n == MaxBlock + 1
           T == [Hash -> SUBSET ahead]
           base == [c \in Hash |-> {}]
           step == [a \in (1..(n + 1)) \X T |->
                      [c \in Hash |-> IF c \in ahead THEN {c} \cup a[2][parent[c]] ELSE {}]]
           R(f) == f = [c \in Hash |-> IF c \in ahead THEN {c} \cup f[parent[c]] ELSE {}]
<1>1. n \in Nat /\ n + 1 \in Nat /\ base \in T
  BY StreamAssumption
<1>2. \A c \in ahead : c \in Hash /\ parent[c] \in Hash /\ parent[c] < c
  BY StreamAssumption DEF Tree, Block, Hash
<1>3. step \in [(1..(n + 1)) \X T -> T]
  <2>1. ASSUME NEW a \in (1..(n + 1)) \X T
        PROVE  [c \in Hash |-> IF c \in ahead THEN {c} \cup a[2][parent[c]] ELSE {}] \in T
    <3>1. \A c \in Hash : a[2][c] \in SUBSET ahead
      BY <2>1
    <3>2. \A c \in Hash : (IF c \in ahead THEN {c} \cup a[2][parent[c]] ELSE {}) \in SUBSET ahead
      BY <1>2, <3>1
    <3> QED BY <3>2
  <2> HIDE DEF T
  <2> QED BY <2>1
<1>4. PICK t \in [0..(n + 1) -> T] : Recursive(t, n + 1, base, step)
  <2> HIDE DEF n, T, base, step
  <2> QED BY <1>1, <1>3, Recursion
<1>5. \A i \in 0..(n + 1) : t[i] \in T
  <2> HIDE DEF n, T, base, step
  <2> QED BY <1>4
<1>6. ASSUME NEW i \in 0..n, NEW c \in Hash
      PROVE  t[i + 1][c] = IF c \in ahead THEN {c} \cup t[i][parent[c]] ELSE {}
  <2>1. i + 1 \in 0..(n + 1) /\ i + 1 # 0 /\ (i + 1) - 1 = i /\ i \in 0..(n + 1)
    BY <1>1
  <2>2. t[i + 1] = step[<<i + 1, t[i]>>]
    <3> HIDE DEF step, n
    <3> QED BY <1>4, <2>1 DEF Recursive
  <2>3. <<i + 1, t[i]>> \in (1..(n + 1)) \X T
    <3> HIDE DEF T
    <3> QED BY <1>1, <1>5, <2>1
  <2>4. step[<<i + 1, t[i]>>]
          = [d \in Hash |-> IF d \in ahead THEN {d} \cup t[i][parent[d]] ELSE {}]
    <3> HIDE DEF T
    <3> QED BY <2>3
  <2> HIDE DEF step
  <2> QED BY <2>2, <2>4
<1> DEFINE Q == {i \in 0..n : \A c \in Hash : c < i => t[i + 1][c] = t[i][c]}
<1>7. 0 \in Q
  BY <1>1 DEF Hash
<1>8. ASSUME NEW i \in 0..(n - 1), i \in Q PROVE i + 1 \in Q
  <2>1. i \in 0..n /\ i + 1 \in 0..n
    BY <1>1
  <2>2. ASSUME NEW c \in Hash, c < i + 1 PROVE t[(i + 1) + 1][c] = t[i + 1][c]
    <3>1. CASE c \in ahead
      <4>1. parent[c] \in Hash /\ parent[c] < i
        BY <1>2, <2>1, <2>2, <3>1 DEF Hash
      <4>2. t[i + 1][parent[c]] = t[i][parent[c]]
        BY <1>8, <4>1
      <4> QED BY <1>6, <2>1, <3>1, <4>2
    <3>2. CASE c \notin ahead
      BY <1>6, <2>1, <3>2
    <3> QED BY <3>1, <3>2
  <2> QED BY <2>1, <2>2
<1>9. n \in Q
  <2>1. \A i \in 0..n : i \in Q
    <3> HIDE DEF Q, n
    <3> QED BY <1>1, <1>7, <1>8, Induct
  <2> QED BY <1>1, <2>1
<1>10. R(t[n])
  <2>1. n \in 0..n /\ \A c \in Hash : c < n
    BY <1>1, StreamAssumption DEF Hash
  <2>2. \A c \in Hash : t[n][c] = IF c \in ahead THEN {c} \cup t[n][parent[c]] ELSE {}
    BY <1>6, <1>9, <2>1
  <2>3. t[n] \in T
    BY <1>1, <1>5
  <2> HIDE DEF n
  <2> QED BY <2>2, <2>3
<1>11. t[n] \in T
  BY <1>1, <1>5
<1> HIDE DEF n
<1> DEFINE up == CHOOSE f : R(f)
<1>12. R(up)
  BY <1>10
<1>13. \A c \in Hash : Ancestors(c) = up[c]
  BY DEF Ancestors
<1> HIDE DEF up
<1>14. \A c \in Hash : up[c] = IF c \in ahead THEN {c} \cup up[parent[c]] ELSE {}
  BY <1>12
<1> QED BY <1>13, <1>14, <1>2
\* A set that leads from each of its blocks to the parent holds the ancestors of them.
LEMMA AncestorsWithin ==
  ASSUME Tree, ahead \subseteq Block, NEW S,
         \A d \in S \cap ahead : parent[d] \in ahead => parent[d] \in S,
         NEW b \in S \cap ahead
  PROVE  Ancestors(b) \subseteq S \cap ahead
<1> DEFINE Q == {i \in 0..MaxBlock : \A c \in Hash : c <= i /\ (c \in ahead => c \in S)
                                                   => Ancestors(c) \subseteq S \cap ahead}
<1>1. \A c \in ahead : c \in Hash /\ c # 0 /\ parent[c] \in Hash /\ parent[c] < c
  BY StreamAssumption DEF Tree, Block, Hash
<1>2. \A c \in Hash : Ancestors(c) = IF c \in ahead THEN {c} \cup Ancestors(parent[c]) ELSE {}
  BY AncestorsIs
<1>3. MaxBlock \in Nat
  BY StreamAssumption
<1>4. 0 \in Q
  BY <1>1, <1>2, <1>3 DEF Hash
<1>5. ASSUME NEW i \in 0..(MaxBlock - 1), i \in Q PROVE i + 1 \in Q
  <2>1. ASSUME NEW c \in Hash, c <= i + 1, c \in ahead => c \in S
        PROVE  Ancestors(c) \subseteq S \cap ahead
    <3>1. CASE c \in ahead
      <4>1. /\ parent[c] \in Hash /\ parent[c] <= i
            /\ parent[c] \in ahead => parent[c] \in S
        BY <1>1, <1>3, <2>1, <3>1 DEF Hash
      <4>2. Ancestors(parent[c]) \subseteq S \cap ahead
        BY <1>5, <4>1
      <4> QED BY <1>2, <2>1, <3>1, <4>2
    <3>2. CASE c \notin ahead
      BY <1>2, <3>2
    <3> QED BY <3>1, <3>2
  <2>2. i + 1 \in 0..MaxBlock
    BY <1>3
  <2> QED BY <2>1, <2>2
<1>6. MaxBlock \in Q
  <2>1. \A i \in 0..MaxBlock : i \in Q
    <3> HIDE DEF Q
    <3> QED BY <1>3, <1>4, <1>5, Induct
  <2> QED BY <1>3, <2>1
<1>7. b \in Hash /\ b <= MaxBlock
  BY <1>1, <1>3 DEF Hash
<1> QED BY <1>6, <1>7

\* What the recursive definition says, without the table.
LEMMA AncestorsFacts ==
  ASSUME Tree, ahead \subseteq Block, NEW b \in Hash
  PROVE  /\ Ancestors(b) \subseteq ahead
         /\ b \in ahead => b \in Ancestors(b)
         /\ b \notin ahead => Ancestors(b) = {}
         /\ \A h : b \in ahead /\ h \in Ancestors(b) /\ h # b =>
               parent[b] \in ahead /\ h \in Ancestors(parent[b])
<1>1. Ancestors(b) = IF b \in ahead THEN {b} \cup Ancestors(parent[b]) ELSE {}
  BY AncestorsIs
<1>2. b \in ahead => Ancestors(b) \subseteq ahead
  <2> SUFFICES ASSUME b \in ahead PROVE Ancestors(b) \subseteq ahead \cap ahead
    OBVIOUS
  <2> QED BY AncestorsWithin
<1>3. b \in ahead => parent[b] \in Hash
  BY StreamAssumption DEF Tree, Block, Hash
<1>4. b \in ahead /\ parent[b] \notin ahead => Ancestors(parent[b]) = {}
  BY <1>3, AncestorsIs
<1> QED BY <1>1, <1>2, <1>4

\* The chain of a block goes on at the parents of its blocks.
LEMMA AncestorsGoOn ==
  ASSUME Tree, ahead \subseteq Block, NEW h \in ahead, NEW b \in Ancestors(h),
         parent[b] \in ahead
  PROVE  parent[b] \in Ancestors(h)
<1> DEFINE Q == {i \in 0..MaxBlock : \A c \in Hash : c <= i =>
                   \A d \in Ancestors(c) : parent[d] \in ahead => parent[d] \in Ancestors(c)}
<1>1. \A c \in ahead : c \in Hash /\ c # 0 /\ parent[c] \in Hash /\ parent[c] < c
  BY StreamAssumption DEF Tree, Block, Hash
<1>2. \A c \in Hash : Ancestors(c) = IF c \in ahead THEN {c} \cup Ancestors(parent[c]) ELSE {}
  BY AncestorsIs
<1>3. MaxBlock \in Nat
  BY StreamAssumption
<1>4. 0 \in Q
  BY <1>1, <1>2, <1>3 DEF Hash
<1>5. ASSUME NEW i \in 0..(MaxBlock - 1), i \in Q PROVE i + 1 \in Q
  <2>1. ASSUME NEW c \in Hash, c <= i + 1, NEW d \in Ancestors(c), parent[d] \in ahead
        PROVE  parent[d] \in Ancestors(c)
    <3>1. c \in ahead /\ Ancestors(c) = {c} \cup Ancestors(parent[c])
      BY <1>2, <2>1
    <3>2. CASE d = c
      BY <1>1, <1>2, <2>1, <3>1, <3>2
    <3>3. CASE d \in Ancestors(parent[c])
      <4>1. parent[c] \in Hash /\ parent[c] <= i
        BY <1>1, <1>3, <2>1, <3>1 DEF Hash
      <4>2. parent[d] \in Ancestors(parent[c])
        BY <1>5, <2>1, <3>3, <4>1
      <4> QED BY <3>1, <4>2
    <3> QED BY <2>1, <3>1, <3>2, <3>3
  <2>2. i + 1 \in 0..MaxBlock
    BY <1>3
  <2> QED BY <2>1, <2>2
<1>6. MaxBlock \in Q
  <2>1. \A i \in 0..MaxBlock : i \in Q
    <3> HIDE DEF Q
    <3> QED BY <1>3, <1>4, <1>5, Induct
  <2> QED BY <1>3, <2>1
<1>7. h \in Hash /\ h <= MaxBlock
  BY <1>1, <1>3 DEF Hash
<1> QED BY <1>6, <1>7

-----------------------------------------------------------------------------
\* What finalizing h takes out of the blocks ahead, and what of that it does not finalize.
Gone(h) == {b \in ahead : h \notin Ancestors(b)} \cup {h}
Pruned(h) == Gone(h) \ Ancestors(h)

LEMMA PrunedFacts ==
  ASSUME Tree, ahead \subseteq Block, NEW h \in ahead
  PROVE  /\ Gone(h) \subseteq ahead
         /\ Pruned(h) \subseteq ahead /\ h \notin Pruned(h)
         /\ \A b \in ahead : parent[b] \in Pruned(h) => b \in Pruned(h)
         /\ \A b \in ahead \ Gone(h) :
              /\ b # h /\ h \in Ancestors(b)
              /\ parent[b] = h \/ parent[b] \in ahead \ Gone(h)
<1>1. \A b \in ahead : b \in Hash /\ parent[b] \in Hash
  BY StreamAssumption DEF Tree, Block, Hash
<1>2. h \in Ancestors(h)
  BY <1>1, AncestorsFacts
<1>3. Pruned(h) \subseteq ahead /\ h \notin Pruned(h) /\ Gone(h) \subseteq ahead
  BY <1>2 DEF Pruned, Gone
<1>4. ASSUME NEW b \in ahead, parent[b] \in Pruned(h) PROVE b \in Pruned(h)
  <2>1. parent[b] \in ahead /\ parent[b] \notin Ancestors(h) /\ h \notin Ancestors(parent[b])
    BY <1>3, <1>4 DEF Pruned, Gone
  <2>2. b \notin Ancestors(h)
    BY <2>1, AncestorsGoOn
  <2>3. h \notin Ancestors(b)
    BY <1>1, <1>2, <2>1, <2>2, AncestorsFacts
  <2> QED BY <2>2, <2>3 DEF Pruned, Gone
<1>5. ASSUME NEW b \in ahead \ Gone(h)
      PROVE  /\ b # h /\ h \in Ancestors(b)
             /\ parent[b] = h \/ parent[b] \in ahead \ Gone(h)
  <2>1. b # h /\ h \in Ancestors(b)
    BY DEF Gone
  <2>2. parent[b] \in ahead /\ h \in Ancestors(parent[b])
    BY <1>1, <2>1, AncestorsFacts
  <2> QED BY <2>1, <2>2 DEF Gone
<1> QED BY <1>3, <1>4, <1>5

\* From position m + 1 on, s has the blocks of A once, each one after its parent or on
\* top of f; nothing comes twice in s.
Lists(s, m, A, f) ==
  /\ \A i, j \in 1..Len(s) : s[i] = s[j] => i = j
  /\ \A i \in (m + 1)..Len(s) :
       /\ s[i] \in A
       /\ parent[s[i]] = f \/ \E j \in (m + 1)..(i - 1) : s[j] = parent[s[i]]
  /\ \A b \in A : \E i \in (m + 1)..Len(s) : s[i] = b

LEMMA Once ==
  ASSUME NEW s, NEW m, NEW A, NEW f, Lists(s, m, A, f),
         NEW i \in 1..Len(s), NEW j \in 1..Len(s), s[i] = s[j]
  PROVE  i = j
BY DEF Lists

\* The ancestors of a block are listed before it.
LEMMA ListedBefore ==
  ASSUME Tree, ahead \subseteq Block, NEW f, f \notin ahead,
         NEW s \in Seq(Hash), NEW m \in 0..Len(s), Lists(s, m, ahead, f)
  PROVE  \A i \in (m + 1)..Len(s) : \A b \in Ancestors(s[i]) : \E j \in (m + 1)..i : s[j] = b
<1> TAKE i \in (m + 1)..Len(s)
<1> TAKE b \in Ancestors(s[i])
<1> DEFINE S == {s[j] : j \in (m + 1)..i}
<1>1. s[i] \in S \cap ahead
  BY DEF Lists
<1>2. ASSUME NEW d \in S \cap ahead, parent[d] \in ahead PROVE parent[d] \in S
  <2>1. PICK j \in (m + 1)..i : s[j] = d
    OBVIOUS
  <2>2. j \in (m + 1)..Len(s) /\ parent[s[j]] # f
    BY <1>2, <2>1
  <2>3. PICK k \in (m + 1)..(j - 1) : s[k] = parent[s[j]]
    BY <2>2 DEF Lists
  <2>4. k \in (m + 1)..i
    BY <2>1, <2>3
  <2> QED BY <2>1, <2>3, <2>4
<1>3. Ancestors(s[i]) \subseteq S \cap ahead
  <2> HIDE DEF S
  <2> QED BY <1>1, <1>2, AncestorsWithin
<1> QED BY <1>3

\* What is left of a list of the blocks ahead without the pruned ones lists, after the
\* finalized block, the blocks that are ahead of it.
LEMMA FinalizedLists ==
  ASSUME Tree, ahead \subseteq Block, NEW f, f \notin ahead,
         NEW s \in Seq(Hash), NEW m \in 0..Len(s), Lists(s, m, ahead, f),
         NEW h \in ahead, NEW K,
         \A b \in ahead : b \in K <=> b \notin Pruned(h)
  PROVE  \E a \in 1..Len(Within(s, K)) :
           Within(s, K)[a] = h /\ Lists(Within(s, K), a, ahead \ Gone(h), h)
<1> DEFINE w == Within(s, K)
<1>1. w \in Seq(Hash)
  BY WithinSelects
<1>2. PICK pos : Selects(w, s, Len(s), K, pos)
  <2>1. \E pos : Selects(w, s, Len(s), K, pos)
    BY WithinSelects
  <2> QED BY <2>1
<1> HIDE DEF w
<1>3. Len(w) \in Nat /\ Len(s) \in Nat
  BY <1>1
<1>4. /\ \A i \in 1..Len(w) : pos[i] \in 1..Len(s) /\ w[i] = s[pos[i]] /\ w[i] \in K
      /\ \A i, j \in 1..Len(w) : i < j => pos[i] < pos[j]
      /\ \A j \in 1..Len(s) : s[j] \in K => \E i \in 1..Len(w) : pos[i] = j
  BY <1>2 DEF Selects
<1>5. \A i, j \in 1..Len(w) : w[i] = w[j] => i = j
  <2>1. ASSUME NEW i \in 1..Len(w), NEW j \in 1..Len(w), w[i] = w[j] PROVE i = j
    <3>1. pos[i] \in 1..Len(s) /\ pos[j] \in 1..Len(s) /\ s[pos[i]] = s[pos[j]]
      BY <1>4, <2>1
    <3>2. pos[i] = pos[j]
      BY <3>1, Once
    <3>3. ~(pos[i] < pos[j]) /\ ~(pos[j] < pos[i])
      BY <1>3, <3>1, <3>2
    <3>4. ~(i < j) /\ ~(j < i)
      BY <1>4, <3>3
    <3> QED BY <1>3, <3>4
  <2> QED BY <2>1
<1>6. h \in K /\ h \notin Pruned(h)
  BY PrunedFacts
<1>7. PICK e \in (m + 1)..Len(s) : s[e] = h
  BY DEF Lists
<1>8. e \in 1..Len(s)
  BY <1>3
<1>9. PICK a \in 1..Len(w) : pos[a] = e
  BY <1>4, <1>6, <1>7, <1>8
<1> DEFINE Before == \A i \in (m + 1)..Len(s) : \A b \in Ancestors(s[i]) :
                       \E j \in (m + 1)..i : s[j] = b
<1>15. Before
  <2>1. \A i \in (m + 1)..Len(s) : \A b \in Ancestors(s[i]) : \E j \in (m + 1)..i : s[j] = b
    BY ONLY Tree, ahead \subseteq Block, f \notin ahead, s \in Seq(Hash), m \in 0..Len(s),
            Lists(s, m, ahead, f), ListedBefore
  <2> QED BY ONLY <2>1
<1> HIDE DEF Before
<1>10. ASSUME NEW i \in (a + 1)..Len(w)
       PROVE  /\ i \in 1..Len(w) /\ pos[i] \in (m + 1)..Len(s) /\ e < pos[i]
              /\ w[i] \in ahead \ Gone(h)
  <2>1. i \in 1..Len(w) /\ a < i
    BY <1>3
  <2>2. pos[i] \in 1..Len(s) /\ e < pos[i] /\ w[i] = s[pos[i]] /\ w[i] \in K
    BY <1>4, <1>9, <2>1
  <2>3. pos[i] \in (m + 1)..Len(s)
    BY <1>3, <2>2
  <2>4. w[i] \in ahead /\ w[i] \notin Pruned(h)
    BY <2>2, <2>3 DEF Lists
  <2>5. w[i] # h
    BY <1>7, <1>8, <2>2 DEF Lists
  <2>6. w[i] \notin Ancestors(h)
    <3> SUFFICES ASSUME w[i] \in Ancestors(h) PROVE FALSE
      OBVIOUS
    <3>1. w[i] \in Ancestors(s[e])
      BY <1>7
    <3>2. PICK j \in (m + 1)..e : s[j] = w[i]
      BY <1>15, <3>1 DEF Before
    <3>3. j \in 1..Len(s) /\ j <= e
      BY <1>3, <3>2
    <3>4. j = pos[i]
      BY <2>2, <3>2, <3>3, Once
    <3> QED BY <1>3, <2>2, <3>3, <3>4
  <2> QED BY <2>1, <2>2, <2>3, <2>4, <2>5, <2>6 DEF Pruned
<1>11. ASSUME NEW b \in ahead \ Gone(h) PROVE \E i \in (a + 1)..Len(w) : w[i] = b
  <2>1. b \in K /\ b # h /\ h \in Ancestors(b)
    BY PrunedFacts DEF Pruned
  <2>2. PICK j \in (m + 1)..Len(s) : s[j] = b
    BY DEF Lists
  <2>3. PICK i \in 1..Len(w) : pos[i] = j
    BY <1>3, <1>4, <2>1, <2>2
  <2>4. PICK k \in (m + 1)..j : s[k] = h
    <3>1. h \in Ancestors(s[j])
      BY <2>1, <2>2
    <3> QED BY <1>15, <3>1 DEF Before
  <2>5. k = e
    <3>1. k \in 1..Len(s)
      BY <1>3, <2>4
    <3> QED BY <1>7, <1>8, <2>4, <3>1 DEF Lists
  <2>6. e < j
    BY <1>7, <2>1, <2>2, <2>4, <2>5
  <2>7. ~(i < a) /\ i # a
    <3>1. e \in Int /\ j \in Int
      BY <1>3
    <3>2. ~(pos[i] < pos[a]) /\ pos[i] # pos[a]
      BY <1>9, <2>3, <2>6, <3>1
    <3> QED BY <1>4, <3>2
  <2>8. i \in (a + 1)..Len(w)
    BY <1>3, <2>7
  <2> QED BY <1>4, <2>2, <2>3, <2>8
<1>12. ASSUME NEW i \in (a + 1)..Len(w)
       PROVE  parent[w[i]] = h \/ \E j \in (a + 1)..(i - 1) : w[j] = parent[w[i]]
  <2>1. parent[w[i]] = h \/ parent[w[i]] \in ahead \ Gone(h)
    BY <1>10, PrunedFacts
  <2> SUFFICES ASSUME parent[w[i]] \in ahead \ Gone(h)
               PROVE  \E j \in (a + 1)..(i - 1) : w[j] = parent[w[i]]
    BY <2>1
  <2>2. PICK j \in (a + 1)..Len(w) : w[j] = parent[w[i]]
    BY <1>11
  <2>3. w[i] = s[pos[i]] /\ w[j] = s[pos[j]] /\ pos[i] \in (m + 1)..Len(s)
        /\ pos[j] \in 1..Len(s)
    BY <1>4, <1>10
  <2>4. PICK k \in (m + 1)..(pos[i] - 1) : s[k] = parent[s[pos[i]]]
    <3>1. parent[s[pos[i]]] # f
      BY <2>3
    <3> QED BY <2>3, <3>1 DEF Lists
  <2>5. k = pos[j]
    <3>1. s[k] = s[pos[j]]
      BY <2>2, <2>3, <2>4
    <3>2. pos[i] \in 1..Len(s) /\ m \in Nat
      BY <1>3, <2>3
    <3>3. k \in 1..Len(s)
      BY <1>3, <2>4, <3>2
    <3> QED BY <2>3, <3>1, <3>3, Once
  <2>6. pos[j] < pos[i]
    BY <2>3, <2>4, <2>5
  <2>7. i \in 1..Len(w) /\ j \in 1..Len(w)
    BY <1>10
  <2>8. ~(i < j) /\ i # j
    <3>1. pos[i] \in Int /\ pos[j] \in Int
      BY <1>3, <2>3
    <3>2. ~(pos[i] < pos[j]) /\ pos[i] # pos[j]
      BY <2>6, <3>1
    <3> QED BY <1>4, <2>7, <3>2
  <2>9. j \in (a + 1)..(i - 1)
    BY <1>3, <2>8
  <2> QED BY <2>2, <2>9
<1>13. Lists(w, a, ahead \ Gone(h), h)
  BY <1>5, <1>10, <1>11, <1>12 DEF Lists
<1>14. w[a] = h
  BY <1>4, <1>7, <1>9
<1> QED BY <1>13, <1>14 DEF w

\* Blocks that are all listed once are as many as there are.
LEMMA ListsCount ==
  ASSUME NEW T, NEW s \in Seq(T), NEW f, NEW m \in 0..Len(s), NEW A, Lists(s, m, A, f)
  PROVE  IsFiniteSet(A) /\ Cardinality(A) = Len(s) - m
<1> DEFINE g == [i \in (m + 1)..Len(s) |-> s[i]]
<1>1. m + 1 \in Int /\ Len(s) \in Int
  OBVIOUS
<1>2. g \in Bijection((m + 1)..Len(s), A)
  <2>1. \A i \in (m + 1)..Len(s) : i \in 1..Len(s) /\ s[i] \in A
    BY <1>1 DEF Lists
  <2>2. g \in [(m + 1)..Len(s) -> A]
    BY <2>1
  <2>3. ASSUME NEW i \in (m + 1)..Len(s), NEW j \in (m + 1)..Len(s), g[i] = g[j] PROVE i = j
    BY <2>1, <2>3, Once
  <2>4. \A b \in A : \E i \in (m + 1)..Len(s) : g[i] = b
    BY DEF Lists
  <2> HIDE DEF g
  <2> QED BY <2>2, <2>3, <2>4 DEF Bijection, Injection, Surjection, IsInjective
<1>3. /\ IsFiniteSet((m + 1)..Len(s))
      /\ Cardinality((m + 1)..Len(s)) = IF m + 1 > Len(s) THEN 0 ELSE Len(s) - (m + 1) + 1
  BY <1>1, FS_Interval
<1>4. ExistsBijection((m + 1)..Len(s), A)
  BY <1>2 DEF ExistsBijection
<1>5. IsFiniteSet(A) /\ Cardinality(A) = Cardinality((m + 1)..Len(s))
  BY <1>3, <1>4, FS_Bijection
<1> QED BY <1>3, <1>5

-----------------------------------------------------------------------------
\* What a client knows that was told of everything.
Told(f, b, A) == [final |-> f, best |-> b, blocks |-> A, ok |-> TRUE]
Seen(f, b, A, k) == [final |-> f, best |-> b, blocks |-> A, ok |-> k]

LEMMA BlockTold ==
  ASSUME NEW f, NEW b, NEW A, NEW x, x \notin A, parent[x] \in A \cup {f}
  PROVE  SeeBlock(Told(f, b, A), x) = Told(f, b, A \cup {x})
<1> PICK yes : yes = TRUE
  OBVIOUS
<1> PICK B : B = A \cup {x}
  OBVIOUS
<1> DEFINE v == Told(f, b, A)
           u == [v EXCEPT !.blocks = B]
<1>1. v = Seen(f, b, A, yes) /\ Told(f, b, B) = Seen(f, b, B, yes)
  BY DEF Told, Seen
<1>2. v.blocks = A /\ v.final = f /\ v.ok = yes
  BY DEF Told
<1> HIDE DEF v
<1>3. (v.ok /\ x \notin v.blocks /\ parent[x] \in v.blocks \cup {v.final}) = yes
  BY <1>2
<1>4. SeeBlock(v, x) = [v EXCEPT !.blocks = B, !.ok = yes]
  BY <1>2, <1>3 DEF SeeBlock
<1>5. [v EXCEPT !.blocks = B, !.ok = yes] = [u EXCEPT !.ok = yes]
  BY Zenon
<1>6. u = Seen(f, b, B, yes)
  BY ONLY <1>1 DEF Seen
<1> HIDE DEF u
<1>7. [u EXCEPT !.ok = yes] = Seen(f, b, B, yes)
  BY ONLY <1>6 DEF Seen
<1> QED BY <1>1, <1>4, <1>5, <1>7 DEF v

LEMMA BestTold ==
  ASSUME NEW f, NEW b, NEW A, NEW x \in A \cup {f}
  PROVE  SeeBest(Told(f, b, A), x) = Told(f, x, A)
<1> PICK yes : yes = TRUE
  OBVIOUS
<1> DEFINE v == Told(f, b, A)
           u == [v EXCEPT !.best = x]
<1>1. v = Seen(f, b, A, yes) /\ Told(f, x, A) = Seen(f, x, A, yes)
  BY DEF Told, Seen
<1>2. v.blocks = A /\ v.final = f /\ v.ok = yes
  BY DEF Told
<1> HIDE DEF v
<1>3. (v.ok /\ x \in v.blocks \cup {v.final}) = yes
  BY <1>2
<1>4. SeeBest(v, x) = [v EXCEPT !.best = x, !.ok = yes]
  BY <1>3 DEF SeeBest
<1>5. [v EXCEPT !.best = x, !.ok = yes] = [u EXCEPT !.ok = yes]
  BY Zenon
<1>6. u = Seen(f, x, A, yes)
  BY ONLY <1>1 DEF Seen
<1> HIDE DEF u
<1>7. [u EXCEPT !.ok = yes] = Seen(f, x, A, yes)
  BY ONLY <1>6 DEF Seen
<1> QED BY <1>1, <1>4, <1>5, <1>7 DEF v

LEMMA FinalizedTold ==
  ASSUME NEW f, NEW b, NEW A, NEW h, NEW gone, gone \subseteq A, b \in gone => b = h
  PROVE  SeeFinalized(Told(f, b, A), h, gone) = Told(h, b, A \ gone)
<1> PICK yes : yes = TRUE
  OBVIOUS
<1> PICK B : B = A \ gone
  OBVIOUS
<1> DEFINE v == Told(f, b, A)
           u == [v EXCEPT !.final = h]
           w == [u EXCEPT !.blocks = B]
<1>1. v = Seen(f, b, A, yes) /\ Told(h, b, B) = Seen(h, b, B, yes)
  BY DEF Told, Seen
<1>2. v.blocks = A /\ v.best = b /\ v.ok = yes
  BY DEF Told
<1> HIDE DEF v
<1>3. (v.ok /\ gone \subseteq v.blocks /\ (v.best \in gone => v.best = h)) = yes
  BY <1>2
<1>4. SeeFinalized(v, h, gone) = [v EXCEPT !.final = h, !.blocks = B, !.ok = yes]
  BY <1>2, <1>3 DEF SeeFinalized
<1>5. [v EXCEPT !.final = h, !.blocks = B, !.ok = yes] = [w EXCEPT !.ok = yes]
  BY Zenon
<1>6. u = Seen(h, b, A, yes)
  BY ONLY <1>1 DEF Seen
<1> HIDE DEF u
<1>7. w = Seen(h, b, B, yes)
  BY ONLY <1>6 DEF Seen
<1> HIDE DEF w
<1>8. [w EXCEPT !.ok = yes] = Seen(h, b, B, yes)
  BY ONLY <1>7 DEF Seen
<1> QED BY <1>1, <1>4, <1>5, <1>8 DEF v

\* A client that is sent the snapshot makes of it what it describes.

LEMMA ReplayTells ==
  ASSUME Tree, NEW A \in SUBSET Block, NEW f \in Hash \ A, NEW p \in A \cup {f},
         NEW s \in [final : {f}, best : {IF p = f THEN None ELSE p},
                    newBlocks : Seq(Block)],
         NEW t, Lists(s.newBlocks, 0, A, f),
         \A b \in A : Knows(t, parent[b])
  PROVE  Replay(s, t) = Told(f, p, A)
<1> DEFINE K == {b \in Block : Knows(t, parent[b])}
           l == s.newBlocks
           w == Within(l, K)
           n == Len(w)
           T == [final : {f}, best : {f}, blocks : SUBSET A, ok : BOOLEAN]
           step == [a \in (1..n) \X T |-> SeeBlock(a[2], w[a[1]])]
           R(g) == g = [i \in 0..n |-> IF i = 0 THEN SeeInitialized(s.final)
                                       ELSE SeeBlock(g[i - 1], w[i])]
<1>1. l \in Seq(Block) /\ w \in Seq(Block)
  <2>1. l \in Seq(Block)
    OBVIOUS
  <2> QED BY <2>1, WithinSelects
<1>2. PICK pos : Selects(w, l, Len(l), K, pos)
  <2>1. \E pos : Selects(w, l, Len(l), K, pos)
    BY <1>1, WithinSelects
  <2> QED BY <2>1
<1> HIDE DEF l
<1>3. n \in Nat /\ Len(l) \in Nat
  BY <1>1
<1> HIDE DEF w
<1>4. Lists(w, 0, A, f)
  <2>1. /\ \A i \in 1..Len(w) : pos[i] \in 1..Len(l) /\ w[i] = l[pos[i]] /\ w[i] \in K
        /\ \A i, j \in 1..Len(w) : i < j => pos[i] < pos[j]
        /\ \A j \in 1..Len(l) : l[j] \in K => \E i \in 1..Len(w) : pos[i] = j
    BY <1>2 DEF Selects
  <2>2. Lists(l, 0, A, f)
    BY DEF l
  <2>3. \A j \in 1..Len(l) : l[j] \in K
    BY <2>2 DEF Lists
  <2>4. ASSUME NEW i \in 1..Len(w), NEW j \in 1..Len(w), w[i] = w[j] PROVE i = j
    <3>1. pos[i] \in 1..Len(l) /\ pos[j] \in 1..Len(l) /\ l[pos[i]] = l[pos[j]]
      BY <2>1, <2>4
    <3>2. pos[i] = pos[j]
      BY <2>2, <3>1, Once
    <3>3. ~(pos[i] < pos[j]) /\ ~(pos[j] < pos[i])
      BY <1>3, <3>1, <3>2
    <3>4. ~(i < j) /\ ~(j < i)
      BY <2>1, <3>3
    <3> QED BY <1>3, <3>4
  <2>5. ASSUME NEW i \in (0 + 1)..Len(w)
        PROVE  /\ w[i] \in A
               /\ \/ parent[w[i]] = f
                  \/ \E j \in (0 + 1)..(i - 1) : w[j] = parent[w[i]]
    <3>1. i \in 1..Len(w) /\ pos[i] \in 1..Len(l) /\ w[i] = l[pos[i]]
      BY <2>1
    <3>2. w[i] \in A
      BY <2>2, <3>1 DEF Lists
    <3>3. CASE parent[w[i]] # f
      <4>1. PICK k \in 1..(pos[i] - 1) : l[k] = parent[l[pos[i]]]
        <5>1. 0 + 1 = 1
          OBVIOUS
        <5>2. \A x \in 1..Len(l) : parent[l[x]] = f
                 \/ \E y \in 1..(x - 1) : l[y] = parent[l[x]]
          BY <2>2, <5>1 DEF Lists
        <5> QED BY <3>1, <3>3, <5>2
      <4>2. k \in 1..Len(l)
        BY <1>3, <3>1, <4>1
      <4>3. PICK j \in 1..Len(w) : pos[j] = k
        BY <2>1, <2>3, <4>2
      <4>4. ~(pos[i] < pos[j]) /\ pos[i] # pos[j]
        BY <1>3, <3>1, <4>1, <4>3
      <4>5. ~(i < j) /\ i # j
        BY <2>1, <3>1, <4>3, <4>4
      <4>6. j \in 1..(i - 1)
        BY <1>3, <3>1, <4>5
      <4>7. w[j] = parent[w[i]]
        BY <2>1, <3>1, <4>1, <4>3
      <4> QED BY <3>2, <4>6, <4>7
    <3> QED BY <3>2, <3>3
  <2>6. ASSUME NEW b \in A PROVE \E i \in (0 + 1)..Len(w) : w[i] = b
    <3>1. PICK j \in 1..Len(l) : l[j] = b
      BY <2>2 DEF Lists
    <3>2. PICK i \in 1..Len(w) : pos[i] = j
      BY <2>1, <2>3
    <3> QED BY <2>1, <3>1, <3>2
  <2> QED BY <2>4, <2>5, <2>6 DEF Lists
<1>5. \A i \in 1..n : w[i] \in A
  BY <1>4 DEF Lists
<1>6. SeeInitialized(s.final) \in T /\ SeeInitialized(s.final) = Told(f, f, {})
  BY DEF SeeInitialized, Told
<1>7. step \in [(1..n) \X T -> T]
  <2>1. ASSUME NEW v \in T, NEW b \in A PROVE SeeBlock(v, b) \in T
    BY DEF SeeBlock
  <2>2. ASSUME NEW a \in (1..n) \X T PROVE SeeBlock(a[2], w[a[1]]) \in T
    <3>1. a[1] \in 1..n /\ a[2] \in T
      OBVIOUS
    <3> HIDE DEF T, n
    <3> QED BY <1>5, <2>1, <3>1
  <2> HIDE DEF T, n
  <2> QED BY <2>2
<1>8. \E g : R(g)
  <2> DEFINE base == SeeInitialized(s.final)
  <2>1. \E g \in [0..n -> T] : Recursive(g, n, base, step)
    <3> HIDE DEF T, n, step, base
    <3>1. base \in T
      BY <1>6 DEF base
    <3> QED BY <1>3, <1>7, <3>1, Recursion
  <2>2. PICK g \in [0..n -> T] : Recursive(g, n, base, step)
    BY <2>1
  <2>3. ASSUME NEW i \in 0..n
        PROVE  g[i] = IF i = 0 THEN base ELSE SeeBlock(g[i - 1], w[i])
    <3> HIDE DEF T, n, base
    <3>1. CASE i = 0
      <4> HIDE DEF step
      <4> QED BY <2>2, <3>1 DEF Recursive
    <3>2. CASE i # 0
      <4>1. i \in 1..n /\ i - 1 \in 0..n
        BY <1>3, <3>2
      <4>2. <<i, g[i - 1]>> \in (1..n) \X T
        BY <4>1
      <4>3. step[<<i, g[i - 1]>>] = SeeBlock(g[i - 1], w[i])
        BY <4>2
      <4>4. g[i] = step[<<i, g[i - 1]>>]
        <5> HIDE DEF step
        <5> QED BY <2>2, <3>2 DEF Recursive
      <4> QED BY <3>2, <4>3, <4>4
    <3> QED BY <3>1, <3>2
  <2>4. g = [i \in 0..n |-> IF i = 0 THEN base ELSE SeeBlock(g[i - 1], w[i])]
    <3> HIDE DEF T, n, step, base
    <3> QED BY <2>2, <2>3
  <2> HIDE DEF n
  <2> QED BY <2>4
<1> DEFINE seen == CHOOSE g : R(g)
<1>9. R(seen)
  BY <1>8
<1>10. Replay(s, t) = IF s.best = None THEN seen[n] ELSE SeeBest(seen[n], s.best)
  BY DEF Replay, w, l
<1> HIDE DEF seen
<1> DEFINE Q == {i \in 0..n : seen[i] = Told(f, f, {w[j] : j \in 1..i})}
<1>11. 0 \in Q
  <2>1. seen[0] = SeeInitialized(s.final)
    BY <1>3, <1>9
  <2>2. {w[j] : j \in 1..0} = {}
    OBVIOUS
  <2>3. 0 \in 0..n
    BY <1>3
  <2> HIDE DEF n
  <2> QED BY <1>6, <2>1, <2>2, <2>3
<1>12. ASSUME NEW i \in 0..(n - 1), i \in Q PROVE i + 1 \in Q
  <2>1. i + 1 \in 0..n /\ i + 1 # 0 /\ (i + 1) - 1 = i /\ i + 1 \in 1..n /\ i \in Nat
    BY <1>3
  <2>2. seen[i + 1] = SeeBlock(seen[i], w[i + 1])
    BY <1>9, <2>1
  <2>3. seen[i] = Told(f, f, {w[j] : j \in 1..i})
    BY <1>12
  <2>4. w[i + 1] \notin {w[j] : j \in 1..i}
    <3>1. \A j \in 1..i : j \in 1..n /\ j # i + 1
      BY <1>3, <2>1
    <3> QED BY <1>4, <2>1, <3>1, Once
  <2>5. parent[w[i + 1]] \in {w[j] : j \in 1..i} \cup {f}
    BY <1>3, <1>4, <2>1 DEF Lists
  <2>6. {w[j] : j \in 1..i} \cup {w[i + 1]} = {w[j] : j \in 1..(i + 1)}
    <3>1. \A j \in 1..(i + 1) : j \in 1..i \/ j = i + 1
      BY <2>1
    <3>2. \A j \in 1..i : j \in 1..(i + 1)
      BY <2>1
    <3> QED BY <2>1, <3>1, <3>2
  <2>7. SeeBlock(seen[i], w[i + 1]) = Told(f, f, {w[j] : j \in 1..(i + 1)})
    BY <2>3, <2>4, <2>5, <2>6, BlockTold
  <2> QED BY <2>1, <2>2, <2>7
<1>13. seen[n] = Told(f, f, A)
  <2>1. n \in Q
    <3>1. \A i \in 0..n : i \in Q
      <4> HIDE DEF Q, n
      <4> QED BY <1>3, <1>11, <1>12, Induct
    <3> QED BY <1>3, <3>1
  <2>2. {w[j] : j \in 1..n} = A
    BY <1>4 DEF Lists
  <2> QED BY <2>1, <2>2
<1>14. CASE p = f
  BY <1>10, <1>13, <1>14
<1>15. CASE p # f
  <2>1. s.best = p /\ p \in A /\ p # None
    <3>1. p \in A /\ s.best \in {p}
      BY <1>15
    <3>2. p \in Block
      BY <3>1
    <3>3. p \in Nat
      BY ONLY <3>2, StreamAssumption DEF Block
    <3>4. p # None
      BY ONLY <3>3, StreamAssumption
    <3> QED BY <3>1, <3>4
  <2>2. SeeBest(Told(f, f, A), p) = Told(f, p, A)
    BY <2>1, BestTold
  <2> QED BY <1>10, <1>13, <2>1, <2>2
<1> QED BY <1>14, <1>15

-----------------------------------------------------------------------------
\* The inductive invariant.  Joined(c): c has a stream that was not closed.
Stages == {"absent", "waiting", "live", "ended", "left"}
Snapshots == [final : Hash \cup {None}, best : Hash \cup {None}, newBlocks : Seq(Block)]

Typed ==
  /\ ahead \in SUBSET Block /\ unsent \in SUBSET Block
  /\ final \in Hash \cup {None} /\ best \in Hash
  /\ tracker \in [known : Seq(Hash), pending : Seq(Block)]
  /\ tracker.pending = <<>> /\ Len(tracker.known) <= MaxKnown
  /\ snap \in Snapshots
  /\ liveSub \in BOOLEAN
  /\ stream \in [Client -> Stages]
  /\ view \in [Client -> View]
  /\ phase \in {"on", "over"}

\* The blocks the node told of and did not finalize are a tree on top of the final one.
Chain ==
  /\ ahead \cap unsent = {}
  /\ final = None => ahead = {} /\ best = 0 /\ unsent = Block
  /\ final # None =>
       /\ final \notin ahead \cup unsent /\ best \in ahead \cup {final}
       /\ \A b \in ahead : parent[b] \in ahead \cup {final}

\* A tracker with nothing pending whose last known hashes are f and, on top of it, A.
Tracks(t, A, f) ==
  /\ t \in [known : Seq(Hash), pending : Seq(Block)] /\ t.pending = <<>>
  /\ Len(t.known) <= MaxKnown
  /\ \E m \in 1..Len(t.known) : t.known[m] = f /\ Lists(t.known, m, A, f)

\* A snapshot that was initialized shows the final block and lists what is ahead of it,
\* parents first; the tracker has them, and nothing the node did not tell of.
Shows(s, t, f, b, A, u) ==
  /\ f # None /\ s.final = f
  /\ s.best = IF b = f THEN None ELSE b
  /\ Lists(s.newBlocks, 0, A, f)
  /\ Tracks(t, A, f)
  /\ \A i \in 1..Len(t.known) : t.known[i] \notin u
Kept ==
  phase = "on" /\ snap.final # None => Shows(snap, tracker, final, best, ahead, unsent)

\* Without one nobody is told of anything, and only a follow that listened for
\* `initialized` from the start gets one.
Waits ==
  phase = "on" /\ snap.final = None =>
    /\ snap = NoSnapshot /\ tracker.known = <<>>
    /\ \A c \in Client : stream[c] # "live"
    /\ final # None => liveSub = FALSE

Streams ==
  phase = "on" =>
    /\ \E c \in Client : stream[c] \in {"waiting", "live", "ended"}
    /\ liveSub = TRUE => \A c \in Client : stream[c] # "ended"
    /\ snap.final # None => \A c \in Client : stream[c] \notin {"waiting", "ended"}

\* For a manager that no other follow found.
IInv == Alone /\ Tree /\ Typed /\ Chain /\ Kept /\ Waits /\ Streams /\ SameView

LEMMA NothingKnown == Nothing \in View
BY StreamAssumption DEF Nothing, View

LEMMA Flushed ==
  ASSUME NEW t, t.pending = <<>>
  PROVE  FlushPending(t) = <<t, <<>>>>
BY DEF FlushPending

LEMMA ListsNone ==
  ASSUME NEW f
  PROVE  Lists(<<>>, 0, {}, f)
BY DEF Lists

LEMMA ListsAppend ==
  ASSUME NEW T, NEW s \in Seq(T), NEW m \in 0..Len(s), NEW A, NEW f, Lists(s, m, A, f),
         NEW x \in T, \A i \in 1..Len(s) : s[i] # x, parent[x] \in A \cup {f}
  PROVE  Lists(Append(s, x), m, A \cup {x}, f)
<1> DEFINE n == Len(s)
           v == Append(s, x)
<1>1. n \in Nat /\ Len(v) = n + 1 /\ v[n + 1] = x /\ \A i \in 1..n : v[i] = s[i]
  OBVIOUS
<1> HIDE DEF n, v
<1>2. \A i \in 1..(n + 1) : i \in 1..n \/ i = n + 1
  BY <1>1
<1>3. /\ \A i, j \in 1..n : s[i] = s[j] => i = j
      /\ \A i \in (m + 1)..n :
           /\ s[i] \in A
           /\ parent[s[i]] = f \/ \E j \in (m + 1)..(i - 1) : s[j] = parent[s[i]]
      /\ \A b \in A : \E i \in (m + 1)..n : s[i] = b
  BY DEF Lists, n
<1>4. m \in 0..n /\ \A i \in 1..n : s[i] # x
  BY DEF n
<1>5. ASSUME NEW i \in 1..(n + 1), NEW j \in 1..(n + 1), v[i] = v[j] PROVE i = j
  BY <1>1, <1>2, <1>3, <1>4, <1>5
<1>6. ASSUME NEW i \in (m + 1)..(n + 1)
      PROVE  /\ v[i] \in A \cup {x}
             /\ parent[v[i]] = f \/ \E j \in (m + 1)..(i - 1) : v[j] = parent[v[i]]
  <2>1. CASE i = n + 1
    <3>1. v[i] = x /\ i - 1 = n
      BY <1>1, <2>1
    <3>2. CASE parent[x] \in A
      <4>1. PICK j \in (m + 1)..n : s[j] = parent[x]
        BY <1>3, <3>2
      <4>2. j \in 1..n
        BY <1>1, <1>4
      <4> QED BY <1>1, <3>1, <4>1, <4>2
    <3> QED BY <3>1, <3>2
  <2>2. CASE i # n + 1
    <3>1. i \in (m + 1)..n /\ i \in 1..n
      BY <1>1, <1>4, <2>2
    <3>2. \A j \in (m + 1)..(i - 1) : j \in 1..n
      BY <1>1, <1>4, <3>1
    <3> QED BY <1>1, <1>3, <3>1, <3>2
  <2> QED BY <2>1, <2>2
<1>7. ASSUME NEW b \in A \cup {x} PROVE \E i \in (m + 1)..(n + 1) : v[i] = b
  <2>1. n + 1 \in (m + 1)..(n + 1)
    BY <1>1, <1>4
  <2>2. \A i \in (m + 1)..n : i \in 1..n /\ i \in (m + 1)..(n + 1)
    BY <1>1, <1>4
  <2> QED BY <1>1, <1>3, <2>1, <2>2
<1> QED BY <1>1, <1>5, <1>6, <1>7 DEF Lists, v

\* Of what comes before position m the list keeps as much as it likes.
LEMMA ListsFrom ==
  ASSUME NEW T, NEW s \in Seq(T), NEW m \in 0..Len(s), NEW A, NEW f, Lists(s, m, A, f),
         NEW k \in 0..m, NEW v \in Seq(T), Len(v) = Len(s) - k,
         \A i \in 1..Len(v) : v[i] = s[i + k]
  PROVE  Lists(v, m - k, A, f)
<1> DEFINE n == Len(s)
           l == Len(v)
<1>1. n \in Nat /\ l = n - k /\ m \in 0..n /\ l \in Nat /\ \A i \in 1..l : v[i] = s[i + k]
  OBVIOUS
<1> HIDE DEF n, l
<1>2. /\ \A i, j \in 1..n : s[i] = s[j] => i = j
      /\ \A i \in (m + 1)..n :
           /\ s[i] \in A
           /\ parent[s[i]] = f \/ \E j \in (m + 1)..(i - 1) : s[j] = parent[s[i]]
      /\ \A b \in A : \E i \in (m + 1)..n : s[i] = b
  BY DEF Lists, n
<1>3. ASSUME NEW i \in 1..l, NEW j \in 1..l, v[i] = v[j] PROVE i = j
  <2>1. i + k \in 1..n /\ j + k \in 1..n /\ s[i + k] = s[j + k]
    BY <1>1, <1>3
  <2>2. i + k = j + k
    BY <1>2, <2>1
  <2> QED BY <2>2
<1>4. ASSUME NEW j \in (m + 1)..n PROVE j - k \in (m - k + 1)..l /\ j - k \in 1..l /\ v[j - k] = s[j]
  <2>1. j - k \in (m - k + 1)..l /\ j - k \in 1..l /\ (j - k) + k = j
    BY <1>1
  <2> QED BY <1>1, <2>1
<1>5. ASSUME NEW i \in (m - k + 1)..l
      PROVE  /\ v[i] \in A
             /\ parent[v[i]] = f \/ \E j \in (m - k + 1)..(i - 1) : v[j] = parent[v[i]]
  <2>1. i + k \in (m + 1)..n /\ i \in 1..l
    BY <1>1
  <2>2. v[i] = s[i + k]
    BY <1>1, <2>1
  <2>3. CASE parent[v[i]] # f
    <3>1. PICK j \in (m + 1)..((i + k) - 1) : s[j] = parent[s[i + k]]
      BY <1>2, <2>1, <2>2, <2>3
    <3>2. j \in (m + 1)..n
      BY <1>1, <2>1
    <3>3. j - k \in (m - k + 1)..(i - 1)
      BY <1>1, <2>1
    <3> QED BY <1>2, <1>4, <2>1, <2>2, <3>1, <3>2, <3>3
  <2> QED BY <1>2, <2>1, <2>2, <2>3
<1>6. \A b \in A : \E i \in (m - k + 1)..l : v[i] = b
  BY <1>2, <1>4
<1> QED BY <1>3, <1>5, <1>6 DEF Lists, l

\* Tracker u knows no more than t does and X.
Adds(u, t, X) ==
  \A i \in 1..Len(u.known) :
    u.known[i] \in X \/ \E j \in 1..Len(t.known) : u.known[i] = t.known[j]

LEMMA TracksKnows ==
  ASSUME NEW A, NEW f, NEW t, Tracks(t, A, f), NEW b \in A \cup {f}
  PROVE  Knows(t, b) /\ Remember(t, b) = t /\ FlushPending(t) = <<t, <<>>>>
<1>1. PICK m \in 1..Len(t.known) : t.known[m] = f /\ Lists(t.known, m, A, f)
  BY DEF Tracks
<1>2. Len(t.known) \in Nat
  BY DEF Tracks
<1>3. \A i \in (m + 1)..Len(t.known) : i \in 1..Len(t.known)
  BY <1>1, <1>2
<1>4. \E i \in 1..Len(t.known) : t.known[i] = b
  BY <1>1, <1>3 DEF Lists
<1>5. Knows(t, b)
  BY <1>4 DEF Knows, Contains
<1> QED BY <1>5, Flushed DEF Remember, Tracks

\* As long as there is room for what is ahead of finality, remember() forgets neither
\* the final block nor one on top of it.
LEMMA TracksNext ==
  ASSUME NEW A, NEW f, NEW t, Tracks(t, A, f), Cardinality(A) < Window,
         NEW x \in Hash, parent[x] \in A \cup {f}, \A i \in 1..Len(t.known) : t.known[i] # x
  PROVE  /\ Tracks(Remember(t, x), A \cup {x}, f)
         /\ Adds(Remember(t, x), t, {x})
<1> DEFINE s == t.known
           n == Len(s)
           u == IF n = MaxKnown THEN Tail(s) ELSE s
           v == Append(u, x)
<1>1. t \in [known : Seq(Hash), pending : Seq(Block)] /\ s \in Seq(Hash) /\ n \in Nat /\ n <= MaxKnown
  BY DEF Tracks
<1>2. PICK m \in 1..n : s[m] = f /\ Lists(s, m, A, f)
  BY DEF Tracks
<1>3. Cardinality(A) = n - m
  BY <1>1, <1>2, ListsCount
<1>4. Window \in Nat /\ MaxKnown \in Nat /\ Window < MaxKnown
  BY StreamAssumption
<1>5. ~Knows(t, x)
  BY DEF Knows, Contains
<1>6. Remember(t, x) = [t EXCEPT !.known = v]
  BY <1>1, <1>5 DEF Remember
<1>7. \A i \in 1..n : s[i] # x
  OBVIOUS
<1> HIDE DEF s, n
<1> DEFINE k == IF n = MaxKnown THEN 1 ELSE 0
<1>8. k \in 0..(m - 1)
  BY <1>1, <1>3, <1>4
<1>9. u \in Seq(Hash) /\ Len(u) = n - k /\ \A i \in 1..Len(u) : u[i] = s[i + k]
  <2>1. CASE n = MaxKnown
    <3>1. s # <<>> /\ u = Tail(s) /\ k = 1
      BY <1>1, <1>4, <2>1 DEF n
    <3>2. Tail(s) \in Seq(Hash) /\ Len(Tail(s)) = n - 1 /\ \A i \in 1..Len(Tail(s)) : Tail(s)[i] = s[i + 1]
      BY <1>1, <3>1 DEF n
    <3> QED BY <3>1, <3>2
  <2>2. CASE n # MaxKnown
    <3>1. u = s /\ k = 0
      BY <2>2
    <3> QED BY <1>1, <3>1 DEF n
  <2> QED BY <2>1, <2>2
<1> HIDE DEF u, k
<1>10. Lists(u, m - k, A, f)
  <2>1. m \in 0..Len(s) /\ k \in 0..m /\ Len(u) = Len(s) - k
    BY <1>1, <1>8, <1>9 DEF n
  <2> QED BY <1>1, <1>2, <1>9, <2>1, ListsFrom
<1>11. m - k \in 1..Len(u) /\ u[m - k] = f
  <2>1. m - k \in 1..Len(u) /\ (m - k) + k = m
    BY <1>1, <1>8, <1>9
  <2> QED BY <1>2, <1>9, <2>1
<1>12. \A i \in 1..Len(u) : i + k \in 1..n /\ u[i] # x
  <2>1. \A i \in 1..Len(u) : i + k \in 1..n
    BY <1>1, <1>8, <1>9
  <2> QED BY <1>7, <1>9, <2>1
<1>13. Lists(v, m - k, A \cup {x}, f)
  <2>1. m - k \in 0..Len(u)
    BY <1>11
  <2> QED BY <1>9, <1>10, <1>12, <2>1, ListsAppend
<1>14. v \in Seq(Hash) /\ Len(v) = Len(u) + 1 /\ v[Len(u) + 1] = x /\ \A i \in 1..Len(u) : v[i] = u[i]
  BY <1>9
<1>15. Len(v) <= MaxKnown
  BY <1>1, <1>4, <1>9, <1>14 DEF k
<1>16. m - k \in 1..Len(v) /\ v[m - k] = f
  BY <1>9, <1>11, <1>14
<1>17. \A i \in 1..Len(v) : v[i] = x \/ \E j \in 1..n : v[i] = s[j]
  <2>1. \A i \in 1..Len(v) : i \in 1..Len(u) \/ i = Len(u) + 1
    BY <1>9, <1>14
  <2> QED BY <1>9, <1>12, <1>14, <2>1
<1> HIDE DEF v
<1>18. /\ Remember(t, x) \in [known : Seq(Hash), pending : Seq(Block)]
       /\ Remember(t, x).pending = <<>> /\ Remember(t, x).known = v
  BY <1>1, <1>6, <1>14 DEF Tracks
<1>19. Tracks(Remember(t, x), A \cup {x}, f)
  BY <1>13, <1>15, <1>16, <1>18 DEF Tracks
<1>20. Adds(Remember(t, x), t, {x})
  BY <1>17, <1>18 DEF Adds, s, n
<1> QED BY <1>19, <1>20

LEMMA TracksFinalized ==
  ASSUME Tree, ahead \in SUBSET Block, NEW f, f \notin ahead, NEW t, Tracks(t, ahead, f),
         NEW h \in ahead
  PROVE  /\ Tracks(Forget(t, Pruned(h)), ahead \ Gone(h), h)
         /\ Adds(Forget(t, Pruned(h)), t, {})
<1> DEFINE s == t.known
           K == Hash \ Pruned(h)
           P == {b \in Block : {b, parent[b]} \cap Pruned(h) = {}}
           w == Within(s, K)
           p == Within(t.pending, P)
<1>1. t \in [known : Seq(Hash), pending : Seq(Block)] /\ s \in Seq(Hash) /\ Len(s) <= MaxKnown
      /\ t.pending = <<>> /\ t.pending \in Seq(Block)
  BY DEF Tracks
<1>2. PICK m \in 1..Len(s) : Lists(s, m, ahead, f)
  BY DEF Tracks
<1>3. \A b \in ahead : b \in K <=> b \notin Pruned(h)
  BY DEF Block, Hash
<1>4. Forget(t, Pruned(h)) = [known |-> w, pending |-> p]
  BY DEF Forget
<1> HIDE DEF s, K, P
<1>5. \E a \in 1..Len(w) : w[a] = h /\ Lists(w, a, ahead \ Gone(h), h)
  <2>1. m \in 0..Len(s)
    BY <1>1
  <2>2. f \notin ahead /\ ahead \subseteq Block
    OBVIOUS
  <2> QED BY <1>1, <1>2, <1>3, <2>1, <2>2, FinalizedLists
<1>6. w \in Seq(Hash) /\ \E pos : Selects(w, s, Len(s), K, pos)
  BY <1>1, WithinSelects
<1>7. p \in Seq(Block) /\ \E pos : Selects(p, t.pending, Len(t.pending), P, pos)
  BY <1>1, WithinSelects
<1> HIDE DEF w, p
<1>8. p = <<>>
  <2>1. Len(p) <= Len(t.pending)
    BY <1>7 DEF Selects
  <2>2. Len(t.pending) = 0
    BY <1>1
  <2> QED BY <1>7, <2>1, <2>2
<1>9. PICK pos : Selects(w, s, Len(s), K, pos)
  BY <1>6
<1>10. Len(w) <= MaxKnown
  BY <1>1, <1>6, <1>9, StreamAssumption DEF Selects
<1>11. \A i \in 1..Len(w) : \E j \in 1..Len(s) : w[i] = s[j]
  BY <1>9 DEF Selects
<1>12. Tracks([known |-> w, pending |-> p], ahead \ Gone(h), h)
  BY <1>5, <1>6, <1>7, <1>8, <1>10 DEF Tracks
<1>13. Adds([known |-> w, pending |-> p], t, {})
  BY <1>11 DEF Adds, s
<1> QED BY <1>4, <1>12, <1>13

LEMMA TrimmedLists ==
  ASSUME Tree, ahead \in SUBSET Block, NEW f, f \notin ahead, NEW l \in Seq(Block),
         Lists(l, 0, ahead, f), NEW h \in ahead
  PROVE  /\ Trimmed(l, h, Pruned(h)) \in Seq(Block)
         /\ Lists(Trimmed(l, h, Pruned(h)), 0, ahead \ Gone(h), h)
<1> DEFINE K == {b \in Block : {b, parent[b]} \cap Pruned(h) = {}}
           w == Within(l, K)
           n == Len(w)
           at == {i \in 1..n : w[i] = h}
           k == CHOOSE i \in at : \A j \in at : i <= j
           v == SubSeq(w, k + 1, n)
<1>1. \A b \in ahead : b \in K <=> b \notin Pruned(h)
  <2>1. \A b \in ahead : parent[b] \in Pruned(h) => b \in Pruned(h)
    BY PrunedFacts
  <2> QED BY <2>1
<1>2. Trimmed(l, h, Pruned(h)) = IF at = {} THEN w ELSE v
  BY DEF Trimmed
<1>3. l \in Seq(Hash) /\ 0 \in 0..Len(l)
  <2>1. Block \subseteq Hash
    BY StreamAssumption DEF Block, Hash
  <2> QED BY <2>1
<1>4. w \in Seq(Block)
  BY WithinSelects
<1> HIDE DEF K
<1>5. PICK a \in 1..n : w[a] = h /\ Lists(w, a, ahead \ Gone(h), h)
  BY <1>1, <1>3, FinalizedLists
<1> HIDE DEF w
<1>6. n \in Nat
  BY <1>4
<1>7. \A i \in 1..n : w[i] = h => i = a
  BY <1>5, Once
<1>8. at = {a}
  BY <1>5, <1>7
<1>9. k = a
  <2>1. \A j \in at : a <= j
    BY <1>6, <1>8
  <2> QED BY <1>8, <2>1
<1> HIDE DEF at, k
<1>10. /\ v \in Seq(Block) /\ Len(v) = n - a
       /\ \A i \in 1..Len(v) : v[i] = w[i + a]
  <2>1. v = SubSeq(w, a + 1, n)
    BY <1>9
  <2> HIDE DEF v
  <2>2. \A i \in (a + 1)..n : w[i] \in Block
    <3>1. \A i \in (a + 1)..n : i \in 1..n
      BY <1>6
    <3> QED BY <1>4, <3>1
  <2>3. /\ SubSeq(w, a + 1, n) \in Seq(Block)
        /\ Len(SubSeq(w, a + 1, n)) = IF a + 1 <= n THEN n - (a + 1) + 1 ELSE 0
        /\ \A i \in 1..(n - (a + 1) + 1) : SubSeq(w, a + 1, n)[i] = w[(a + 1) + i - 1]
    <3>1. a + 1 \in Int /\ n \in Int
      BY <1>6
    <3> HIDE DEF n
    <3> QED BY <2>2, <3>1, SubSeqProperties
  <2>4. Len(v) = n - a
    BY <1>6, <2>1, <2>3
  <2>5. ASSUME NEW i \in 1..Len(v) PROVE v[i] = w[i + a]
    <3>1. i \in 1..(n - (a + 1) + 1) /\ (a + 1) + i - 1 = i + a
      BY <1>6, <2>4
    <3> QED BY <2>1, <2>3, <3>1
  <2> QED BY <2>1, <2>3, <2>4, <2>5
<1> HIDE DEF v
<1>11. Lists(v, a - a, ahead \ Gone(h), h)
  <2>1. a \in 0..Len(w) /\ a \in 0..a
    BY <1>6
  <2> QED BY <1>4, <1>5, <1>10, <2>1, ListsFrom
<1>12. a - a = 0
  BY <1>6
<1> QED BY <1>2, <1>8, <1>10, <1>11, <1>12

-----------------------------------------------------------------------------
LEMMA ShowsNext ==
  ASSUME parent' = parent, Shows(snap', tracker', final', best', ahead', unsent')
  PROVE  Kept'
BY DEF Kept, Shows, Tracks, Lists

LEMMA ToldView ==
  ASSUME NEW f \in Hash, NEW b \in Hash, NEW A \in SUBSET Block
  PROVE  Told(f, b, A) \in View
BY DEF Told, View

\* Whoever is sent events is sent them all: while the manager listens, the snapshot was
\* initialized as soon as the node's follow was.
LEMMA Informed ==
  ASSUME IInv, phase = "on"
  PROVE  /\ snap.final # None =>
              /\ Listening
              /\ Shows(snap, tracker, final, best, ahead, unsent)
         /\ Listening /\ final # None => snap.final # None
<1>1. snap.final # None => Listening
  BY DEF IInv, Streams, Listening
<1>2. Listening /\ final # None => snap.final # None
  BY DEF IInv, Waits, Listening
<1> QED BY <1>1, <1>2 DEF IInv, Kept

LEMMA InitialInv ==
  ASSUME Init, Alone
  PROVE  IInv
<1> Starting \in Other
  BY StreamAssumption DEF Starting, Other
<1>0. phase = "on" /\ other = None /\ liveSub = TRUE
      /\ stream \in [Client -> {"absent", "waiting"}]
      /\ \E c \in Client : stream[c] = "waiting"
  BY NobodyAssumption DEF Init, Alone
<1>1. Tree
  BY DEF Init, Tree
<1>2. Typed
  <2>1. None \in Hash \cup {None} /\ 0 \in Hash /\ 0 <= MaxKnown
    BY StreamAssumption DEF Hash
  <2>2. snap \in Snapshots /\ tracker \in [known : Seq(Hash), pending : Seq(Block)]
    BY DEF Init, NoSnapshot, Snapshots
  <2>3. tracker.pending = <<>> /\ Len(tracker.known) <= MaxKnown
    BY <2>1 DEF Init
  <2>4. stream \in [Client -> Stages]
    BY <1>0 DEF Stages
  <2>5. view \in [Client -> View]
    BY NothingKnown DEF Init
  <2> QED BY <1>0, <2>1, <2>2, <2>3, <2>4, <2>5 DEF Init, Typed
<1>3. Chain
  BY DEF Init, Chain
<1>4. snap = NoSnapshot /\ snap.final = None
  BY DEF Init, NoSnapshot
<1>5. \A c \in Client : stream[c] \in {"absent", "waiting"}
  BY <1>0
<1>6. Kept /\ SameView /\ Waits
  BY <1>4, <1>5 DEF Init, Kept, SameView, Waits
<1>7. Streams
  BY <1>0, <1>4, <1>5 DEF Streams
<1> QED BY <1>1, <1>2, <1>3, <1>6, <1>7 DEF IInv

LEMMA InitializedKeeps ==
  ASSUME IInv, Initialized
  PROVE  IInv'
<1> USE DEF IInv
<1>1. /\ phase = "on" /\ final = None /\ final' = 0
      /\ UNCHANGED <<parent, ahead, best, unsent, liveSub, phase, other>>
  BY DEF Initialized
<1>0. Alone /\ Alone'
  BY <1>1 DEF Alone
<1>2. snap = NoSnapshot /\ snap.final = None /\ tracker.known = <<>> /\ tracker.pending = <<>>
      /\ (\A c \in Client : stream[c] # "live")
      /\ ahead = {} /\ best = 0 /\ unsent = Block
  BY <1>1 DEF Kept, Shows, Waits, NoSnapshot, Chain, Typed
<1>3. Tree'
  BY <1>1 DEF Tree
<1>4. 0 \in Hash /\ 0 \notin Block /\ 0 # None /\ MaxKnown \in Nat /\ MaxKnown # 0
  BY StreamAssumption DEF Hash, Block
<1>5. Chain'
  BY <1>1, <1>2, <1>4 DEF Chain
<1>6. CASE ~Listening
  <2>1. UNCHANGED <<tracker, snap, stream, view>>
    BY <1>6 DEF Initialized
  <2>2. liveSub = FALSE
    BY <1>1, <1>6 DEF Listening, Typed
  <2>3. Typed'
    BY <1>1, <1>4, <2>1 DEF Typed
  <2>4. Kept' /\ SameView'
    BY <1>0, <1>1, <1>2, <2>1 DEF Kept, SameView
  <2>5. Waits' /\ Streams'
    BY <1>1, <1>2, <2>1, <2>2 DEF Waits, Streams
  <2> QED BY <1>0, <1>3, <1>5, <2>3, <2>4, <2>5
<1>7. CASE Listening
  <2> DEFINE t == Remember(tracker, 0)
             s == [snap EXCEPT !.final = 0]
  <2>1. /\ stream' = [c \in Client |-> IF stream[c] = "waiting" THEN "live" ELSE stream[c]]
        /\ view' = [c \in Client |-> IF stream[c] = "waiting" THEN Replay(s, t) ELSE view[c]]
        /\ tracker' = FlushPending(t)[1]
        /\ snap' = [s EXCEPT !.newBlocks = @ \o FlushPending(t)[2]]
    BY <1>7 DEF Initialized, KeepInitialized, Replayed
  <2>2. t = [known |-> <<0>>, pending |-> <<>>]
    <3>1. ~Knows(tracker, 0)
      BY <1>2 DEF Knows, Contains
    <3>2. t = [tracker EXCEPT !.known = Append(tracker.known, 0)]
      BY <1>2, <1>4, <3>1 DEF Remember, Typed
    <3> QED BY <1>2, <3>2 DEF Typed
  <2>3. s = [final |-> 0, best |-> None, newBlocks |-> <<>>]
    BY <1>2 DEF NoSnapshot
  <2> HIDE DEF t, s
  <2>4. FlushPending(t) = <<t, <<>>>>
    BY <2>2, Flushed
  <2>5. tracker' = t
    BY <2>1, <2>4
  <2>6. snap' = s
    <3>1. FlushPending(t)[2] = <<>>
      BY <2>4
    <3>2. s.newBlocks \o <<>> = <<>>
      BY <2>3
    <3> QED BY <2>1, <2>3, <3>1, <3>2
  <2>7. Tracks(t, {}, 0) /\ \A i \in 1..Len(t.known) : t.known[i] = 0
    <3>1. t.known = <<0>> /\ t.pending = <<>> /\ Len(t.known) = 1 /\ t.known[1] = 0
      BY <2>2
    <3>2. t \in [known : Seq(Hash), pending : Seq(Block)]
      BY <1>4, <2>2
    <3>3. 1 \in 1..1 /\ \A i \in 1..1 : i = 1
      OBVIOUS
    <3>4. Lists(t.known, 1, {}, 0)
      BY <3>1, <3>3 DEF Lists
    <3> QED BY <1>4, <3>1, <3>2, <3>3, <3>4 DEF Tracks
  <2>8. Shows(s, t, 0, 0, {}, Block)
    BY <1>4, <2>3, <2>7, ListsNone DEF Shows
  <2>9. Kept'
    BY <1>1, <1>2, <2>5, <2>6, <2>8, ShowsNext
  <2>10. Replay(s, t) = Told(0, 0, {})
    <3>1. s \in [final : {0}, best : {None}, newBlocks : Seq(Block)] /\ s.newBlocks = <<>>
      BY <2>3
    <3>2. Lists(s.newBlocks, 0, {}, 0)
      BY <3>1, ListsNone
    <3>3. 0 \in Hash \ {} /\ {} \in SUBSET Block /\ 0 \in {} \cup {0}
      BY <1>4
    <3>4. s \in [final : {0}, best : {IF 0 = 0 THEN None ELSE 0}, newBlocks : Seq(Block)]
      BY <3>1
    <3> QED BY <3>2, <3>3, <3>4, ReplayTells
  <2>11. SameView'
    BY <1>1, <1>2, <2>1, <2>10 DEF SameView, Told
  <2>12. Typed'
    <3>1. Told(0, 0, {}) \in View
      BY <1>4, ToldView
    <3>2. view' \in [Client -> View]
      BY <2>1, <2>10, <3>1 DEF Typed
    <3>3. stream' \in [Client -> Stages]
      BY <2>1 DEF Typed, Stages
    <3>4. snap' \in Snapshots
      BY <1>4, <2>3, <2>6 DEF Snapshots
    <3>5. tracker' \in [known : Seq(Hash), pending : Seq(Block)] /\ tracker'.pending = <<>>
          /\ Len(tracker'.known) <= MaxKnown
      BY <2>5, <2>7 DEF Tracks
    <3> QED BY <1>1, <1>4, <3>2, <3>3, <3>4, <3>5 DEF Typed
  <2>13. Waits'
    BY <1>4, <2>3, <2>6 DEF Waits
  <2>14. liveSub
    BY <1>2, <1>7 DEF Listening
  <2>15. \A c \in Client : stream[c] # "ended"
    BY <1>1, <2>14 DEF Streams, Typed
  <2>16. Streams'
    BY <1>1, <2>1, <2>15 DEF Streams
  <2> QED BY <1>0, <1>3, <1>5, <2>9, <2>11, <2>12, <2>13, <2>16
<1> QED BY <1>6, <1>7

\* When nobody listens, what the node does reaches neither the manager nor a client.
LEMMA Unheard ==
  ASSUME IInv, phase = "on", final # None, ~Listening,
         UNCHANGED <<parent, tracker, snap, liveSub, stream, view, phase, other>>,
         final' # None
  PROVE  Alone' /\ Tree' /\ Kept' /\ Waits' /\ Streams' /\ SameView'
<1>1. snap.final = None
  BY Informed
<1>2. \A c \in Client : stream[c] # "live"
  BY <1>1 DEF IInv, Waits
<1>3. Waits'
  BY <1>1 DEF IInv, Waits
<1>4. Streams'
  BY DEF IInv, Streams
<1>5. Tree' /\ Kept' /\ SameView'
  BY <1>1, <1>2 DEF IInv, Tree, Kept, SameView
<1> QED BY <1>3, <1>4, <1>5 DEF IInv, Alone

\* What is left to show of a step that everybody hears of.
LEMMA Heard ==
  ASSUME IInv, phase = "on", UNCHANGED <<parent, liveSub, stream, phase, other>>,
         Chain', final' \in Hash, best' \in Hash, ahead' \in SUBSET Block,
         unsent' \in SUBSET Block,
         snap.final # None, snap' \in Snapshots,
         Shows(snap', tracker', final', best', ahead', unsent'),
         view' = [c \in Client |-> IF stream[c] = "live" THEN Told(final', best', ahead')
                                   ELSE view[c]]
  PROVE  IInv'
<1>1. Tree'
  BY DEF IInv, Tree
<1>2. Kept'
  BY ShowsNext
<1>3. snap'.final # None
  BY DEF Shows
<1>4. Waits' /\ Streams'
  BY <1>3 DEF IInv, Waits, Streams
<1>5. SameView'
  BY DEF SameView, Told
<1>6. Told(final', best', ahead') \in View
  BY ToldView
<1>7. view' \in [Client -> View]
  BY <1>6 DEF IInv, Typed
<1>8. tracker' \in [known : Seq(Hash), pending : Seq(Block)] /\ tracker'.pending = <<>>
      /\ Len(tracker'.known) <= MaxKnown
  BY DEF Shows, Tracks
<1>9. Typed'
  BY <1>7, <1>8 DEF IInv, Typed
<1> QED BY <1>1, <1>2, <1>4, <1>5, <1>9 DEF IInv, Alone

LEMMA NewBlockKeeps ==
  ASSUME IInv, NEW b \in Block, NewBlock(b)
  PROVE  IInv'
<1>1. /\ phase = "on" /\ final # None /\ b \in unsent /\ Cardinality(ahead) < Window
      /\ parent[b] \in ahead \cup {final}
      /\ unsent' = unsent \ {b} /\ ahead' = ahead \cup {b}
      /\ UNCHANGED <<parent, final, best, liveSub, stream, phase, other>>
  BY DEF NewBlock
<1>2. Chain'
  BY <1>1 DEF IInv, Chain
<1>3. /\ ahead \in SUBSET Block /\ unsent' \in SUBSET Block /\ ahead' \in SUBSET Block
      /\ final \in Hash /\ best \in Hash /\ b \notin ahead /\ b \in Hash
  BY <1>1, StreamAssumption DEF IInv, Typed, Chain, Block, Hash
<1>4. CASE ~Listening
  <2>1. UNCHANGED <<tracker, snap, view>>
    BY <1>4 DEF NewBlock
  <2>2. Alone' /\ Tree' /\ Kept' /\ Waits' /\ Streams' /\ SameView'
    BY <1>1, <1>4, <2>1, Unheard
  <2>3. Typed'
    BY <1>1, <1>3, <2>1 DEF IInv, Typed
  <2> QED BY <1>2, <2>2, <2>3 DEF IInv
<1>5. CASE Listening
  <2> DEFINE t == Remember(tracker, b)
  <2>1. snap.final # None /\ Shows(snap, tracker, final, best, ahead, unsent)
    BY <1>1, <1>5, Informed
  <2>2. Tracks(tracker, ahead, final) /\ Lists(snap.newBlocks, 0, ahead, final)
        /\ \A i \in 1..Len(tracker.known) : tracker.known[i] \notin unsent
    BY <2>1 DEF Shows
  <2>3. Knows(tracker, parent[b])
    BY <1>1, <2>2, TracksKnows
  <2>4. \A i \in 1..Len(tracker.known) : tracker.known[i] # b
    BY <1>1, <2>2
  <2>5. /\ Tracks(t, ahead \cup {b}, final)
        /\ Adds(t, tracker, {b})
    <3>1. Tracks(tracker, ahead, final)
      BY <2>2
    <3>2. Cardinality(ahead) < Window /\ b \in Hash /\ parent[b] \in ahead \cup {final}
      BY <1>1, <1>3
    <3>3. /\ Tracks(Remember(tracker, b), ahead \cup {b}, final)
          /\ Adds(Remember(tracker, b), tracker, {b})
      BY ONLY <2>4, <3>1, <3>2, TracksNext
    <3> HIDE DEF t
    <3> QED BY <3>3 DEF t
  <2> HIDE DEF t
  <2>6. FlushPending(t) = <<t, <<>>>>
    BY <2>5, Flushed DEF Tracks
  <2>7. /\ tracker' = FlushPending(t)[1]
        /\ snap' = [snap EXCEPT !.newBlocks = (@ \o FlushPending(t)[2]) \o <<b>>]
        /\ view' = [c \in Client |-> IF stream[c] = "live" THEN SeeBlock(view[c], b) ELSE view[c]]
    BY <1>5, <2>3 DEF NewBlock, KeepBlock, Deliver, t
  <2>8. tracker' = t
    BY <2>6, <2>7
  <2>9. snap.newBlocks \in Seq(Block) /\ snap \in Snapshots
    BY DEF IInv, Typed, Snapshots
  <2>10. snap' = [snap EXCEPT !.newBlocks = Append(snap.newBlocks, b)]
    <3>1. FlushPending(t)[2] = <<>>
      BY <2>6
    <3>2. (snap.newBlocks \o <<>>) \o <<b>> = Append(snap.newBlocks, b)
      BY <2>9
    <3> QED BY <2>7, <3>1, <3>2
  <2>11. /\ snap' \in Snapshots /\ snap'.newBlocks = Append(snap.newBlocks, b)
         /\ snap'.final = snap.final /\ snap'.best = snap.best
    <3>1. Append(snap.newBlocks, b) \in Seq(Block)
      BY <2>9
    <3> HIDE DEF t
    <3> QED BY <2>9, <2>10, <3>1 DEF Snapshots
  <2>12. Lists(Append(snap.newBlocks, b), 0, ahead \cup {b}, final)
    <3>1. \A i \in 1..Len(snap.newBlocks) : snap.newBlocks[i] # b
      BY <1>3, <2>2 DEF Lists
    <3>2. 0 \in 0..Len(snap.newBlocks)
      BY <2>9
    <3> QED BY <1>1, <2>2, <2>9, <3>1, <3>2, ListsAppend
  <2>13. Shows(snap', tracker', final', best', ahead', unsent')
    <3>1. \A i \in 1..Len(t.known) : t.known[i] \notin unsent \ {b}
      BY <2>2, <2>5 DEF Adds
    <3> QED BY <1>1, <2>1, <2>5, <2>8, <2>11, <2>12, <3>1 DEF Shows
  <2>14. \A c \in Client : stream[c] = "live" => SeeBlock(view[c], b) = Told(final', best', ahead')
    <3>1. SeeBlock(Told(final, best, ahead), b) = Told(final, best, ahead \cup {b})
      BY <1>1, <1>3, BlockTold
    <3>2. \A c \in Client : stream[c] = "live" => view[c] = Told(final, best, ahead)
      BY <1>1 DEF IInv, SameView, Told
    <3> QED BY <1>1, <3>1, <3>2
  <2>15. view' = [c \in Client |-> IF stream[c] = "live" THEN Told(final', best', ahead')
                                   ELSE view[c]]
    BY <2>7, <2>14
  <2> QED BY <1>1, <1>2, <1>3, <2>1, <2>11, <2>13, <2>15, Heard
<1> QED BY <1>4, <1>5

LEMMA BestBlockChangedKeeps ==
  ASSUME IInv, NEW b \in Block, BestBlockChanged(b)
  PROVE  IInv'
<1>1. /\ phase = "on" /\ b \in ahead /\ best' = b
      /\ UNCHANGED <<parent, ahead, final, unsent, liveSub, stream, phase, other>>
  BY DEF BestBlockChanged
<1>2. final # None /\ final \notin ahead
  BY <1>1 DEF IInv, Chain
<1>3. Chain'
  BY <1>1, <1>2 DEF IInv, Chain
<1>4. /\ ahead' \in SUBSET Block /\ unsent' \in SUBSET Block /\ final \in Hash /\ b \in Hash
  BY <1>1, <1>2, StreamAssumption DEF IInv, Typed, Block, Hash
<1>5. CASE ~Listening
  <2>1. UNCHANGED <<tracker, snap, view>>
    BY <1>5 DEF BestBlockChanged
  <2>2. Alone' /\ Tree' /\ Kept' /\ Waits' /\ Streams' /\ SameView'
    BY <1>1, <1>2, <1>5, <2>1, Unheard
  <2>3. Typed'
    BY <1>1, <1>4, <2>1 DEF IInv, Typed
  <2> QED BY <1>3, <2>2, <2>3 DEF IInv
<1>6. CASE Listening
  <2>1. snap.final # None /\ Shows(snap, tracker, final, best, ahead, unsent)
    BY <1>1, <1>2, <1>6, Informed
  <2>2. Tracks(tracker, ahead, final) /\ Remember(tracker, b) = tracker
    BY <1>1, <2>1, TracksKnows DEF Shows
  <2>3. /\ tracker' = tracker
        /\ snap' = [snap EXCEPT !.best = b]
        /\ view' = [c \in Client |-> IF stream[c] = "live" THEN SeeBest(view[c], b) ELSE view[c]]
    BY <1>6, <2>2 DEF BestBlockChanged, KeepBest, Deliver
  <2>4. /\ snap' \in Snapshots /\ snap'.newBlocks = snap.newBlocks
        /\ snap'.final = snap.final /\ snap'.best = b
    BY <1>4, <2>3 DEF IInv, Typed, Snapshots
  <2>5. Shows(snap', tracker', final', best', ahead', unsent')
    BY <1>1, <1>2, <2>1, <2>3, <2>4 DEF Shows
  <2>6. \A c \in Client : stream[c] = "live" => SeeBest(view[c], b) = Told(final', best', ahead')
    <3>1. SeeBest(Told(final, best, ahead), b) = Told(final, b, ahead)
      BY <1>1, BestTold
    <3>2. \A c \in Client : stream[c] = "live" => view[c] = Told(final, best, ahead)
      BY <1>1 DEF IInv, SameView, Told
    <3> QED BY <1>1, <3>1, <3>2
  <2>7. view' = [c \in Client |-> IF stream[c] = "live" THEN Told(final', best', ahead')
                                  ELSE view[c]]
    BY <2>3, <2>6
  <2> QED BY <1>1, <1>3, <1>4, <2>1, <2>4, <2>5, <2>7, Heard
<1> QED BY <1>5, <1>6

LEMMA FinalizedKeeps ==
  ASSUME IInv, NEW h \in Block, Finalized(h)
  PROVE  IInv'
<1>1. /\ phase = "on" /\ h \in ahead /\ h \in Ancestors(best)
      /\ final' = h /\ ahead' = ahead \ Gone(h)
      /\ UNCHANGED <<parent, best, unsent, liveSub, stream, phase, other>>
  BY DEF Finalized, Gone
<1>2. Tree /\ ahead \in SUBSET Block /\ best \in Hash /\ unsent \in SUBSET Block /\ final # None
  BY <1>1 DEF IInv, Typed, Chain
<1>3. final \notin ahead /\ ahead \subseteq Block /\ final # h /\ ahead \cap unsent = {}
  BY <1>1, <1>2 DEF IInv, Chain
<1>4. best \in ahead /\ best # final /\ best \notin Pruned(h) /\ (best \in Gone(h) => best = h)
  <2>1. best \in ahead
    BY <1>1, <1>2, <1>3, AncestorsFacts
  <2> QED BY <1>1, <1>3, <2>1 DEF Gone, Pruned
<1>5. Chain'
  <2>1. h # None
    BY StreamAssumption DEF Block
  <2>2. h \in Gone(h)
    BY DEF Gone
  <2>3. \A b \in ahead \ Gone(h) : parent[b] \in (ahead \ Gone(h)) \cup {h}
    BY <1>1, <1>2, <1>3, PrunedFacts
  <2>4. (ahead \ Gone(h)) \cap unsent = {} /\ h \notin unsent
    BY <1>1, <1>3
  <2>5. best \in (ahead \ Gone(h)) \cup {h}
    BY <1>4
  <2> QED BY <1>1, <2>1, <2>2, <2>3, <2>4, <2>5 DEF Chain
<1>6. ahead' \in SUBSET Block /\ h \in Hash
  <2>1. h \in Hash
    BY StreamAssumption DEF Block, Hash
  <2> QED BY <1>1, <1>2, <2>1
<1>7. CASE ~Listening
  <2>1. UNCHANGED <<tracker, snap, view>>
    BY <1>7 DEF Finalized
  <2>2. final' # None
    BY <1>1, StreamAssumption DEF Block
  <2>3. Alone' /\ Tree' /\ Kept' /\ Waits' /\ Streams' /\ SameView'
    BY <1>1, <1>2, <1>7, <2>1, <2>2, Unheard
  <2>4. Typed'
    BY <1>1, <1>2, <1>6, <2>1 DEF IInv, Typed
  <2> QED BY <1>5, <2>3, <2>4 DEF IInv
<1>8. CASE Listening
  <2> DEFINE t == Forget(tracker, Pruned(h))
             l == Trimmed(snap.newBlocks, h, Pruned(h))
  <2>1. snap.final # None /\ Shows(snap, tracker, final, best, ahead, unsent)
    BY <1>1, <1>2, <1>8, Informed
  <2>2. snap \in Snapshots /\ snap.newBlocks \in Seq(Block)
    BY DEF IInv, Typed, Snapshots
  <2>3. /\ Tracks(t, ahead \ Gone(h), h)
        /\ Adds(t, tracker, {})
    <3>1. Tracks(tracker, ahead, final)
      BY <2>1 DEF Shows
    <3> HIDE DEF t
    <3>2. /\ Tracks(Forget(tracker, Pruned(h)), ahead \ Gone(h), h)
          /\ Adds(Forget(tracker, Pruned(h)), tracker, {})
      <4>1. Tree
        BY <1>2
      <4>2. ahead \in SUBSET Block
        BY <1>2
      <4>3. final \notin ahead /\ h \in ahead
        BY <1>1, <1>3
      <4> QED BY ONLY <4>1, <4>2, <4>3, <3>1, TracksFinalized
    <3> QED BY <3>2 DEF t
  <2>4. l \in Seq(Block) /\ Lists(l, 0, ahead \ Gone(h), h)
    BY <1>1, <1>2, <1>3, <2>1, <2>2, TrimmedLists DEF Shows
  <2>5. /\ tracker' = FlushPending(Remember(t, h))[1]
        /\ snap' = [final |-> IF snap.final = None THEN None ELSE h,
                    best |-> IF snap.best \in Pruned(h) \cup {h} THEN None ELSE snap.best,
                    newBlocks |-> l \o FlushPending(Remember(t, h))[2]]
        /\ view' = [c \in Client |-> IF stream[c] = "live" THEN SeeFinalized(view[c], h, Gone(h))
                                     ELSE view[c]]
    BY <1>8 DEF Finalized, KeepFinalized, Deliver, Gone, Pruned
  <2> HIDE DEF t, l
  <2>6. Remember(t, h) = t /\ FlushPending(t) = <<t, <<>>>>
    BY <2>3, TracksKnows
  <2>7. tracker' = t
    BY <2>5, <2>6
  <2>8. snap.best = best
    BY <1>4, <2>1 DEF Shows
  <2>9. snap' = [final |-> h, best |-> IF best = h THEN None ELSE best, newBlocks |-> l]
    <3>1. FlushPending(t)[2] = <<>> /\ l \o <<>> = l
      BY <2>4, <2>6
    <3>2. best \in Pruned(h) \cup {h} <=> best = h
      BY <1>4
    <3> QED BY <2>1, <2>5, <2>6, <2>8, <3>1, <3>2
  <2>10. snap' \in Snapshots
    BY <1>2, <1>6, <2>4, <2>9 DEF Snapshots
  <2>11. Shows(snap', tracker', final', best', ahead', unsent')
    <3>1. h # None
      BY StreamAssumption DEF Block
    <3>2. \A i \in 1..Len(t.known) : t.known[i] \notin unsent
      BY <2>1, <2>3 DEF Shows, Adds
    <3>3. snap'.final = h /\ snap'.best = (IF best = h THEN None ELSE best) /\ snap'.newBlocks = l
      BY <2>9
    <3> QED BY <1>1, <2>3, <2>4, <2>7, <3>1, <3>2, <3>3 DEF Shows
  <2>12. \A c \in Client : stream[c] = "live" =>
           SeeFinalized(view[c], h, Gone(h)) = Told(final', best', ahead')
    <3>1. SeeFinalized(Told(final, best, ahead), h, Gone(h)) = Told(h, best, ahead \ Gone(h))
      <4>1. Gone(h) \subseteq ahead
        BY <1>1 DEF Gone
      <4> QED BY <1>4, <4>1, FinalizedTold
    <3>2. \A c \in Client : stream[c] = "live" => view[c] = Told(final, best, ahead)
      BY <1>1 DEF IInv, SameView, Told
    <3> QED BY <1>1, <3>1, <3>2
  <2>13. view' = [c \in Client |-> IF stream[c] = "live" THEN Told(final', best', ahead')
                                   ELSE view[c]]
    BY <2>5, <2>12
  <2>14. final' \in Hash /\ best' \in Hash /\ unsent' \in SUBSET Block
    BY <1>1, <1>2, <1>6
  <2> QED BY <1>1, <1>5, <1>6, <2>1, <2>10, <2>11, <2>13, <2>14, Heard
<1> QED BY <1>7, <1>8

\* What clients do leaves the blocks, the tracker and the snapshot alone.
LEMMA NodeStays ==
  ASSUME IInv, UNCHANGED <<node, tracker, snap>>, phase' = "on" => phase = "on"
  PROVE  Tree' /\ Chain' /\ Kept'
<1>1. Tree' /\ Chain'
  BY DEF node, IInv, Tree, Chain
<1>2. ASSUME phase' = "on" /\ snap'.final # None PROVE Kept'
  <2>1. Shows(snap, tracker, final, best, ahead, unsent)
    BY <1>2 DEF IInv, Kept
  <2>2. Shows(snap', tracker', final', best', ahead', unsent')
    BY <2>1 DEF node
  <2>3. parent' = parent
    BY DEF node
  <2> QED BY <2>2, <2>3, ShowsNext
<1>3. ~(phase' = "on" /\ snap'.final # None) => Kept'
  BY DEF Kept
<1> QED BY <1>1, <1>2, <1>3

LEMMA JoinKeeps ==
  ASSUME IInv, NEW c \in Client, Join(c)
  PROVE  IInv'
<1>0. Subject = IF snap.final = None THEN "pending" ELSE "emitted"
  BY DEF Subject, IInv
<1>1. phase = "on" /\ stream[c] = "absent" /\ UNCHANGED <<node, manager, other>>
  BY <1>0 DEF Join, manager
<1>2. Alone' /\ Tree' /\ Chain' /\ Kept'
  BY <1>1, NodeStays DEF manager, IInv, Alone
<1>3. CASE snap.final = None
  <2>1. stream' = [stream EXCEPT ![c] = "waiting"] /\ view' = view
    BY <1>0, <1>3 DEF Join
  <2>2. Typed'
    BY <1>1, <2>1 DEF IInv, Typed, Stages, node, manager
  <2>3. Waits' /\ Streams' /\ SameView'
    BY <1>1, <1>3, <2>1 DEF IInv, Typed, Waits, Streams, SameView, node, manager
  <2> QED BY <1>2, <2>2, <2>3 DEF IInv
<1>4. CASE snap.final # None
  <2>1. stream' = [stream EXCEPT ![c] = "live"] /\ view' = [view EXCEPT ![c] = Replay(snap, tracker)]
    BY <1>0, <1>4 DEF Join
  <2>2. Shows(snap, tracker, final, best, ahead, unsent)
    BY <1>1, <1>4, Informed
  <2>3. /\ final \in Hash \ ahead /\ best \in ahead \cup {final} /\ ahead \in SUBSET Block
        /\ best \in Hash /\ \A b \in ahead : parent[b] \in ahead \cup {final}
    BY <2>2 DEF Shows, IInv, Typed, Chain
  <2>4. \A b \in ahead : Knows(tracker, parent[b])
    <3>1. Tracks(tracker, ahead, final)
      BY <2>2 DEF Shows
    <3> QED BY <2>3, <3>1, TracksKnows
  <2>5. snap \in [final : {final}, best : {IF best = final THEN None ELSE best},
                  newBlocks : Seq(Block)]
    BY <2>2 DEF IInv, Typed, Snapshots, Shows
  <2>6. Replay(snap, tracker) = Told(final, best, ahead)
    <3>1. Tree
      BY DEF IInv
    <3>2. Lists(snap.newBlocks, 0, ahead, final)
      BY <2>2 DEF Shows
    <3> QED BY <2>3, <2>4, <2>5, <3>1, <3>2, ReplayTells
  <2>7. Told(final, best, ahead) \in View
    BY <2>3, ToldView
  <2>8. Typed'
    BY <1>1, <2>1, <2>6, <2>7 DEF IInv, Typed, Stages, node, manager
  <2>9. \A d \in Client : stream'[d] = "live" => view'[d] = Told(final, best, ahead)
    BY <1>1, <2>1, <2>6 DEF IInv, Typed, SameView, Told
  <2>10. SameView'
    BY <1>1, <2>9 DEF SameView, Told, node, manager
  <2>11. Waits' /\ Streams'
    BY <1>1, <1>4, <2>1 DEF IInv, Typed, Waits, Streams, node, manager
  <2> QED BY <1>2, <2>8, <2>10, <2>11 DEF IInv
<1> QED BY <1>3, <1>4

LEMMA InitTimeoutKeeps ==
  ASSUME IInv, NEW c \in Client, InitTimeout(c)
  PROVE  IInv'
<1>1. /\ phase = "on" /\ stream[c] = "waiting" /\ liveSub' = FALSE
      /\ stream' = [stream EXCEPT ![c] = "ended"]
      /\ UNCHANGED <<node, tracker, snap, phase, view, other>>
  BY DEF InitTimeout
<1>2. Alone' /\ Tree' /\ Chain' /\ Kept'
  BY <1>1, NodeStays DEF IInv, Alone
<1>3. Typed'
  BY <1>1 DEF IInv, Typed, Stages, node
<1>4. snap.final = None
  BY <1>1 DEF IInv, Streams
<1>5. Waits' /\ Streams' /\ SameView'
  BY <1>1, <1>4 DEF IInv, Typed, Waits, Streams, SameView, node
<1> QED BY <1>2, <1>3, <1>5 DEF IInv

LEMMA LeaveKeeps ==
  ASSUME IInv, NEW c \in Client, Leave(c)
  PROVE  IInv'
<1>1. /\ phase = "on" /\ liveSub' = FALSE
      /\ stream' = [stream EXCEPT ![c] = "left"]
      /\ view' = [view EXCEPT ![c] = Nothing]
      /\ UNCHANGED <<node, tracker, snap, other>>
      /\ phase' = IF \E d \in Client \ {c} : stream[d] \in {"waiting", "live", "ended"}
                  THEN "on" ELSE "over"
  BY DEF Leave
<1>2. Alone' /\ Tree' /\ Chain' /\ Kept'
  BY <1>1, NodeStays DEF IInv, Alone
<1>3. Typed'
  BY <1>1, NothingKnown DEF IInv, Typed, Stages, node
<1>4. \A d \in Client : stream'[d] = IF d = c THEN "left" ELSE stream[d]
  BY <1>1 DEF IInv, Typed
<1>5. Waits'
  <2>1. phase' = "on" /\ snap'.final = None => Waits
    BY <1>1 DEF IInv
  <2> QED BY <1>1, <1>4, <2>1 DEF Waits, node
<1>7. SameView'
  <2>1. \A d \in Client : phase' = "on" /\ stream'[d] = "live" => phase = "on" /\ stream[d] = "live"
    BY <1>1, <1>4
  <2>2. UNCHANGED <<final, best, ahead>>
    BY <1>1 DEF node
  <2>3. \A d \in Client : stream'[d] = "live" => view'[d] = view[d]
    BY <1>1, <1>4 DEF IInv, Typed
  <2> QED BY <2>1, <2>2, <2>3 DEF IInv, SameView
<1>6. Streams'
  BY <1>1, <1>4 DEF IInv, Streams
<1> QED BY <1>2, <1>3, <1>5, <1>6, <1>7 DEF IInv

LEMMA StreamEndsKeeps ==
  ASSUME IInv, StreamEnds
  PROVE  IInv'
<1>1. /\ phase' = "over" /\ snap' = NoSnapshot
      /\ tracker' = [tracker EXCEPT !.known = <<>>]
      /\ stream' = [c \in Client |->
                      IF stream[c] \in {"waiting", "live"} THEN "ended" ELSE stream[c]]
      /\ view' = [c \in Client |-> Nothing]
      /\ UNCHANGED <<node, liveSub, other>>
  BY DEF StreamEnds, Reset
<1>2. Alone' /\ Tree' /\ Chain'
  BY <1>1 DEF IInv, Alone, Tree, Chain, node
<1>3. Kept' /\ Waits' /\ Streams' /\ SameView'
  BY <1>1 DEF Kept, Waits, Streams, SameView
<1>4. NoSnapshot \in Snapshots
  BY DEF NoSnapshot, Snapshots
<1>5. stream' \in [Client -> Stages]
  BY <1>1 DEF IInv, Typed, Stages
<1>6. /\ tracker' \in [known : Seq(Hash), pending : Seq(Block)] /\ tracker'.pending = <<>>
      /\ Len(tracker'.known) <= MaxKnown
  <2>1. tracker \in [known : Seq(Hash), pending : Seq(Block)] /\ tracker.pending = <<>>
    BY DEF IInv, Typed
  <2>2. tracker' = [known |-> <<>>, pending |-> <<>>]
    BY <1>1, <2>1
  <2>3. 0 <= MaxKnown /\ Len(<<>>) = 0
    BY StreamAssumption
  <2> QED BY <2>2, <2>3
<1>7. Typed'
  BY <1>1, <1>4, <1>5, <1>6, NothingKnown DEF IInv, Typed, node
<1> QED BY <1>2, <1>3, <1>7 DEF IInv

\* Once another follow found the manager, it was not alone.
LEMMA OtherStays ==
  ASSUME other \in Other \cup {None}, [Next]_vars
  PROVE  other' \in Other \cup {None} /\ (Alone' => Alone)
<1>1. Starting \in Other /\ None \notin Other
  BY StreamAssumption, NobodyAssumption DEF Starting, Other
<1>2. MaxEvents \in Nat /\ \A h \in Block : h \in Hash
  BY StreamAssumption DEF Block, Hash
<1>3. CASE UNCHANGED vars
  BY <1>3 DEF vars, Alone
<1>4. CASE NodeStep
  BY <1>4 DEF NodeStep, Initialized, NewBlock, BestBlockChanged, Finalized, Alone
<1>5. CASE StreamEnds \/ \E c \in Client : ClientStep(c)
  BY <1>5 DEF StreamEnds, ClientStep, Join, InitTimeout, Leave, Alone
<1>6. CASE Collide \/ Found
  BY <1>1, <1>6 DEF Collide, Found, Alone
<1>7. CASE OtherEnds \/ OtherLeaves
  <2>1. other \in Other
    BY <1>7 DEF OtherEnds, OtherLeaves, OtherOn, Alone
  <2>2. other' \in Other
    BY <1>7, <2>1 DEF OtherEnds, OtherLeaves, Other
  <2> QED BY <1>1, <2>2 DEF Alone
<1>8. ASSUME other \in Other, other.events < MaxEvents
      PROVE  other.events + 1 \in 0..MaxEvents
  <2>1. other.events \in 0..MaxEvents
    BY <1>8 DEF Other
  <2> QED BY <1>2, <1>8, <2>1
<1>9. ASSUME NEW h \in Hash, OtherInitialized(h)
      PROVE  other' \in Other
  <2>1. other \in Other /\ other.events < MaxEvents
    BY <1>9 DEF OtherInitialized, OtherOn, OtherStep, Alone
  <2>2. other' = [other EXCEPT !.final = h, !.events = other.events + 1]
    BY <1>9 DEF OtherInitialized
  <2>3. other.events + 1 \in 0..MaxEvents /\ h \in Hash \cup {None}
    BY <1>8, <2>1
  <2> HIDE <1>8
  <2> QED BY <2>1, <2>2, <2>3 DEF Other
<1>10. ASSUME NEW b \in Block, OtherNewBlock(b) \/ OtherBest(b) \/ OtherFinalized(b)
       PROVE  other' \in Other
  <2>1. other \in Other /\ other.events < MaxEvents
    BY <1>10 DEF OtherNewBlock, OtherBest, OtherFinalized, OtherOn, OtherStep, Alone
  <2>2. /\ other.events + 1 \in 0..MaxEvents
        /\ b \in Hash \cup {None} /\ other.ahead \cup {b} \in SUBSET Block
        /\ \A gone : other.ahead \ gone \in SUBSET Block
    BY <1>2, <1>8, <2>1 DEF Other
  <2>3. CASE OtherNewBlock(b)
    <3>1. other' = [other EXCEPT !.ahead = other.ahead \cup {b}, !.events = other.events + 1]
      BY <2>3 DEF OtherNewBlock
    <3> QED BY <2>1, <2>2, <3>1 DEF Other
  <2>4. CASE OtherBest(b)
    <3>1. other' = [other EXCEPT !.events = other.events + 1]
      BY <2>4 DEF OtherBest
    <3> QED BY <2>1, <2>2, <3>1 DEF Other
  <2>5. CASE OtherFinalized(b)
    <3>1. PICK gone : other' = [other EXCEPT !.final = b, !.ahead = other.ahead \ gone,
                                            !.events = other.events + 1]
      BY <2>5 DEF OtherFinalized
    <3>2. other.ahead \ gone \in SUBSET Block
      BY <2>2
    <3> QED BY <2>1, <2>2, <3>1, <3>2 DEF Other
  <2> QED BY <1>10, <2>3, <2>4, <2>5
<1>11. CASE SharedStep
  <2>1. other' \in Other => other' \in Other \cup {None} /\ ~Alone'
    BY <1>1 DEF Alone
  <2> QED BY <1>6, <1>7, <1>8, <1>9, <1>10, <1>11, <2>1 DEF SharedStep
<1> QED BY <1>3, <1>4, <1>5, <1>11 DEF Next

LEMMA StepKeeps ==
  ASSUME IInv, [Next]_vars, Alone'
  PROVE  IInv'
<1>1. CASE UNCHANGED vars
  <2>1. Tree' /\ Chain' /\ Kept'
    BY <1>1, NodeStays DEF vars, manager
  <2>2. Typed' /\ Waits' /\ Streams' /\ SameView'
    BY <1>1 DEF IInv, Typed, Waits, Streams, SameView, vars, node, manager
  <2> QED BY <2>1, <2>2 DEF IInv
<1>2. CASE NodeStep \/ StreamEnds \/ \E c \in Client : ClientStep(c)
  BY <1>2, InitializedKeeps, NewBlockKeeps, BestBlockChangedKeeps, FinalizedKeeps,
     JoinKeeps, InitTimeoutKeeps, LeaveKeeps, StreamEndsKeeps DEF NodeStep, ClientStep
<1>3. ~SharedStep
  <2>1. ~Collide
    <3>1. Starting \in Other
      BY StreamAssumption DEF Starting, Other
    <3> QED BY <3>1, NobodyAssumption DEF Collide, Alone
  <2>2. ~Found
    BY DEF Found, IInv, Typed
  <2>3. ~OtherOn
    BY DEF OtherOn, IInv
  <2> QED BY <2>1, <2>2, <2>3 DEF SharedStep, OtherInitialized, OtherNewBlock, OtherBest,
             OtherFinalized, OtherEnds, OtherLeaves
<1> QED BY <1>1, <1>2, <1>3 DEF Next

\* The invariant the results of this module rest on.
THEOREM StreamInv == Spec => [](other \in Other \cup {None} /\ (Alone => IInv))
<1> DEFINE Inv == other \in Other \cup {None} /\ (Alone => IInv)
<1>1. Init => Inv
  <2>1. Starting \in Other
    BY StreamAssumption DEF Starting, Other
  <2> QED BY <2>1, InitialInv DEF Init
<1>2. Inv /\ [Next]_vars => Inv'
  BY OtherStays, StepKeeps
<1> HIDE DEF Inv
<1>3. Spec => []Inv
  BY <1>1, <1>2, PTL DEF Spec
<1> QED BY <1>3 DEF Inv

\* A client whose stream is live knows the node's final block, its best block and the
\* blocks ahead of finality, and was told of nothing it could not make sense of, whenever
\* it joined: the snapshot that snapshotEvents() replays fits the live events after it.
THEOREM SameViewHolds == Spec => []SameView
<1>1. (Alone => IInv) => SameView
  BY DEF IInv, SameView
<1> QED BY <1>1, StreamInv, PTL

\* The tracker knows the final block and every block on top of it, and no block is left
\* waiting for its parent.
LEMMA TrackerKnows == ASSUME IInv, Listening, final # None PROVE KnownCovers
<1>1. Tracks(tracker, ahead, final)
  BY Informed DEF Listening, Shows
<1>2. ASSUME NEW b \in ahead \cup {final} PROVE b \in Range(tracker.known)
  <2>1. \E i \in 1..Len(tracker.known) : tracker.known[i] = b
    BY <1>1, TracksKnows DEF Knows, Contains
  <2>2. tracker.known \in Seq(Hash)
    BY DEF IInv, Typed
  <2> QED BY <2>1, <2>2 DEF Range
<1> QED BY <1>1, <1>2 DEF Tracks, KnownCovers

\* The state keeps its types, the tracker never knows more hashes than it may, and as long
\* as the manager listens its snapshot holds every block ahead of finality once and nothing
\* else, and its tracker knows every block that one to come can be on top of.  All this as
\* long as no other follow found the manager.
THEOREM SnapshotExactHolds == Spec => [](Alone => SnapshotExact)
<1>1. IInv => TypeOK
  BY DEF IInv, Alone, Tree, Typed, Snapshots, Stages, TypeOK
<1>2. ASSUME IInv, Listening, final # None
      PROVE  /\ snap.final = final
             /\ Range(snap.newBlocks) = ahead
             /\ Len(snap.newBlocks) = Cardinality(ahead)
  <2>1. Shows(snap, tracker, final, best, ahead, unsent)
    BY <1>2, Informed DEF Listening
  <2>2. snap.newBlocks \in Seq(Block) /\ Lists(snap.newBlocks, 0, ahead, final)
    BY <1>2, <2>1 DEF Shows, IInv, Typed, Snapshots
  <2> DEFINE l == snap.newBlocks
  <2> HIDE DEF l
  <2>3. Len(l) \in Nat /\ 0 \in 0..Len(l) /\ l \in Seq(Block) /\ Lists(l, 0, ahead, final)
    BY <2>2 DEF l
  <2>4. Cardinality(ahead) = Len(l)
    <3>1. Cardinality(ahead) = Len(l) - 0
      BY <2>3, ListsCount
    <3> QED BY <2>3, <3>1
  <2>5. Range(l) = ahead
    <3>1. Range(l) = {l[i] : i \in 1..Len(l)}
      BY <2>3 DEF Range
    <3>2. (\A i \in 1..Len(l) : l[i] \in ahead) /\ \A b \in ahead : \E i \in 1..Len(l) : l[i] = b
      BY <2>3 DEF Lists
    <3> QED BY <3>1, <3>2
  <2> QED BY <2>1, <2>4, <2>5 DEF Shows, l
<1>3. (Alone => IInv) => (Alone => SnapshotExact)
  BY <1>1, <1>2, TrackerKnows DEF SnapshotExact
<1> QED BY <1>3, StreamInv, PTL

-----------------------------------------------------------------------------
(* Pinned blocks: state/pinned.ts.                                             *)

\* The state but for the order of the Map, which these properties do not depend on.
PinsTyped ==
  /\ subs \subseteq Subscriber
  /\ still \in [Pinnable -> SUBSET Subscriber]
  /\ todo \in Seq(Subscriber \X Pinnable)
  /\ reported \subseteq Pinnable
  /\ holds \in [Subscriber -> SUBSET Pinnable]
  /\ spent \in [Subscriber -> SUBSET Pinnable]
  /\ late \in [Subscriber -> SUBSET Pinnable]

\* Clients unpin only what was reported.
PinsTold ==
  /\ unpinned \subseteq begun /\ begun \subseteq reported
  /\ \A c \in Subscriber : holds[c] \subseteq reported /\ spent[c] \subseteq begun
  /\ \A i \in 1..Len(todo) : todo[i][2] \in reported

\* A block has an entry only once somebody unpinned it.
Listed == \A h \in Pinnable : still[h] # {} => h \in begun

\* An entry names every client that was told of the block before and holds it.
Owed == \A h \in Pinnable, c \in subs :
  still[h] # {} /\ h \in holds[c] /\ h \notin late[c] => c \in still[h]

\* A block that is not unpinned, forgotten or ignored has an entry, and no client in it has
\* unpinned the block.
Lingers(h) == still[h] # {} /\ \A c \in still[h] \cap subs : h \notin spent[c]
Lingering == \A h \in begun \ (unpinned \cup forgotten \cup ignored) : Lingers(h)

PinsInv == PinsTyped /\ PinsTold /\ Listed /\ Owed /\ ReleasedByAll /\ Lingering

LEMMA PinsInitInv == PinsInit => PinsInv
  BY DEF PinsInit, PinsInv, PinsTyped, PinsTold, Listed, Owed, ReleasedByAll,
         Lingering

\* newBlock: nobody has unpinned a block that was not reported.
LEMMA ReportInv == ASSUME PinsInv, NEW h \in Pinnable, Report(h) PROVE PinsInv'
<1> USE DEF Report, pins, history, Idle
<1>1. PinsTyped'
  BY DEF PinsInv, PinsTyped
<1>2. PinsTold'
  BY DEF PinsInv, PinsTyped, PinsTold
<1>3. Listed' /\ Lingering'
  BY DEF PinsInv, Listed, Lingering, Lingers
<1>4. h \notin begun /\ h \notin unpinned
  BY DEF PinsInv, PinsTold
<1>5. Owed'
  BY <1>4 DEF PinsInv, PinsTyped, Listed, Owed
<1>6. ReleasedByAll'
  BY <1>4 DEF PinsInv, PinsTyped, ReleasedByAll
<1> QED BY <1>1, <1>2, <1>3, <1>5, <1>6 DEF PinsInv

\* subscribeLocal: the blocks of the snapshot that somebody unpinned are late.
LEMMA JoinInv ==
  ASSUME PinsInv, NEW c \in Subscriber, NEW snapshot \in SUBSET reported,
         Subscribe(c, snapshot)
  PROVE  PinsInv'
<1> USE DEF Subscribe, pins, nodeBlocks, Idle
<1>1. PinsTyped'
  BY DEF PinsInv, PinsTyped
<1>2. PinsTold'
  BY DEF PinsInv, PinsTyped, PinsTold
<1>3. Listed'
  BY DEF PinsInv, Listed
<1>4. \A h \in Pinnable : c \notin still[h]
  BY DEF PinsInv, PinsTyped, Dead
<1>5. Lingering'
  BY <1>4 DEF PinsInv, PinsTyped, PinsTold, Lingering, Lingers
<1>6. Owed'
  BY DEF PinsInv, PinsTyped, Listed, Owed
<1>7. ReleasedByAll'
  BY DEF PinsInv, PinsTyped, PinsTold, ReleasedByAll
<1> QED BY <1>1, <1>2, <1>3, <1>5, <1>6, <1>7 DEF PinsInv

\* chainHead_v1_unpin, before the loop.
LEMMA UnpinInv ==
  ASSUME PinsInv, NEW c \in Subscriber, NEW hashes \in Seq(Pinnable), Unpin(c, hashes)
  PROVE  PinsInv'
<1> USE DEF Unpin, nodeBlocks, views, history
<1>1. \A i \in 1..Len(hashes) : hashes[i] \in Pinnable /\ hashes[i] \in reported
  BY DEF PinsInv, PinsTyped, PinsTold
<1>2. todo' \in Seq(Subscriber \X Pinnable) /\ \A i \in 1..Len(todo') : todo'[i][2] \in reported
  BY <1>1
<1>3. PinsTyped' /\ PinsTold'
  BY <1>2 DEF PinsInv, PinsTyped, PinsTold
<1> QED BY <1>3 DEF PinsInv, Listed, Owed, ReleasedByAll, Lingering, Lingers

\* unpinLocal goes on with the next hash; what the client holds and has unpinned.
LEMMA UnpinNextViews ==
  ASSUME PinsInv, UnpinNext
  PROVE  LET c == Head(todo)[1]
             h == Head(todo)[2]
         IN /\ c \in Subscriber /\ h \in Pinnable /\ h \in reported
            /\ todo' \in Seq(Subscriber \X Pinnable)
            /\ \A i \in 1..Len(todo') : todo'[i][2] \in reported
            /\ holds' = [holds EXCEPT ![c] = @ \ {h}]
            /\ spent' = [spent EXCEPT ![c] = @ \cup {h}]
            /\ late' = [late EXCEPT ![c] = @ \ {h}]
            /\ begun' = begun \cup {h}
            /\ todo' = Tail(todo) /\ subs' = subs /\ reported' = reported
<1>1. 1 \in 1..Len(todo) /\ Head(todo) = todo[1] /\ todo[1] \in Subscriber \X Pinnable
  BY DEF PinsInv, PinsTyped, UnpinNext
<1>2. todo' = Tail(todo) /\ todo' \in Seq(Subscriber \X Pinnable)
  BY DEF PinsInv, PinsTyped, UnpinNext
<1>3. ASSUME NEW i \in 1..Len(Tail(todo)) PROVE Tail(todo)[i][2] \in reported
  <2>1. i + 1 \in 1..Len(todo) /\ Tail(todo)[i] = todo[i + 1]
    BY DEF PinsInv, PinsTyped, UnpinNext
  <2> QED BY <2>1 DEF PinsInv, PinsTold
<1> QED BY <1>1, <1>2, <1>3 DEF UnpinNext, PinsInv, PinsTold

\* unpinLocal of a follow that is not found: the block is ignored.
LEMMA IgnoredInv == ASSUME PinsInv, UnpinNext, ~found PROVE PinsInv'
<1> DEFINE c == Head(todo)[1]
           h == Head(todo)[2]
<1>1. UNCHANGED <<still, unpinned, forgotten>> /\ ignored' = ignored \cup {h}
  BY DEF UnpinNext, UnpinIgnored
<1>2. /\ c \in Subscriber /\ h \in Pinnable /\ h \in reported
      /\ todo' \in Seq(Subscriber \X Pinnable)
      /\ \A i \in 1..Len(todo') : todo'[i][2] \in reported
      /\ holds' = [holds EXCEPT ![c] = @ \ {h}]
      /\ spent' = [spent EXCEPT ![c] = @ \cup {h}]
      /\ late' = [late EXCEPT ![c] = @ \ {h}]
      /\ begun' = begun \cup {h} /\ subs' = subs /\ reported' = reported
  BY UnpinNextViews
<1> HIDE DEF c, h
<1>3. \A d \in Subscriber, b \in Pinnable :
        /\ b \in holds'[d] => b \in holds[d] /\ ~(b = h /\ d = c)
        /\ b \in late'[d] <=> b \in late[d] /\ ~(b = h /\ d = c)
        /\ b \in spent'[d] => b \in spent[d] \/ b = h
  BY <1>2 DEF PinsInv, PinsTyped
<1>4. PinsTyped'
  BY <1>1, <1>2 DEF PinsInv, PinsTyped
<1>5. PinsTold'
  <2>1. \A d \in Subscriber : holds'[d] \subseteq holds[d] /\ spent'[d] \subseteq spent[d] \cup {h}
    BY <1>2 DEF PinsInv, PinsTyped
  <2> QED BY <1>1, <1>2, <2>1 DEF PinsInv, PinsTold
<1>6. Listed'
  BY <1>1, <1>2 DEF PinsInv, Listed
<1>7. Owed'
  BY <1>1, <1>2, <1>3 DEF PinsInv, PinsTyped, Owed
<1>8. ReleasedByAll'
  BY <1>1, <1>2, <1>3 DEF PinsInv, PinsTyped, PinsTold, ReleasedByAll
<1>9. Lingering'
  BY <1>1, <1>2, <1>3 DEF PinsInv, PinsTyped, PinsTold, Lingering, Lingers
<1> QED BY <1>4, <1>5, <1>6, <1>7, <1>8, <1>9 DEF PinsInv

\* The loop of unpinLocal: the block goes only when the entry has no client left, and an
\* entry that is evicted is forgotten.
LEMMA HeardInv == ASSUME PinsInv, UnpinNext, found PROVE PinsInv'
<1> DEFINE c == Head(todo)[1]
           h == Head(todo)[2]
           freed == Pinners(c, h) = {}
           dropped == Evicted(h) \cup {b \in {h} : Pinners(c, h) = {}}
<1>0. UnpinEntry(c, h)
  BY DEF UnpinNext
<1>1. c \in Subscriber /\ h \in Pinnable /\ h \in reported
  BY UnpinNextViews
<1>2. /\ still' = [b \in Pinnable |-> IF b \in dropped THEN {}
                                   ELSE IF b = h THEN Pinners(c, h) ELSE still[b]]
      /\ unpinned' = unpinned \cup {b \in {h} : freed}
      /\ holds' = [holds EXCEPT ![c] = @ \ {h}]
      /\ spent' = [spent EXCEPT ![c] = @ \cup {h}]
      /\ late' = [late EXCEPT ![c] = @ \ {h}]
      /\ begun' = begun \cup {h}
      /\ forgotten' = forgotten \cup Evicted(h)
      /\ ignored' = ignored
      /\ subs' = subs /\ reported' = reported
  BY <1>0, UnpinNextViews DEF UnpinEntry
<1>3. Pinners(c, h) \subseteq subs \ {c}
  BY DEF Pinners
<1>4. \A d \in subs \ {c} : still[h] = {} \/ d \in still[h] => d \in Pinners(c, h)
  BY DEF Pinners
<1>5. still[h] # {} => Pinners(c, h) \subseteq still[h]
  BY DEF Pinners
<1> HIDE DEF c, h, freed, dropped
<1>6. PinsTyped'
  <2>1. todo' \in Seq(Subscriber \X Pinnable)
    BY UnpinNextViews
  <2> QED BY <1>1, <1>2, <1>3, <2>1 DEF PinsInv, PinsTyped
<1>7. PinsTold'
  <2>1. \A i \in 1..Len(todo') : todo'[i][2] \in reported
    BY UnpinNextViews
  <2>2. \A d \in Subscriber : holds'[d] \subseteq holds[d] /\ spent'[d] \subseteq spent[d] \cup {h}
    BY <1>1, <1>2 DEF PinsInv, PinsTyped
  <2> QED BY <1>1, <1>2, <2>1, <2>2 DEF PinsInv, PinsTold
<1>8. Listed'
  BY <1>2 DEF PinsInv, Listed
<1>9. Owed'
  <2> SUFFICES ASSUME NEW b \in Pinnable, NEW d \in subs, still'[b] # {},
                      b \in holds'[d], b \notin late'[d]
               PROVE  d \in still'[b]
    BY <1>2 DEF Owed
  <2>1. b \notin dropped
    BY <1>2
  <2>2. CASE b = h
    <3>1. d # c /\ b \in holds[d] /\ b \notin late[d]
      BY <1>1, <1>2, <2>2 DEF PinsInv, PinsTyped
    <3>2. still[h] = {} \/ d \in still[h]
      BY <2>2, <3>1 DEF PinsInv, Owed
    <3> QED BY <1>2, <1>4, <2>1, <2>2, <3>1, <3>2
  <2>3. CASE b # h
    <3>1. still'[b] = still[b] /\ b \in holds[d] /\ b \notin late[d]
      BY <1>1, <1>2, <2>1, <2>3 DEF PinsInv, PinsTyped
    <3> QED BY <3>1 DEF PinsInv, Owed
  <2> QED BY <2>2, <2>3
<1>10. ReleasedByAll'
  <2> SUFFICES ASSUME NEW b \in unpinned', NEW d \in subs, b \in holds'[d]
               PROVE  b \in late'[d]
    BY <1>2 DEF ReleasedByAll
  <2>1. b \in holds[d] /\ ~(b = h /\ d = c) /\ (b \in late[d] => b \in late'[d])
    BY <1>1, <1>2 DEF PinsInv, PinsTyped
  <2>2. CASE b \in unpinned
    BY <2>1, <2>2 DEF PinsInv, ReleasedByAll
  <2>3. CASE b = h /\ freed
    <3>1. d # c /\ still[h] # {} /\ d \notin still[h]
      BY <1>4, <2>1, <2>3 DEF freed
    <3> QED BY <1>1, <2>1, <2>3, <3>1 DEF PinsInv, Owed
  <2> QED BY <1>2, <2>2, <2>3
<1>11. Lingering'
  <2> SUFFICES ASSUME NEW b \in begun', b \notin unpinned', b \notin forgotten',
                      b \notin ignored'
               PROVE  Lingers(b)'
    BY DEF Lingering
  <2>1. b \notin unpinned /\ b \notin forgotten /\ b \notin ignored /\ b \notin dropped /\ b \in Pinnable
    BY <1>1, <1>2 DEF freed, dropped, PinsInv, PinsTyped, PinsTold
  <2>2. CASE b = h
    <3>1. Pinners(c, h) # {} /\ still'[b] = Pinners(c, h)
      BY <1>2, <2>1, <2>2 DEF freed
    <3>2. ASSUME NEW d \in Pinners(c, h) PROVE h \notin spent'[d]
      <4>1. d # c /\ d \in subs /\ d \in Subscriber /\ spent'[d] = spent[d]
        BY <1>1, <1>2, <1>3, <3>2 DEF PinsInv, PinsTyped
      <4>2. CASE h \in begun
        BY <1>5, <2>1, <2>2, <3>2, <4>1, <4>2 DEF PinsInv, Lingering, Lingers
      <4>3. CASE h \notin begun
        BY <4>1, <4>3 DEF PinsInv, PinsTold
      <4> QED BY <4>2, <4>3
    <3> QED BY <2>2, <3>1, <3>2 DEF Lingers
  <2>3. CASE b # h
    <3>1. still'[b] = still[b] /\ b \in begun
      BY <1>2, <2>1, <2>3
    <3>2. \A d \in Subscriber : b \in spent'[d] => b \in spent[d]
      BY <1>1, <1>2, <2>3 DEF PinsInv, PinsTyped
    <3> QED BY <1>2, <2>1, <3>1, <3>2 DEF PinsInv, PinsTyped, Lingering, Lingers
  <2> QED BY <2>2, <2>3
<1> QED BY <1>6, <1>7, <1>8, <1>9, <1>10, <1>11 DEF PinsInv

LEMMA UnpinNextInv == ASSUME PinsInv, UnpinNext PROVE PinsInv'
BY HeardInv, IgnoredInv

\* The end of a follow leaves nothing behind.
LEMMA DestroyedInv == ASSUME PinsInv, Idle, Destroyed, UNCHANGED todo PROVE PinsInv'
  BY DEF Idle, Destroyed, PinsInv, PinsTyped, PinsTold, Listed, Owed,
         ReleasedByAll, Lingering

\* What unfollow and close have in common: the others keep their views.
LEMMA LeavesViews ==
  ASSUME PinsInv, NEW c \in subs, Leaves(c)
  PROVE  /\ c \in Subscriber
         /\ holds' \in [Subscriber -> SUBSET Pinnable]
         /\ spent' \in [Subscriber -> SUBSET Pinnable]
         /\ late' \in [Subscriber -> SUBSET Pinnable]
         /\ \A d \in subs' : /\ holds'[d] = holds[d] /\ spent'[d] = spent[d]
                             /\ late'[d] = late[d]
         /\ \A d \in Subscriber : holds'[d] \subseteq holds[d] /\ spent'[d] \subseteq spent[d]
  BY DEF PinsInv, PinsTyped, Leaves

\* A client that leaves without a word to the pinned blocks: its websocket closed, or the
\* follow is not found.
LEMMA LeavesInv ==
  ASSUME PinsInv, NEW c \in subs, Leaves(c), UNCHANGED <<still, unpinned, todo>>, Idle
  PROVE  PinsInv'
<1>1. /\ holds' \in [Subscriber -> SUBSET Pinnable]
      /\ spent' \in [Subscriber -> SUBSET Pinnable]
      /\ late' \in [Subscriber -> SUBSET Pinnable]
  BY LeavesViews
<1>2. \A d \in subs' : holds'[d] = holds[d] /\ spent'[d] = spent[d] /\ late'[d] = late[d]
  BY LeavesViews
<1>3. \A d \in Subscriber : holds'[d] \subseteq holds[d] /\ spent'[d] \subseteq spent[d]
  BY LeavesViews
<1>4. /\ subs' = subs \ {c} /\ reported' = reported /\ begun' = begun
      /\ forgotten' = forgotten /\ ignored' = ignored
  BY DEF Leaves
<1>5. PinsTyped' /\ PinsTold'
  BY <1>1, <1>3, <1>4 DEF PinsInv, PinsTyped, PinsTold
<1>6. Listed' /\ Owed' /\ ReleasedByAll'
  BY <1>2, <1>4 DEF PinsInv, Listed, Owed, ReleasedByAll
<1>7. Lingering'
  BY <1>2, <1>4 DEF PinsInv, Lingering, Lingers
<1> QED BY <1>5, <1>6, <1>7 DEF PinsInv

\* unsubscribeLocal of the pinned blocks, and of the follow.
LEMMA UnfollowInv == ASSUME PinsInv, NEW c \in Subscriber, Unfollow(c) PROVE PinsInv'
<1>1. Idle /\ c \in subs /\ UNCHANGED todo
  BY DEF Unfollow
<1>2. CASE subs = {c}
  BY <1>1, <1>2, DestroyedInv DEF Unfollow
<1>3. CASE subs # {c} /\ ~found
  BY <1>1, <1>3, LeavesInv DEF Unfollow
<1>4. CASE subs # {c} /\ found
  <2>1. /\ Leaves(c)
        /\ still' = [h \in Pinnable |-> still[h] \ {c}]
        /\ unpinned' = unpinned \cup GivenUp(c)
    BY <1>4 DEF Unfollow
  <2>2. /\ holds' \in [Subscriber -> SUBSET Pinnable]
        /\ spent' \in [Subscriber -> SUBSET Pinnable]
        /\ late' \in [Subscriber -> SUBSET Pinnable]
    BY <1>1, <2>1, LeavesViews
  <2>3. \A d \in subs' : holds'[d] = holds[d] /\ spent'[d] = spent[d] /\ late'[d] = late[d]
    BY <1>1, <2>1, LeavesViews
  <2>4. \A d \in Subscriber : holds'[d] \subseteq holds[d] /\ spent'[d] \subseteq spent[d]
    BY <1>1, <2>1, LeavesViews
  <2>5. /\ subs' = subs \ {c} /\ reported' = reported /\ begun' = begun
        /\ forgotten' = forgotten /\ ignored' = ignored
    BY <2>1 DEF Leaves
  <2>6. PinsTyped'
    BY <1>1, <2>1, <2>2, <2>5 DEF PinsInv, PinsTyped
  <2>7. GivenUp(c) \subseteq begun
    BY DEF GivenUp, PinsInv, Listed
  <2>8. PinsTold'
    BY <1>1, <2>1, <2>4, <2>5, <2>7 DEF PinsInv, PinsTold
  <2>9. Listed' /\ Owed'
    BY <2>1, <2>3, <2>5 DEF PinsInv, PinsTyped, Listed, Owed
  <2>10. ReleasedByAll'
    BY <2>1, <2>3, <2>5 DEF PinsInv, PinsTyped, Owed, ReleasedByAll, GivenUp
  <2>11. Lingering'
    <3> SUFFICES ASSUME NEW h \in begun', h \notin unpinned', h \notin forgotten',
                        h \notin ignored'
                 PROVE  Lingers(h)'
      BY DEF Lingering
    <3>1. h \in Pinnable /\ Lingers(h) /\ still[h] # {c} /\ still'[h] = still[h] \ {c}
      BY <2>1, <2>5 DEF PinsInv, PinsTyped, PinsTold, Lingering, GivenUp
    <3> QED BY <2>3, <2>5, <3>1 DEF Lingers
  <2> QED BY <2>6, <2>8, <2>9, <2>10, <2>11 DEF PinsInv
<1> QED BY <1>2, <1>3, <1>4

\* The close function: only the follow loses the client.
LEMMA CloseInv == ASSUME PinsInv, NEW c \in Subscriber, Close(c) PROVE PinsInv'
<1>1. Idle /\ c \in subs /\ UNCHANGED todo
  BY DEF Close
<1>2. CASE subs = {c}
  BY <1>1, <1>2, DestroyedInv DEF Close
<1>3. CASE subs # {c}
  BY <1>1, <1>3, LeavesInv DEF Close
<1> QED BY <1>2, <1>3

LEMMA PinsNextInv == PinsInv /\ [PinsNext]_pinsVars => PinsInv'
<1> SUFFICES ASSUME PinsInv, [PinsNext]_pinsVars PROVE PinsInv'
  OBVIOUS
<1>1. ASSUME NEW h \in Pinnable, Report(h) PROVE PinsInv'
  BY <1>1, ReportInv
<1>2. ASSUME NEW c \in Subscriber, NEW snapshot \in SUBSET reported, Subscribe(c, snapshot)
      PROVE  PinsInv'
  BY <1>2, JoinInv
<1>3. ASSUME NEW c \in Subscriber, NEW g \in Pinnable, NEW h \in Pinnable,
             Unpin(c, <<h>>) \/ Unpin(c, <<g, h>>)
      PROVE  PinsInv'
  <2>1. <<h>> \in Seq(Pinnable) /\ <<g, h>> \in Seq(Pinnable)
    OBVIOUS
  <2> QED BY <1>3, <2>1, UnpinInv
<1>4. CASE UnpinNext
  BY <1>4, UnpinNextInv
<1>5. ASSUME NEW c \in Subscriber, Unfollow(c) \/ Close(c) PROVE PinsInv'
  BY <1>5, UnfollowInv, CloseInv
<1>6. CASE End
  BY <1>6, DestroyedInv DEF End
<1>7. CASE Orphaned \/ UNCHANGED pinsVars
  BY <1>7 DEF Orphaned, pinsVars, pins, nodeBlocks, views, history, PinsInv,
         PinsTyped, PinsTold, Listed, Owed,
         ReleasedByAll, Lingering, Lingers
<1> QED BY <1>1, <1>2, <1>3, <1>4, <1>5, <1>6, <1>7 DEF PinsNext

\* What unpinLocal and unsubscribeLocal keep up between any two steps.
THEOREM PinsInvariance == PinsSpec => []PinsInv
  BY PinsInitInv, PinsNextInv, PTL DEF PinsSpec

\* unpinLocal: the node is asked to unpin a block only when every subscriber has that was
\* told of it before the first unpin.
THEOREM ReleasedByAllHolds == PinsSpec => []ReleasedByAll
  BY PinsInvariance, PTL DEF PinsInv

\* A block that lingers at the node does so for a client that has not unpinned it, or that
\* is gone without, or because its entry was evicted or an unpin of it was ignored, since
\* the follow was in a pool that lookups do not find.
THEOREM LingersForSomeoneHolds == PinsSpec => []LingersForSomeone
<1>1. PinsInv => LingersForSomeone
  <2> SUFFICES ASSUME PinsInv, NEW h \in begun \ (unpinned \cup forgotten \cup ignored)
               PROVE  \E c \in still[h] : c \in Dead \/ h \notin spent[c]
    BY DEF LingersForSomeone
  <2>1. h \in Pinnable /\ Lingers(h)
    BY DEF PinsInv, PinsTyped, PinsTold, Lingering
  <2>2. PICK c \in still[h] : TRUE
    BY <2>1 DEF Lingers
  <2>3. c \in subs \/ c \in Dead
    BY <2>1, <2>2 DEF PinsInv, PinsTyped, Dead
  <2> QED BY <2>1, <2>2, <2>3 DEF Lingers
<1> QED BY <1>1, PinsInvariance, PTL

-----------------------------------------------------------------------------
\* The Map has the blocks with an entry, and fewer than its maximum.
Ordered ==
  /\ order \in Seq(Pinnable) /\ Len(order) < MaxHashes
  /\ {order[i] : i \in 1..Len(order)} = {h \in Pinnable : still[h] # {}}

\* Who unpins is subscribed, and who is not has unpinned nothing.
Viewed ==
  /\ found \in BOOLEAN
  /\ forgotten \subseteq Pinnable /\ ignored \subseteq begun
  /\ \A c \in Subscriber : late[c] \subseteq holds[c] \ spent[c]
  /\ \A c \in Subscriber \ subs : spent[c] = {}
  /\ \A i \in 1..Len(todo) : todo[i][1] \in subs

\* An entry less for every block that is dropped.
LEMMA OrderedWithout ==
  ASSUME NEW K, order' = Within(order, K),
         order \in Seq(Pinnable), Len(order) < MaxHashes,
         \A h \in Pinnable : still'[h] # {} <=> h \in K /\ \E i \in 1..Len(order) : order[i] = h
  PROVE  Ordered'
<1>1. /\ Within(order, K) \in Seq(Pinnable) /\ Len(Within(order, K)) <= Len(order)
      /\ {Within(order, K)[i] : i \in 1..Len(Within(order, K))}
           = {order[i] : i \in 1..Len(order)} \cap K
  BY WithinRange
<1>2. Len(Within(order, K)) < MaxHashes
  BY <1>1, PinnedAssumption
<1>3. {order[i] : i \in 1..Len(order)} \cap K = {h \in Pinnable : still'[h] # {}}
  OBVIOUS
<1> QED BY <1>1, <1>2, <1>3 DEF Ordered

LEMMA DestroyedOrder == ASSUME Destroyed PROVE Ordered'
<1>1. Len(<<>>) = 0 /\ <<>> \in Seq(Pinnable) /\ 0 < MaxHashes
  BY PinnedAssumption
<1>2. {<<>>[i] : i \in 1..0} = {}
  OBVIOUS
<1>3. {h \in Pinnable : still'[h] # {}} = {}
  BY DEF Destroyed
<1> QED BY <1>1, <1>2, <1>3 DEF Destroyed, Ordered

\* Only an entry can be evicted.
LEMMA EvictedIs ==
  ASSUME Ordered, NEW h \in Pinnable
  PROVE  Evicted(h) \subseteq Pinnable
<1> SUFFICES ASSUME Len(order) + 1 >= MaxHashes PROVE Head(order) \in Pinnable
  BY DEF Evicted
<1>1. order \in Seq(Pinnable) /\ 1 \in 1..Len(order) /\ Head(order) = order[1]
  BY PinnedAssumption DEF Ordered
<1> QED BY <1>1

LEMMA UnpinNextViewed ==
  ASSUME PinsInv, Ordered, Viewed, UnpinNext
  PROVE  Viewed'
<1> DEFINE c == Head(todo)[1]
           h == Head(todo)[2]
<1>1. c \in subs /\ c \in Subscriber /\ h \in Pinnable
  <2>1. 1 \in 1..Len(todo) /\ Head(todo) = todo[1] /\ todo[1] \in Subscriber \X Pinnable
    BY DEF PinsInv, PinsTyped, UnpinNext
  <2> QED BY <2>1 DEF Viewed
<1>2. /\ holds' = [holds EXCEPT ![c] = @ \ {h}]
      /\ spent' = [spent EXCEPT ![c] = @ \cup {h}]
      /\ late' = [late EXCEPT ![c] = @ \ {h}]
      /\ begun' = begun \cup {h} /\ todo' = Tail(todo) /\ subs' = subs
  BY UnpinNextViews
<1>3. /\ forgotten' = forgotten \/ forgotten' = forgotten \cup Evicted(h)
      /\ ignored' \subseteq ignored \cup {h}
      /\ found' = found
  BY DEF UnpinNext, UnpinEntry, UnpinIgnored
<1>4. Evicted(h) \subseteq Pinnable
  BY <1>1, EvictedIs
<1> HIDE DEF c, h
<1>5. ASSUME NEW i \in 1..Len(todo') PROVE todo'[i][1] \in subs
  <2>1. todo \in Seq(Subscriber \X Pinnable) /\ todo # <<>> /\ todo' = Tail(todo)
    BY <1>2 DEF PinsInv, PinsTyped, UnpinNext
  <2>2. Len(Tail(todo)) = Len(todo) - 1
    BY <2>1
  <2>3. i \in 1..Len(Tail(todo))
    BY <2>1
  <2>4. i + 1 \in 1..Len(todo) /\ todo'[i] = todo[i + 1]
    BY <2>1, <2>2, <2>3
  <2> QED BY <2>4 DEF Viewed
<1>6. \A d \in Subscriber : late'[d] \subseteq holds'[d] \ spent'[d]
  BY <1>1, <1>2 DEF PinsInv, PinsTyped, Viewed
<1>7. \A d \in Subscriber \ subs : spent'[d] = {}
  BY <1>1, <1>2 DEF PinsInv, PinsTyped, Viewed
<1>8. forgotten' \subseteq Pinnable /\ ignored' \subseteq begun'
  BY <1>2, <1>3, <1>4 DEF Viewed
<1>9. found' \in BOOLEAN
  BY <1>3 DEF Viewed
<1> QED BY <1>2, <1>5, <1>6, <1>7, <1>8, <1>9 DEF Viewed

\* The loop of unpinLocal: the oldest entry goes when a new one would fill the Map.
LEMMA UnpinEntryOrder ==
  ASSUME PinsInv, Ordered, UnpinNext, found
  PROVE  Ordered'
<1> DEFINE c == Head(todo)[1]
           h == Head(todo)[2]
           entries == IF still[h] # {} THEN order ELSE Append(order, h)
           dropped == Evicted(h) \cup {b \in {h} : Pinners(c, h) = {}}
           K == Pinnable \ dropped
<1>1. c \in Subscriber /\ h \in Pinnable
  BY UnpinNextViews
<1>2. /\ still' = [b \in Pinnable |-> IF b \in dropped THEN {}
                                   ELSE IF b = h THEN Pinners(c, h) ELSE still[b]]
      /\ order' = Within(entries, K)
  <2>1. UnpinEntry(c, h)
    BY DEF UnpinNext
  <2> QED BY <2>1 DEF UnpinEntry
<1>3. order \in Seq(Pinnable) /\ Len(order) \in Nat /\ Len(order) < MaxHashes /\ MaxHashes \in Nat
      /\ MaxHashes >= 2
  BY PinnedAssumption DEF Ordered
<1>6. still' \in [Pinnable -> SUBSET Subscriber]
  BY UnpinNextInv DEF PinsInv, PinsTyped
<1> HIDE DEF c, h
<1>7. entries \in Seq(Pinnable) /\ {entries[i] : i \in 1..Len(entries)}
        = {b \in Pinnable : still[b] # {} \/ b = h}
  <2>1. CASE still[h] # {}
    BY <1>1, <2>1 DEF Ordered
  <2>2. CASE still[h] = {}
    <3>1. /\ entries = Append(order, h) /\ entries \in Seq(Pinnable)
          /\ Len(entries) = Len(order) + 1 /\ entries[Len(order) + 1] = h
          /\ \A i \in 1..Len(order) : entries[i] = order[i]
      BY <1>1, <1>3, <2>2
    <3> HIDE DEF entries
    <3>2. \A i \in 1..(Len(order) + 1) : i \in 1..Len(order) \/ i = Len(order) + 1
      BY <1>3
    <3>3. \A i \in 1..Len(order) : i \in 1..Len(entries)
      BY <1>3, <3>1
    <3>4. Len(order) + 1 \in 1..Len(entries)
      BY <1>3, <3>1
    <3>5. {entries[i] : i \in 1..Len(entries)} = {order[i] : i \in 1..Len(order)} \cup {h}
      BY <3>1, <3>2, <3>3, <3>4
    <3> QED BY <1>1, <3>1, <3>5 DEF Ordered
  <2> QED BY <2>1, <2>2
<1>8. Evicted(h) # {} => still[h] = {} /\ h \notin Evicted(h)
  <2> SUFFICES ASSUME still[h] = {}, Len(order) + 1 >= MaxHashes PROVE Head(order) # h
    BY DEF Evicted
  <2>1. 1 \in 1..Len(order) /\ Head(order) = order[1]
    BY <1>3
  <2> QED BY <2>1 DEF Ordered
<1>9. {b \in Pinnable : still'[b] # {}} = {entries[i] : i \in 1..Len(entries)} \cap K
  BY <1>1, <1>2, <1>7, <1>8
<1>10. /\ order' \in Seq(Pinnable) /\ Len(order') <= Len(entries)
       /\ {order'[i] : i \in 1..Len(order')} = {entries[i] : i \in 1..Len(entries)} \cap K
  <2> HIDE DEF entries, K
  <2> QED BY <1>2, <1>7, WithinRange
<1>11. Len(order') < MaxHashes
  <2>1. CASE still[h] # {}
    BY <1>3, <1>10, <2>1
  <2>2. CASE still[h] = {} /\ Len(order) + 1 < MaxHashes
    <3>1. Len(entries) = Len(order) + 1
      BY <1>1, <1>3, <2>2
    <3> QED BY <1>3, <1>10, <2>2, <3>1
  <2>3. CASE still[h] = {} /\ ~ (Len(order) + 1 < MaxHashes)
    <3>1. Len(entries) = Len(order) + 1 /\ entries[1] = Head(order) /\ 1 \in 1..Len(entries)
      BY <1>1, <1>3, <2>3
    <3>2. entries[1] \notin K
      BY <1>3, <2>3, <3>1 DEF Evicted
    <3>3. Len(Within(entries, K)) < Len(entries)
      <4> HIDE DEF entries, K
      <4> QED BY <1>7, <3>1, <3>2, WithinShorter
    <3> HIDE DEF entries, K
    <3> QED BY <1>2, <1>3, <1>10, <3>1, <3>3
  <2> QED BY <2>1, <2>2, <2>3
<1>12. Ordered'
  <2> HIDE DEF entries, K
  <2> QED BY <1>9, <1>10, <1>11 DEF Ordered
<1> QED BY <1>12

LEMMA NextOrder ==
  ASSUME PinsInv, Ordered, Viewed, [PinsNext]_pinsVars
  PROVE  Ordered' /\ Viewed'
<1>1. ASSUME NEW h \in Pinnable, Report(h) PROVE Ordered' /\ Viewed'
  <2>1. /\ Idle /\ h \notin reported
        /\ UNCHANGED <<subs, found, still, order, todo, spent, late, begun, forgotten, ignored>>
        /\ \A c \in Subscriber : holds[c] \subseteq holds'[c] /\ holds'[c] \subseteq holds[c] \cup {h}
    BY <1>1 DEF Report, pins, history, PinsInv, PinsTyped
  <2>2. \A c \in Subscriber : h \notin spent[c]
    BY <2>1 DEF PinsInv, PinsTold
  <2>3. Ordered'
    BY <2>1 DEF Ordered
  <2> QED BY <2>1, <2>2, <2>3 DEF Viewed
<1>2. ASSUME NEW c \in Subscriber, NEW snapshot \in SUBSET reported, Subscribe(c, snapshot)
      PROVE  Ordered' /\ Viewed'
  BY <1>2 DEF Subscribe, pins, nodeBlocks, Idle, PinsInv, PinsTyped, PinsTold,
         Ordered, Viewed
<1>3. ASSUME NEW c \in Subscriber, NEW g \in Pinnable, NEW h \in Pinnable,
             Unpin(c, <<h>>) \/ Unpin(c, <<g, h>>)
      PROVE  Ordered' /\ Viewed'
  <2>1. Ordered' /\ UNCHANGED <<subs, found, begun, forgotten, ignored, late, holds, spent>>
        /\ c \in subs
    BY <1>3 DEF Unpin, nodeBlocks, views, history, Ordered
  <2>2. \A i \in 1..Len(todo') : todo'[i][1] = c
    BY <1>3 DEF Unpin
  <2> QED BY <2>1, <2>2 DEF Viewed
<1>4. CASE UnpinNext
  <2>1. ~found => Ordered'
    BY <1>4 DEF UnpinNext, UnpinIgnored, Ordered
  <2> QED BY <1>4, <2>1, UnpinNextViewed, UnpinEntryOrder
<1>5. ASSUME Destroyed, UNCHANGED todo, Idle PROVE Ordered' /\ Viewed'
  <2>1. Viewed'
    BY <1>5 DEF Destroyed, Idle, Viewed
  <2> QED BY <1>5, <2>1, DestroyedOrder
<1>6. ASSUME NEW c \in subs, Leaves(c), UNCHANGED todo, Idle PROVE Viewed'
  BY <1>6 DEF Leaves, Idle, PinsInv, PinsTyped, Viewed
<1>7. ASSUME NEW c \in Subscriber, Unfollow(c) PROVE Ordered' /\ Viewed'
  <2>1. CASE subs = {c}
    BY <1>5, <1>7, <2>1 DEF Unfollow
  <2>3. CASE subs # {c} /\ ~found
    <3>1. Leaves(c) /\ UNCHANGED <<still, order, todo>> /\ c \in subs /\ Idle
      BY <1>7, <2>3 DEF Unfollow
    <3>2. Ordered'
      BY <3>1 DEF Ordered
    <3> QED BY <1>6, <3>1, <3>2
  <2>2. CASE subs # {c} /\ found
    <3> DEFINE K == {h \in Pinnable : still[h] # {c}}
    <3>1. /\ Leaves(c) /\ order' = Within(order, K)
          /\ still' = [h \in Pinnable |-> still[h] \ {c}]
          /\ UNCHANGED todo /\ c \in subs /\ Idle
      BY <1>7, <2>2 DEF Unfollow
    <3>2. order \in Seq(Pinnable) /\ Len(order) < MaxHashes
      BY DEF Ordered
    <3>3. \A h \in Pinnable :
             still'[h] # {} <=> h \in K /\ \E i \in 1..Len(order) : order[i] = h
      <4> TAKE h \in Pinnable
      <4>1. still'[h] = still[h] \ {c}
        BY <3>1
      <4>2. still'[h] # {} <=> still[h] # {} /\ still[h] # {c}
        BY <4>1
      <4>3. still[h] # {} <=> \E i \in 1..Len(order) : order[i] = h
        BY DEF Ordered
      <4> QED BY <4>2, <4>3
    <3> HIDE DEF K
    <3>4. Ordered'
      BY <3>1, <3>2, <3>3, OrderedWithout
    <3> QED BY <1>6, <3>1, <3>4
  <2> QED BY <2>1, <2>2, <2>3
<1>8. ASSUME NEW c \in Subscriber, Close(c) PROVE Ordered' /\ Viewed'
  <2>1. CASE subs = {c}
    BY <1>5, <1>8, <2>1 DEF Close
  <2>2. CASE subs # {c}
    <3>1. Leaves(c) /\ UNCHANGED <<still, order, todo>> /\ c \in subs /\ Idle
      BY <1>8, <2>2 DEF Close
    <3>2. Ordered'
      BY <3>1 DEF Ordered
    <3> QED BY <1>6, <3>1, <3>2
  <2> QED BY <2>1, <2>2
<1>9. CASE End
  BY <1>5, <1>9 DEF End
<1>10. CASE Orphaned \/ UNCHANGED pinsVars
  <2>1. UNCHANGED <<subs, pins, nodeBlocks, views, history>>
    BY <1>10 DEF Orphaned, pinsVars
  <2>2. found' = FALSE \/ found' = found
    BY <1>10 DEF Orphaned, pinsVars
  <2>3. found' \in BOOLEAN
    BY <2>2 DEF Viewed
  <2> QED BY <2>1, <2>3 DEF pins, nodeBlocks, views, history, Ordered, Viewed
<1> QED BY <1>1, <1>2, <1>3, <1>4, <1>7, <1>8, <1>9, <1>10 DEF PinsNext

\* The Map of virtual unpins stays below its maximum and has exactly the blocks somebody
\* has to unpin yet; what it has and what it lost account for every block that lingers.
THEOREM EntriesSoundHolds == PinsSpec => []EntriesSound
<1>1. PinsInit => Ordered /\ Viewed
  <2> SUFFICES ASSUME PinsInit PROVE Ordered /\ Viewed
    OBVIOUS
  <2>1. Len(<<>>) = 0 /\ <<>> \in Seq(Pinnable) /\ 0 < MaxHashes
    BY PinnedAssumption
  <2>2. {<<>>[i] : i \in 1..0} = {} /\ {h \in Pinnable : still[h] # {}} = {}
    BY DEF PinsInit
  <2>3. Ordered
    BY <2>1, <2>2 DEF PinsInit, Ordered
  <2> QED BY <2>1, <2>3 DEF PinsInit, Viewed
<1>2. PinsInv /\ Ordered /\ Viewed /\ [PinsNext]_pinsVars => Ordered' /\ Viewed'
  BY NextOrder
<1>3. PinsInv /\ Ordered /\ Viewed => PinsTypeOK
  BY DEF PinsInv, PinsTyped, PinsTold, Ordered, Viewed, PinsTypeOK
<1> QED BY <1>1, <1>2, <1>3, PinsInvariance, LingersForSomeoneHolds, PTL DEF PinsSpec,
               EntriesSound
===============================================================================
