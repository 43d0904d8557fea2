------------------------------ MODULE CacheProofs ------------------------------
(* The linked list of util/cache/lru.ts implements a cache that evicts what was *)
(* used longest ago, for any keys and any size; and the safety of the operation  *)
(* cache that is kept in one.                                                 *)
EXTENDS LruCache, OperationCache, InductionLemmas, SequenceTheorems

\* The item at place i, or nothing.
At(s, i) == IF i \in 1..Len(s) THEN s[i] ELSE None

\* Links that lead from one item of s to the next one.
Chain(links, start, s) ==
  /\ s \in Seq(Key)
  /\ start = At(s, 1)
  /\ \A i \in 1..Len(s) : links[s[i]] = At(s, i + 1)

\* A sequence without repetition fits into the set of keys.
Distinct(s) == \A i, j \in 1..Len(s) : s[i] = s[j] => i = j
LEMMA DistinctFits ==
  ASSUME NEW s \in Seq(Key), Distinct(s)
  PROVE  /\ Cardinality({s[i] : i \in 1..Len(s)}) = Len(s)
         /\ Len(s) <= Cardinality(Key) /\ Cardinality(Key) \in Nat
<1> DEFINE n == Len(s)
           R == {s[i] : i \in 1..Len(s)}
           f == [i \in 1..n |-> s[i]]
<1>1. n \in Nat /\ IsFiniteSet(Key) /\ R \subseteq Key
  BY LruAssumption
<1>2. f \in Bijection(1..n, R)
  BY DEF Distinct, Bijection, Injection, Surjection, IsInjective
<1>3. IsFiniteSet(1..n) /\ Cardinality(1..n) = n
  <2>1. IsFiniteSet(1..n) /\ Cardinality(1..n) = IF 1 > n THEN 0 ELSE n - 1 + 1
    BY <1>1, FS_Interval
  <2> QED BY <1>1, <2>1
<1> HIDE DEF R, f, n
<1>4. Cardinality(R) = n
  BY <1>2, <1>3, FS_Bijection DEF ExistsBijection
<1>5. Cardinality(R) <= Cardinality(Key) /\ Cardinality(Key) \in Nat
  BY <1>1, FS_Subset, FS_CardinalityType
<1> QED BY <1>4, <1>5 DEF R, n

\* A walk along a chain without repetition meets its items.
LEMMA WalkIs ==
  ASSUME NEW links \in [Key -> Node], NEW start, NEW s,
         Chain(links, start, s), Distinct(s)
  PROVE  Walk(links, start) = s
<1> DEFINE N == Cardinality(Key)
           m == Len(s)
           on(w) == links[w[Len(w)]]
           more(w) == IF w = <<>> \/ on(w) = None THEN w ELSE Append(w, on(w))
           T == Seq(Key)
           first == IF start = None THEN <<>> ELSE <<start>>
           step == [a \in (1..N) \X T |-> more(a[2])]
           R(f) == f = [n \in 0..N |->
                          IF start = None THEN <<>>
                          ELSE IF n = 0 THEN <<start>>
                          ELSE IF on(f[n - 1]) = None THEN f[n - 1]
                          ELSE Append(f[n - 1], on(f[n - 1]))]
<1>1. s \in Seq(Key) /\ m \in Nat /\ N \in Nat /\ m <= N /\ None \notin Key
  <2>1. s \in Seq(Key)
    BY DEF Chain
  <2>2. m <= N /\ N \in Nat
    BY <2>1, DistinctFits
  <2> QED BY <2>1, <2>2, LruAssumption
<1>2. start \in Node /\ (start # None => start \in Key) /\ first \in T
  BY <1>1 DEF Chain, At, Node
<1>3. \A w \in T : more(w) \in T /\ (w = <<>> <=> more(w) = <<>>)
  <2> TAKE w \in T
  <2>1. CASE w = <<>>
    BY <2>1
  <2>2. CASE w # <<>>
    <3>1. Len(w) \in 1..Len(w) /\ w[Len(w)] \in Key
      BY <2>2
    <3>2. on(w) \in Node /\ (on(w) # None => on(w) \in Key)
      BY <3>1 DEF Node
    <3> HIDE DEF on
    <3> QED BY <2>2, <3>2
  <2> QED BY <2>1, <2>2
<1>4. PICK f \in [0..N -> T] : Recursive(f, N, first, step)
  <2>1. step \in [(1..N) \X T -> T]
    <3> HIDE DEF T, more
    <3> QED BY <1>3
  <2> HIDE DEF N, T, first, step
  <2> QED BY <1>1, <1>2, <2>1, Recursion
<1>5. \A n \in 0..N : f[n] = IF n = 0 THEN first ELSE more(f[n - 1])
  <2>1. ASSUME NEW n \in 0..N, n # 0 PROVE f[n] = more(f[n - 1])
    <3>1. <<n, f[n - 1]>> \in (1..N) \X T
      <4>1. n \in 1..N /\ f[n - 1] \in T
        <5> HIDE DEF T
        <5> QED BY <1>1, <2>1
      <4> HIDE DEF T
      <4> QED BY <4>1
    <3>2. step[<<n, f[n - 1]>>] = more(f[n - 1])
      <4> HIDE DEF T, more
      <4> QED BY <3>1
    <3> HIDE DEF step
    <3> QED BY <1>4, <2>1, <3>2 DEF Recursive
  <2>2. f[0] = first
    <3>1. 0 \in 0..N
      BY <1>1
    <3> HIDE DEF T, step, first, N
    <3> QED BY <1>4, <3>1 DEF Recursive
  <2> QED BY <2>1, <2>2
<1>6. R(f)
  <2> DEFINE B == {n \in 0..N : ~ (f[n] = <<>> <=> start = None)}
  <2>1. B = {}
    <3> SUFFICES ASSUME B # {} PROVE FALSE
      OBVIOUS
    <3>1. B \in SUBSET Nat
      OBVIOUS
    <3>2. PICK n \in B : \A j \in B : n <= j
      <4> HIDE DEF B
      <4> QED BY <3>1, LeastNumber
    <3>3. n # 0
      <4>1. f[0] = first
        <5>1. 0 \in 0..N
          BY <1>1
        <5> HIDE DEF first, more
        <5> QED BY <1>5, <5>1
      <4>2. first = <<>> <=> start = None
        OBVIOUS
      <4> QED BY <4>1, <4>2
    <3>4. n - 1 \in 0..N /\ n - 1 \notin B
      BY <1>1, <3>2, <3>3
    <3>5. f[n - 1] \in T /\ f[n] = more(f[n - 1])
      BY <1>5, <3>3, <3>4
    <3> HIDE DEF more, T
    <3> QED BY <1>3, <3>2, <3>4, <3>5
  <2>2. ASSUME NEW n \in 0..N
        PROVE  f[n] = IF start = None THEN <<>>
                      ELSE IF n = 0 THEN <<start>>
                      ELSE IF on(f[n - 1]) = None THEN f[n - 1]
                      ELSE Append(f[n - 1], on(f[n - 1]))
    <3>1. f[n] = <<>> <=> start = None
      BY <2>1
    <3>2. n # 0 => n - 1 \in 0..N /\ (f[n - 1] = <<>> <=> start = None)
      BY <1>1, <2>1
    <3> HIDE DEF on, B
    <3> QED BY <1>5, <3>1, <3>2
  <2> HIDE DEF on
  <2> QED BY <2>2
<1> DEFINE met == CHOOSE h : R(h)
<1>7. R(met)
  <2> HIDE DEF R
  <2> QED BY <1>6
<1>8. Walk(links, start) = met[N]
  BY DEF Walk
<1>9. \A n \in 0..N :
        met[n] = IF start = None THEN <<>>
                 ELSE IF n = 0 THEN <<start>>
                 ELSE IF on(met[n - 1]) = None THEN met[n - 1]
                 ELSE Append(met[n - 1], on(met[n - 1]))
  <2> HIDE DEF met, on
  <2> QED BY <1>7
<1> HIDE DEF met
<1>10. CASE start = None
  <2>1. m = 0
    BY <1>1, <1>10 DEF Chain, At
  <2>2. met[N] = <<>>
    BY <1>1, <1>9, <1>10
  <2> QED BY <1>1, <1>8, <2>1, <2>2
<1>11. CASE start # None
  <2>1. start = s[1] /\ 1 \in 1..m
    BY <1>11 DEF Chain, At
  <2> DEFINE so(n) == IF n < m THEN n + 1 ELSE m
             Q == {n \in 0..N : met[n] = SubSeq(s, 1, so(n))}
  <2>2. 0 \in Q
    <3>1. so(0) = 1
      BY <1>1, <2>1
    <3>2. SubSeq(s, 1, 1) = <<s[1]>>
      <4> DEFINE w == SubSeq(s, 1, 1)
      <4>1. w \in Seq(Key) /\ Len(w) = 1 /\ w[1] = s[1]
        BY <1>1, <2>1
      <4> HIDE DEF w
      <4>2. w = <<s[1]>>
        BY <4>1
      <4> QED BY <4>2 DEF w
    <3>3. met[0] = <<start>> /\ 0 \in 0..N
      <4>1. 0 \in 0..N
        BY <1>1
      <4> HIDE DEF on
      <4> QED BY <1>9, <1>11, <4>1
    <3> HIDE DEF so
    <3> QED BY <2>1, <3>1, <3>2, <3>3
  <2>3. ASSUME NEW n \in 0..(N - 1), n \in Q PROVE n + 1 \in Q
    <3> DEFINE w == met[n]
               q == so(n)
    <3>1. q \in 1..m
      BY <1>1, <2>1
    <3>2. w = SubSeq(s, 1, q)
      BY <2>3
    <3>3. Len(w) = q /\ w[q] = s[q]
      BY <1>1, <3>1, <3>2
    <3>4. on(w) = At(s, q + 1)
      BY <3>1, <3>3 DEF Chain
    <3>5. met[n + 1] = IF on(w) = None THEN w ELSE Append(w, on(w))
      <4>1. n + 1 \in 0..N /\ n + 1 # 0 /\ (n + 1) - 1 = n
        BY <1>1
      <4> HIDE DEF on
      <4> QED BY <1>9, <1>11, <4>1
    <3>6. CASE q < m
      <4>1. so(n + 1) = q + 1 /\ q + 1 \in 1..m
        BY <1>1, <2>1, <3>6
      <4>2. on(w) = s[q + 1] /\ on(w) # None
        BY <1>1, <3>4, <4>1 DEF At
      <4>3. SubSeq(s, 1, q + 1) = Append(SubSeq(s, 1, q), s[q + 1])
        BY <1>1, <3>1, <4>1
      <4>4. met[n + 1] = SubSeq(s, 1, so(n + 1))
        <5> HIDE DEF on, so
        <5> QED BY <3>2, <3>5, <4>1, <4>2, <4>3
      <4> HIDE DEF so
      <4> QED BY <1>1, <4>4
    <3>7. CASE q = m
      <4>1. so(n + 1) = q
        BY <1>1, <3>7
      <4>2. on(w) = None
        BY <1>1, <3>4, <3>7 DEF At
      <4> HIDE DEF on, so
      <4> QED BY <1>1, <3>2, <3>5, <4>1, <4>2
    <3> QED BY <1>1, <3>1, <3>6, <3>7
  <2>4. N \in Q
    <3> HIDE DEF Q, N
    <3>1. \A n \in 0..N : n \in Q
      BY <1>1, <2>2, <2>3, Induct
    <3> QED BY <1>1, <3>1
  <2>5. so(N) = m /\ SubSeq(s, 1, m) = s
    BY <1>1
  <2> HIDE DEF so
  <2> QED BY <1>8, <2>4, <2>5
<1> QED BY <1>10, <1>11

Links == [Key -> Node]
List == [map : SUBSET Key, head : Node, tail : Node, size : Int, prev : Links, next : Links]

\* What the assignments of each function leave in the fields of a list.
LEMMA LinkNextIs ==
  ASSUME NEW links \in Links, NEW k \in Node, NEW to \in Node
  PROVE  /\ LinkNext(links, k, to) \in Links
         /\ \A x \in Key : LinkNext(links, k, to)[x] = IF x = k THEN to ELSE links[x]
  BY LruAssumption DEF LinkNext, Links, Node

LEMMA AtHeadIs ==
  ASSUME NEW l \in List, NEW k \in Key, NEW a, a = AtHead(l, k)
  PROVE  /\ a \in List /\ a.map = l.map /\ a.size = l.size /\ a.head = k
         /\ a.tail = IF l.tail = None THEN k ELSE l.tail
         /\ \A x \in Key : a.next[x] = IF x = k THEN l.head ELSE l.next[x]
         /\ \A x \in Key : a.prev[x] = IF x = l.head THEN k
                                       ELSE IF x = k THEN None ELSE l.prev[x]
<1> DEFINE reset == [l.prev EXCEPT ![k] = None]
           prev == LinkNext(reset, l.head, k)
           next == [l.next EXCEPT ![k] = l.head]
           tail == IF l.tail = None THEN k ELSE l.tail
<1>1. /\ l.prev \in Links /\ l.next \in Links /\ l.head \in Node /\ l.tail \in Node
      /\ k \in Node /\ None \in Node /\ l.map \in SUBSET Key /\ l.size \in Int
  BY DEF List, Node
<1>2. reset \in Links /\ \A x \in Key : reset[x] = IF x = k THEN None ELSE l.prev[x]
  BY <1>1 DEF Links
<1>3. /\ prev \in Links
      /\ \A x \in Key : prev[x] = IF x = l.head THEN k
                                  ELSE IF x = k THEN None ELSE l.prev[x]
  <2>1. reset \in Links /\ l.head \in Node /\ k \in Node
    BY <1>1, <1>2
  <2> HIDE DEF reset
  <2>2. /\ prev \in Links
        /\ \A x \in Key : prev[x] = IF x = l.head THEN k ELSE reset[x]
    BY ONLY <2>1, LinkNextIs
  <2> HIDE DEF prev
  <2> QED BY <1>2, <2>2
<1>4. next \in Links /\ \A x \in Key : next[x] = IF x = k THEN l.head ELSE l.next[x]
  BY <1>1 DEF Links
<1>5. a = [map |-> l.map, head |-> k, tail |-> tail, size |-> l.size,
           prev |-> prev, next |-> next]
  BY DEF AtHead, List
<1> HIDE DEF prev, next, reset
<1> QED BY <1>1, <1>3, <1>4, <1>5 DEF List

LEMMA UnlinkedIs ==
  ASSUME NEW l \in List, NEW k \in Key, NEW a, a = Unlinked(l, k)
  PROVE  /\ a \in List /\ a.map = l.map /\ a.size = l.size
         /\ a.head = l.head /\ a.tail = l.tail
         /\ \A x \in Key : a.next[x] = IF x = l.prev[k] THEN l.next[k] ELSE l.next[x]
         /\ \A x \in Key : a.prev[x] = IF x = l.next[k] THEN l.prev[k] ELSE l.prev[x]
<1> DEFINE next == LinkNext(l.next, l.prev[k], l.next[k])
           prev == LinkNext(l.prev, l.next[k], l.prev[k])
<1>1. l.prev \in Links /\ l.next \in Links /\ l.prev[k] \in Node /\ l.next[k] \in Node
  BY DEF List, Links
<1>2. next \in Links /\ \A x \in Key : next[x] = IF x = l.prev[k] THEN l.next[k] ELSE l.next[x]
  <2>1. l.next \in Links /\ l.prev[k] \in Node /\ l.next[k] \in Node
    BY <1>1
  <2> QED BY ONLY <2>1, LinkNextIs
<1>3. prev \in Links /\ \A x \in Key : prev[x] = IF x = l.next[k] THEN l.prev[k] ELSE l.prev[x]
  <2>1. l.prev \in Links /\ l.next[k] \in Node /\ l.prev[k] \in Node
    BY <1>1
  <2> QED BY ONLY <2>1, LinkNextIs
<1>4. a = [map |-> l.map, head |-> l.head, tail |-> l.tail, size |-> l.size,
           prev |-> prev, next |-> next]
  BY DEF Unlinked, List
<1> HIDE DEF prev, next
<1> QED BY <1>2, <1>3, <1>4 DEF List

LEMMA RemoveTailIs ==
  ASSUME NEW l \in List, l.tail # None, NEW a, a = RemoveTail(l)
  PROVE  /\ a \in List /\ a.map = l.map \ {l.tail} /\ a.size = l.size - 1
         /\ a.tail = l.prev[l.tail]
         /\ a.head = IF l.prev[l.tail] = None THEN None ELSE l.head
         /\ \A x \in Key : a.next[x] = IF x = l.prev[l.tail] THEN None ELSE l.next[x]
         /\ \A x \in Key : a.prev[x] = IF x = l.tail THEN None ELSE l.prev[x]
<1> DEFINE p == l.prev[l.tail]
           next == LinkNext(l.next, p, None)
           prev == [l.prev EXCEPT ![l.tail] = None]
           head == IF p = None THEN None ELSE l.head
<1>1. /\ l.prev \in Links /\ l.next \in Links /\ l.tail \in Key /\ p \in Node
      /\ None \in Node /\ l.head \in Node /\ l.size \in Int /\ l.map \in SUBSET Key
  BY DEF List, Links, Node
<1>2. next \in Links /\ \A x \in Key : next[x] = IF x = p THEN None ELSE l.next[x]
  <2>1. l.next \in Links /\ p \in Node /\ None \in Node
    BY <1>1
  <2> HIDE DEF p
  <2> QED BY ONLY <2>1, LinkNextIs
<1>3. prev \in Links /\ \A x \in Key : prev[x] = IF x = l.tail THEN None ELSE l.prev[x]
  BY <1>1 DEF Links
<1>4. a = [map |-> l.map \ {l.tail}, head |-> head, tail |-> p, size |-> l.size - 1,
           prev |-> prev, next |-> next]
  BY DEF RemoveTail, List
<1> HIDE DEF prev, next
<1> QED BY <1>1, <1>2, <1>3, <1>4 DEF List

\* remove() of a key in the map.
Removed(l, k) ==
  [Unlinked(l, k) EXCEPT !.head = IF @ = k THEN l.next[k] ELSE @,
                         !.tail = IF @ = k THEN l.prev[k] ELSE @,
                         !.prev[k] = None, !.next[k] = None,
                         !.map = @ \ {k},
                         !.size = @ - 1]
LEMMA RemovedIs ==
  ASSUME NEW l \in List, NEW k \in Key, NEW a, a = Removed(l, k)
  PROVE  /\ a \in List /\ a.map = l.map \ {k} /\ a.size = l.size - 1
         /\ a.head = IF l.head = k THEN l.next[k] ELSE l.head
         /\ a.tail = IF l.tail = k THEN l.prev[k] ELSE l.tail
         /\ \A x \in Key : a.next[x] = IF x = k THEN None
                                       ELSE IF x = l.prev[k] THEN l.next[k] ELSE l.next[x]
         /\ \A x \in Key : a.prev[x] = IF x = k THEN None
                                       ELSE IF x = l.next[k] THEN l.prev[k] ELSE l.prev[x]
<1>1. PICK u : u = Unlinked(l, k)
  OBVIOUS
<1>2. /\ u \in List /\ u.map = l.map /\ u.size = l.size
      /\ u.head = l.head /\ u.tail = l.tail
      /\ \A x \in Key : u.next[x] = IF x = l.prev[k] THEN l.next[k] ELSE l.next[x]
      /\ \A x \in Key : u.prev[x] = IF x = l.next[k] THEN l.prev[k] ELSE l.prev[x]
  BY <1>1, UnlinkedIs
<1> DEFINE next == [u.next EXCEPT ![k] = None]
           prev == [u.prev EXCEPT ![k] = None]
           head == IF u.head = k THEN l.next[k] ELSE u.head
           tail == IF u.tail = k THEN l.prev[k] ELSE u.tail
<1>3. /\ u.prev \in Links /\ u.next \in Links /\ None \in Node
      /\ head \in Node /\ tail \in Node
  BY <1>2 DEF List, Links, Node
<1>4. next \in Links /\ \A x \in Key : next[x] = IF x = k THEN None ELSE u.next[x]
  BY <1>3 DEF Links
<1>5. prev \in Links /\ \A x \in Key : prev[x] = IF x = k THEN None ELSE u.prev[x]
  BY <1>3 DEF Links
<1>6. a = [map |-> u.map \ {k}, head |-> head, tail |-> tail, size |-> u.size - 1,
           prev |-> prev, next |-> next]
  BY <1>1, <1>2 DEF Removed, List
<1>7. u.map \ {k} \in SUBSET Key /\ u.size - 1 \in Int
  BY <1>2 DEF List
<1> HIDE DEF prev, next
<1> QED BY <1>2, <1>3, <1>4, <1>5, <1>6, <1>7 DEF List

\* The list holds the items of s in this order.
Linked(l, s) ==
  /\ l \in List /\ s \in Seq(Key) /\ Distinct(s)
  /\ l.map = {s[i] : i \in 1..Len(s)} /\ l.size = Len(s)
  /\ l.head = At(s, 1) /\ l.tail = At(s, Len(s))
  /\ \A i \in 1..Len(s) : l.next[s[i]] = At(s, i + 1) /\ l.prev[s[i]] = At(s, i - 1)

\* One more item in front.
Pushed(s, k) == [i \in 1..(Len(s) + 1) |-> IF i = 1 THEN k ELSE s[i - 1]]
LEMMA PushedLinked ==
  ASSUME NEW l, NEW s, Linked(l, s), NEW k \in Key, k \notin l.map,
         NEW a, a = [AtHead(l, k) EXCEPT !.map = @ \cup {k}, !.size = @ + 1]
  PROVE  Linked(a, Pushed(s, k))
<1> DEFINE n == Len(s)
           t == Pushed(s, k)
<1>1. PICK h : h = AtHead(l, k)
  OBVIOUS
<1>2. l \in List /\ s \in Seq(Key) /\ n \in Nat /\ None \notin Key
  BY LruAssumption DEF Linked
<1>3. /\ h \in List /\ h.map = l.map /\ h.size = l.size /\ h.head = k
      /\ h.tail = IF l.tail = None THEN k ELSE l.tail
      /\ \A x \in Key : h.next[x] = IF x = k THEN l.head ELSE l.next[x]
      /\ \A x \in Key : h.prev[x] = IF x = l.head THEN k
                                    ELSE IF x = k THEN None ELSE l.prev[x]
  BY <1>1, <1>2, AtHeadIs
<1>4. /\ a \in List /\ a.map = l.map \cup {k} /\ a.size = l.size + 1
      /\ a.head = h.head /\ a.tail = h.tail /\ a.next = h.next /\ a.prev = h.prev
  <2>1. a = [map |-> h.map \cup {k}, head |-> h.head, tail |-> h.tail,
             size |-> h.size + 1, prev |-> h.prev, next |-> h.next]
    BY <1>1, <1>3 DEF List
  <2>2. h.map \cup {k} \in SUBSET Key /\ h.size + 1 \in Int
    BY <1>3 DEF List
  <2>3. /\ h.head \in Node /\ h.tail \in Node /\ h.prev \in Links /\ h.next \in Links
        /\ h.map = l.map /\ h.size = l.size
    BY <1>3 DEF List
  <2> QED BY ONLY <2>1, <2>2, <2>3 DEF List
<1>5. /\ t \in Seq(Key) /\ Len(t) = n + 1 /\ t[1] = k
      /\ \A i \in 1..n : t[i + 1] = s[i] /\ s[i] \in Key /\ s[i] # k
  <2>1. \A i \in 1..n : s[i] \in Key /\ s[i] # k
    BY <1>2 DEF Linked
  <2> QED BY <1>2, <2>1 DEF Pushed
<1> HIDE DEF t
<1>6. \A i \in 1..(n + 1) : i = 1 \/ \E j \in 1..n : i = j + 1
  <2> TAKE i \in 1..(n + 1)
  <2>1. i # 1 => i - 1 \in 1..n /\ i = (i - 1) + 1
    BY <1>2
  <2> QED BY <2>1
<1>7. Distinct(t)
  <2> SUFFICES ASSUME NEW i \in 1..(n + 1), NEW j \in 1..(n + 1), t[i] = t[j] PROVE i = j
    BY <1>5 DEF Distinct
  <2>1. CASE i = 1
    BY <1>5, <1>6, <2>1
  <2>2. CASE j = 1
    BY <1>5, <1>6, <2>2
  <2>3. CASE i # 1 /\ j # 1
    <3>1. PICK p \in 1..n, q \in 1..n : i = p + 1 /\ j = q + 1
      BY <1>6, <2>3
    <3>2. s[p] = s[q]
      BY <1>5, <3>1
    <3> QED BY <3>1, <3>2 DEF Linked, Distinct
  <2> QED BY <2>1, <2>2, <2>3
<1>8. a.map = {t[i] : i \in 1..Len(t)}
  <2>1. 1 \in 1..(n + 1) /\ \A j \in 1..n : j + 1 \in 1..(n + 1)
    BY <1>2
  <2>2. l.map = {s[i] : i \in 1..n}
    BY DEF Linked
  <2>3. \A x : x \in a.map <=> \E i \in 1..(n + 1) : t[i] = x
    <3> TAKE x
    <3>1. ASSUME x \in a.map PROVE \E i \in 1..(n + 1) : t[i] = x
      <4>1. x = k \/ \E j \in 1..n : x = s[j]
        BY <1>4, <2>2, <3>1
      <4> QED BY <1>5, <2>1, <4>1
    <3>2. ASSUME NEW i \in 1..(n + 1), t[i] = x PROVE x \in a.map
      <4>1. CASE i = 1
        BY <1>4, <1>5, <3>2, <4>1
      <4>2. CASE i # 1
        <5>1. PICK j \in 1..n : i = j + 1
          BY <1>6, <4>2
        <5> QED BY <1>4, <1>5, <2>2, <3>2, <5>1
      <4> QED BY <4>1, <4>2
    <3> QED BY <3>1, <3>2
  <2> QED BY <1>5, <2>3
<1>9. a.size = Len(t) /\ a.head = At(t, 1) /\ a.tail = At(t, Len(t))
  <2>1. a.size = Len(t) /\ a.head = At(t, 1)
    BY <1>2, <1>3, <1>4, <1>5 DEF At, Linked
  <2>2. CASE n = 0
    BY <1>2, <1>3, <1>4, <1>5, <2>2 DEF At, Linked
  <2>3. CASE n # 0
    <3>1. n \in 1..n /\ n + 1 \in 1..(n + 1)
      BY <1>2, <2>3
    <3>2. l.tail = s[n] /\ t[n + 1] = s[n] /\ s[n] # None
      BY <1>2, <1>5, <3>1 DEF Linked, At
    <3> QED BY <1>3, <1>4, <1>5, <2>1, <3>1, <3>2 DEF At
  <2> QED BY <2>1, <2>2, <2>3
<1>10. a.next[t[1]] = At(t, 2) /\ a.prev[t[1]] = At(t, 0)
  <2>1. a.next[k] = At(s, 1) /\ l.head = At(s, 1)
    BY <1>3, <1>4 DEF Linked
  <2>2. At(t, 2) = At(s, 1)
    BY <1>2, <1>5 DEF At
  <2>3. At(t, 0) = None /\ k # l.head
    BY <1>2, <1>5 DEF At, Linked
  <2> QED BY <1>3, <1>4, <1>5, <2>1, <2>2, <2>3
<1>11. ASSUME NEW j \in 1..n
       PROVE  a.next[t[j + 1]] = At(t, (j + 1) + 1) /\ a.prev[t[j + 1]] = At(t, (j + 1) - 1)
  <2>1. t[j + 1] = s[j] /\ s[j] \in Key /\ s[j] # k
    BY <1>5
  <2>2. a.next[s[j]] = At(s, j + 1)
    BY <1>3, <1>4, <2>1 DEF Linked
  <2>3. At(t, (j + 1) + 1) = At(s, j + 1)
    BY <1>2, <1>5 DEF At
  <2>4. a.prev[s[j]] = IF j = 1 THEN k ELSE At(s, j - 1)
    <3>1. 1 \in 1..n /\ l.head = s[1] /\ (s[j] = s[1] <=> j = 1)
      BY <1>2 DEF Linked, Distinct, At
    <3>2. l.prev[s[j]] = At(s, j - 1)
      BY DEF Linked
    <3> QED BY <1>3, <1>4, <2>1, <3>1, <3>2
  <2>5. At(t, (j + 1) - 1) = IF j = 1 THEN k ELSE At(s, j - 1)
    <3>1. (j + 1) - 1 = j /\ j \in 1..(n + 1) /\ (j # 1 => j - 1 \in 1..n /\ (j - 1) + 1 = j)
      BY <1>2
    <3> QED BY <1>5, <3>1 DEF At
  <2> QED BY <2>1, <2>2, <2>3, <2>4, <2>5
<1>12. ASSUME NEW i \in 1..Len(t)
       PROVE  a.next[t[i]] = At(t, i + 1) /\ a.prev[t[i]] = At(t, i - 1)
  <2>1. i \in 1..(n + 1)
    BY <1>5
  <2>2. CASE i = 1
    BY <1>10, <2>2
  <2>3. CASE i # 1
    BY <1>6, <1>11, <2>1, <2>3
  <2> QED BY <2>2, <2>3
<1>13. Linked(a, t)
  BY <1>4, <1>5, <1>7, <1>8, <1>9, <1>12 DEF Linked
<1> QED BY <1>13 DEF t

\* The last item goes.
LEMMA LastLinked ==
  ASSUME NEW l, NEW s, Linked(l, s), Len(s) > 0,
         NEW a, a = RemoveTail(l)
  PROVE  Linked(a, SubSeq(s, 1, Len(s) - 1))
<1> DEFINE n == Len(s)
           t == SubSeq(s, 1, n - 1)
<1>1. l \in List /\ s \in Seq(Key) /\ n \in Nat /\ n > 0 /\ n \in 1..n /\ None \notin Key
  BY LruAssumption DEF Linked
<1>2. l.tail = s[n] /\ s[n] \in Key /\ l.tail # None
  BY <1>1 DEF Linked, At
<1>3. l.prev[l.tail] = At(s, n - 1)
  BY <1>1, <1>2 DEF Linked
<1>4. /\ a \in List /\ a.map = l.map \ {s[n]} /\ a.size = n - 1
      /\ a.tail = At(s, n - 1)
      /\ a.head = IF At(s, n - 1) = None THEN None ELSE l.head
      /\ \A x \in Key : a.next[x] = IF x = At(s, n - 1) THEN None ELSE l.next[x]
      /\ \A x \in Key : a.prev[x] = IF x = s[n] THEN None ELSE l.prev[x]
  <2>1. l.size = n
    BY DEF Linked
  <2> HIDE DEF n
  <2> QED BY <1>1, <1>2, <1>3, <2>1, RemoveTailIs
<1>5. t \in Seq(Key) /\ Len(t) = n - 1 /\ \A i \in 1..(n - 1) : t[i] = s[i] /\ i \in 1..n
  <2>1. 1 \in Int /\ n - 1 \in Int /\ \A i \in 1..(n - 1) : s[i] \in Key /\ i \in 1..n
    BY <1>1
  <2>2. /\ t \in Seq(Key)
        /\ Len(t) = IF 1 <= n - 1 THEN (n - 1) - 1 + 1 ELSE 0
        /\ \A i \in 1..((n - 1) - 1 + 1) : t[i] = s[1 + i - 1]
    <3> HIDE DEF n
    <3> QED BY <2>1, SubSeqProperties
  <2>3. Len(t) = n - 1
    <3> HIDE DEF n, t
    <3> QED BY <1>1, <2>2
  <2>4. \A i \in 1..(n - 1) : i \in 1..((n - 1) - 1 + 1) /\ 1 + i - 1 = i
    BY <1>1
  <2> QED BY <2>1, <2>2, <2>3, <2>4
<1> HIDE DEF t
<1>6. Distinct(t)
  BY <1>1, <1>5 DEF Distinct, Linked
<1>7. a.map = {t[i] : i \in 1..Len(t)}
  <2>1. \A i \in 1..n : i = n \/ i \in 1..(n - 1)
    BY <1>1
  <2>2. \A i \in 1..(n - 1) : i \in 1..n /\ i # n /\ s[i] # s[n]
    BY <1>1 DEF Linked, Distinct
  <2>3. l.map = {s[i] : i \in 1..n}
    BY DEF Linked
  <2>4. \A x : x \in a.map <=> \E i \in 1..(n - 1) : t[i] = x
    <3> TAKE x
    <3>1. ASSUME x \in a.map PROVE \E i \in 1..(n - 1) : t[i] = x
      <4>1. PICK i \in 1..n : x = s[i] /\ i # n
        BY <1>4, <2>3, <3>1
      <4> QED BY <1>5, <2>1, <4>1
    <3>2. ASSUME NEW i \in 1..(n - 1), t[i] = x PROVE x \in a.map
      <4>1. i \in 1..n /\ s[i] = x /\ s[i] # s[n]
        BY <1>5, <2>2, <3>2
      <4> QED BY <1>4, <2>3, <4>1
    <3> QED BY <3>1, <3>2
  <2> QED BY <1>5, <2>4
<1>8. a.size = Len(t) /\ a.tail = At(t, Len(t)) /\ a.head = At(t, 1)
  <2>1. At(s, n - 1) = At(t, n - 1)
    BY <1>1, <1>5 DEF At
  <2>2. CASE n = 1
    BY <1>1, <1>4, <1>5, <2>1, <2>2 DEF At
  <2>3. CASE n # 1
    <3>1. n - 1 \in 1..n /\ 1 \in 1..(n - 1) /\ 1 \in 1..n
      <4> HIDE DEF n
      <4> QED BY <1>1, <2>3
    <3>2. At(s, n - 1) # None /\ l.head = s[1] /\ t[1] = s[1]
      BY <1>1, <1>5, <3>1 DEF At, Linked
    <3> QED BY <1>4, <1>5, <2>1, <3>1, <3>2 DEF At
  <2> QED BY <2>2, <2>3
<1>9. ASSUME NEW i \in 1..(n - 1)
      PROVE  a.next[t[i]] = At(t, i + 1) /\ a.prev[t[i]] = At(t, i - 1)
  <2>1. /\ t[i] = s[i] /\ i \in 1..n /\ s[i] \in Key
        /\ l.next[s[i]] = At(s, i + 1) /\ l.prev[s[i]] = At(s, i - 1)
    BY <1>1, <1>5 DEF Linked
  <2>2. s[i] # s[n]
    BY <1>1, <2>1 DEF Linked, Distinct
  <2>3. At(t, i - 1) = At(s, i - 1)
    BY <1>1, <1>5 DEF At
  <2>4. CASE i = n - 1
    <3>1. s[i] = At(s, n - 1) /\ At(t, i + 1) = None
      BY <1>1, <1>5, <2>1, <2>4 DEF At
    <3> QED BY <1>4, <2>1, <2>2, <2>3, <3>1
  <2>5. CASE i # n - 1
    <3>1. i + 1 \in 1..(n - 1) /\ n - 1 \in 1..n /\ i + 1 \in 1..n
      BY <1>1, <2>5
    <3>2. s[i] # At(s, n - 1) /\ At(t, i + 1) = At(s, i + 1)
      BY <1>1, <1>5, <2>1, <2>5, <3>1 DEF At, Linked, Distinct
    <3> QED BY <1>4, <2>1, <2>2, <2>3, <3>2
  <2> QED BY <2>4, <2>5
<1>10. Linked(a, t)
  BY <1>4, <1>5, <1>6, <1>7, <1>8, <1>9 DEF Linked
<1> QED BY <1>10 DEF t

\* The item at place p goes.
LEMMA DroppedLinked ==
  ASSUME NEW l, NEW s, Linked(l, s), NEW p \in 1..Len(s),
         NEW a, a = Removed(l, s[p])
  PROVE  Linked(a, Skipped(s, p))
<1> DEFINE n == Len(s)
           t == Skipped(s, p)
           k == s[p]
<1>1. l \in List /\ s \in Seq(Key) /\ n \in Nat /\ None \notin Key /\ p \in 1..n
  BY LruAssumption DEF Linked
<1>2. \A i \in 1..n : s[i] \in Key /\ s[i] # None /\ (s[i] = k <=> i = p)
  BY <1>1 DEF Linked, Distinct
<1>3. l.prev[k] = At(s, p - 1) /\ l.next[k] = At(s, p + 1)
  BY <1>1 DEF Linked
<1>4. /\ a \in List /\ a.map = l.map \ {k} /\ a.size = n - 1
      /\ a.head = IF l.head = k THEN At(s, p + 1) ELSE l.head
      /\ a.tail = IF l.tail = k THEN At(s, p - 1) ELSE l.tail
      /\ \A x \in Key : x # k =>
           /\ a.next[x] = IF x = At(s, p - 1) THEN At(s, p + 1) ELSE l.next[x]
           /\ a.prev[x] = IF x = At(s, p + 1) THEN At(s, p - 1) ELSE l.prev[x]
  <2>1. l.size = n /\ k \in Key /\ l \in List /\ a = Removed(l, k)
    BY <1>1, <1>2 DEF Linked
  <2> HIDE DEF n, k
  <2>2. /\ a \in List /\ a.map = l.map \ {k} /\ a.size = l.size - 1
        /\ a.head = IF l.head = k THEN l.next[k] ELSE l.head
        /\ a.tail = IF l.tail = k THEN l.prev[k] ELSE l.tail
        /\ \A x \in Key : a.next[x] = IF x = k THEN None
                                      ELSE IF x = l.prev[k] THEN l.next[k] ELSE l.next[x]
        /\ \A x \in Key : a.prev[x] = IF x = k THEN None
                                      ELSE IF x = l.next[k] THEN l.prev[k] ELSE l.prev[x]
    BY ONLY <2>1, RemovedIs
  <2> QED BY <1>3, <2>1, <2>2
<1>5. t \in Seq(Key) /\ Len(t) = n - 1
      /\ \A i \in 1..(n - 1) : t[i] = IF i < p THEN s[i] ELSE s[i + 1]
  <2>1. \A i \in 1..(n - 1) : s[i] \in Key /\ s[i + 1] \in Key
    BY <1>1
  <2> QED BY <1>1, <2>1 DEF Skipped
<1> HIDE DEF t
<1>6. \A i \in Nat : At(t, i) = IF i < p THEN At(s, i) ELSE At(s, i + 1)
  <2> TAKE i \in Nat
  <2>1. CASE i < p
    <3>1. i \in 1..(n - 1) <=> i \in 1..n
      BY <1>1, <2>1
    <3> QED BY <1>5, <2>1, <3>1 DEF At
  <2>2. CASE ~ (i < p)
    <3>1. i \in 1..(n - 1) <=> i + 1 \in 1..n
      BY <1>1, <2>2
    <3> QED BY <1>5, <2>2, <3>1 DEF At
  <2> QED BY <2>1, <2>2
<1>7. \A i, j \in 1..n : s[i] = s[j] => i = j
  BY DEF Linked, Distinct
<1>8. Distinct(t)
  <2> SUFFICES ASSUME NEW i \in 1..(n - 1), NEW j \in 1..(n - 1), t[i] = t[j] PROVE i = j
    BY <1>5 DEF Distinct
  <2>1. i \in 1..n /\ j \in 1..n /\ i + 1 \in 1..n /\ j + 1 \in 1..n
    BY <1>1
  <2>2. CASE i < p /\ j < p
    BY <1>5, <1>7, <2>1, <2>2
  <2>3. CASE i < p /\ ~ (j < p)
    <3>1. i = j + 1
      BY <1>5, <1>7, <2>1, <2>3
    <3> QED BY <1>1, <2>3, <3>1
  <2>4. CASE ~ (i < p) /\ j < p
    <3>1. i + 1 = j
      BY <1>5, <1>7, <2>1, <2>4
    <3> QED BY <1>1, <2>4, <3>1
  <2>5. CASE ~ (i < p) /\ ~ (j < p)
    <3>1. i + 1 = j + 1
      BY <1>5, <1>7, <2>1, <2>5
    <3> QED BY <3>1
  <2> QED BY <2>2, <2>3, <2>4, <2>5
<1>9. a.map = {t[i] : i \in 1..Len(t)}
  <2>1. l.map = {s[i] : i \in 1..n}
    BY DEF Linked
  <2>2. ASSUME NEW i \in 1..n, i # p PROVE \E j \in 1..(n - 1) : t[j] = s[i]
    <3>1. CASE i < p
      <4>1. i \in 1..(n - 1)
        BY <1>1, <3>1
      <4> QED BY <1>5, <3>1, <4>1
    <3>2. CASE ~ (i < p)
      <4>1. i - 1 \in 1..(n - 1) /\ ~ (i - 1 < p) /\ (i - 1) + 1 = i
        BY <1>1, <2>2, <3>2
      <4>2. t[i - 1] = s[i]
        BY <1>5, <4>1
      <4> QED BY <4>1, <4>2
    <3> QED BY <3>1, <3>2
  <2>3. ASSUME NEW j \in 1..(n - 1) PROVE \E i \in 1..n : i # p /\ t[j] = s[i]
    <3>1. j \in 1..n /\ j + 1 \in 1..n
      BY <1>1
    <3>2. CASE j < p
      BY <1>1, <1>5, <3>1, <3>2
    <3>3. CASE ~ (j < p)
      <4>1. j + 1 # p
        BY <1>1, <3>3
      <4> QED BY <1>5, <3>1, <3>3, <4>1
    <3> QED BY <3>2, <3>3
  <2>4. \A x : x \in a.map <=> \E i \in 1..n : i # p /\ x = s[i]
    BY <1>2, <1>4, <2>1
  <2>5. \A x : x \in a.map <=> \E j \in 1..(n - 1) : t[j] = x
    <3> TAKE x
    <3>1. ASSUME NEW i \in 1..n, i # p, x = s[i] PROVE \E j \in 1..(n - 1) : t[j] = x
      BY <2>2, <3>1
    <3>2. ASSUME NEW j \in 1..(n - 1), t[j] = x PROVE \E i \in 1..n : i # p /\ x = s[i]
      BY <2>3, <3>2
    <3> QED BY <2>4, <3>1, <3>2
  <2> QED BY <1>5, <2>5
<1>10. a.size = Len(t) /\ a.head = At(t, 1) /\ a.tail = At(t, Len(t))
  <2>1. l.head = s[1] /\ l.tail = s[n] /\ 1 \in 1..n /\ n \in 1..n
    BY <1>1 DEF Linked, At
  <2>2. a.head = At(t, 1)
    <3>1. CASE p = 1
      <4>1. l.head = k /\ At(t, 1) = At(s, 2)
        BY <1>6, <2>1, <3>1
      <4> QED BY <1>4, <3>1, <4>1
    <3>2. CASE p # 1
      <4>1. l.head # k /\ At(t, 1) = At(s, 1)
        BY <1>1, <1>2, <1>6, <2>1, <3>2
      <4> QED BY <1>4, <2>1, <4>1 DEF At
    <3> QED BY <3>1, <3>2
  <2>3. a.tail = At(t, n - 1)
    <3>0. n - 1 \in Nat
      BY <1>1, <2>1
    <3>1. CASE p = n
      <4>1. l.tail = k /\ n - 1 < p
        BY <1>1, <2>1, <3>1
      <4>2. At(t, n - 1) = At(s, n - 1)
        BY <1>6, <3>0, <4>1
      <4> QED BY <1>4, <3>1, <4>1, <4>2
    <3>2. CASE p # n
      <4>1. l.tail # k /\ ~ (n - 1 < p) /\ (n - 1) + 1 = n
        BY <1>1, <1>2, <2>1, <3>2
      <4>2. At(t, n - 1) = At(s, n)
        BY <1>6, <3>0, <4>1
      <4> QED BY <1>4, <2>1, <4>1, <4>2 DEF At
    <3> QED BY <3>1, <3>2
  <2> QED BY <1>4, <1>5, <2>2, <2>3
<1>11. ASSUME NEW i \in 1..(n - 1)
       PROVE  a.next[t[i]] = At(t, i + 1) /\ a.prev[t[i]] = At(t, i - 1)
  <2>1. /\ i \in 1..n /\ i + 1 \in 1..n /\ i + 1 \in Nat /\ i - 1 \in Nat
        /\ (i + 1) + 1 = i + 2 /\ (i - 1) + 1 = i /\ (i + 1) - 1 = i
    BY <1>1
  <2>2. CASE i < p
    <3>1. /\ t[i] = s[i] /\ s[i] \in Key /\ s[i] # k
          /\ l.next[s[i]] = At(s, i + 1) /\ l.prev[s[i]] = At(s, i - 1)
      <4>1. t[i] = s[i] /\ i # p
        BY <1>1, <1>5, <2>2
      <4> QED BY <1>2, <2>1, <4>1 DEF Linked
    <3>2. s[i] # At(s, p + 1) /\ (s[i] = At(s, p - 1) <=> i = p - 1)
      BY <1>1, <1>2, <1>7, <2>1, <2>2 DEF At
    <3>3. At(t, i - 1) = At(s, i - 1)
      BY <1>1, <1>6, <2>1, <2>2
    <3>4. CASE i = p - 1
      <4>1. ~ (i + 1 < p) /\ (i + 1) + 1 = p + 1
        BY <1>1, <3>4
      <4>2. At(t, i + 1) = At(s, p + 1)
        BY <1>6, <2>1, <4>1
      <4> QED BY <1>4, <3>1, <3>2, <3>3, <3>4, <4>2
    <3>5. CASE i # p - 1
      <4>1. i + 1 < p
        BY <1>1, <2>2, <3>5
      <4>2. At(t, i + 1) = At(s, i + 1)
        BY <1>6, <2>1, <4>1
      <4> QED BY <1>4, <3>1, <3>2, <3>3, <3>5, <4>2
    <3> QED BY <3>4, <3>5
  <2>3. CASE ~ (i < p)
    <3>1. /\ t[i] = s[i + 1] /\ s[i + 1] \in Key /\ s[i + 1] # k
          /\ l.next[s[i + 1]] = At(s, i + 2) /\ l.prev[s[i + 1]] = At(s, i)
      <4>1. i + 1 # p
        BY <1>1, <2>3
      <4> QED BY <1>1, <1>2, <1>5, <2>1, <2>3, <4>1 DEF Linked
    <3>2. s[i + 1] # At(s, p - 1) /\ (s[i + 1] = At(s, p + 1) <=> i = p)
      BY <1>1, <1>2, <1>7, <2>1, <2>3 DEF At
    <3>3. At(t, i + 1) = At(s, i + 2)
      <4>1. ~ (i + 1 < p)
        BY <1>1, <2>3
      <4> QED BY <1>6, <2>1, <4>1
    <3>4. CASE i = p
      <4>1. At(t, i - 1) = At(s, p - 1)
        BY <1>1, <1>6, <2>1, <3>4
      <4> QED BY <1>4, <3>1, <3>2, <3>3, <3>4, <4>1
    <3>5. CASE i # p
      <4>1. ~ (i - 1 < p)
        BY <1>1, <2>3, <3>5
      <4>2. At(t, i - 1) = At(s, i)
        BY <1>6, <2>1, <4>1
      <4> QED BY <1>4, <3>1, <3>2, <3>3, <3>5, <4>2
    <3> QED BY <3>4, <3>5
  <2> QED BY <2>2, <2>3
<1>12. Linked(a, t)
  BY <1>4, <1>5, <1>8, <1>9, <1>10, <1>11 DEF Linked
<1> QED BY <1>12 DEF t

\* A list is its fields.
LEMMA ListEqual ==
  ASSUME NEW a \in List, NEW b \in List, a.map = b.map, a.head = b.head, a.tail = b.tail,
         a.size = b.size, \A x \in Key : a.next[x] = b.next[x] /\ a.prev[x] = b.prev[x]
  PROVE  a = b
<1>1. a.next = b.next /\ a.prev = b.prev
  BY DEF List, Links
<1> QED BY <1>1 DEF List

\* Moving an item to the head is taking it out and putting it in front.
LEMMA MovedLinked ==
  ASSUME NEW l, NEW s, Linked(l, s), NEW p \in 1..Len(s),
         NEW a, a = MoveToHead(l, s[p])
  PROVE  Linked(a, Pushed(Skipped(s, p), s[p]))
<1> DEFINE n == Len(s)
           k == s[p]
           t == Skipped(s, p)
<1>1. l \in List /\ s \in Seq(Key) /\ n \in Nat /\ None \notin Key /\ p \in 1..n /\ k \in Key
  BY LruAssumption DEF Linked
<1>2. l.head = s[1] /\ (l.head = k <=> p = 1) /\ k \in l.map
  BY <1>1 DEF Linked, At, Distinct
<1>3. CASE p = 1
  <2>1. a = l
    BY <1>2, <1>3 DEF MoveToHead
  <2>2. Len(t) = n - 1 /\ t = [i \in 1..(n - 1) |-> s[i + 1]]
    BY <1>1, <1>3 DEF Skipped
  <2>3. Pushed(t, k) = [i \in 1..n |-> s[i]]
    <3>1. (n - 1) + 1 = n /\ \A i \in 1..n : i # 1 => i - 1 \in 1..(n - 1) /\ (i - 1) + 1 = i
      BY <1>1
    <3> HIDE DEF n, t
    <3> QED BY <1>3, <2>2, <3>1 DEF Pushed
  <2>4. Pushed(t, k) = s
    BY <1>1, <2>3
  <2> QED BY <2>1, <2>4
<1>4. CASE p # 1
  <2>1. PICK r : r = Removed(l, k)
    OBVIOUS
  <2>2. Linked(r, t)
    BY <2>1, DroppedLinked
  <2>3. /\ r \in List /\ r.map = l.map \ {k} /\ r.size = l.size - 1
        /\ r.head = IF l.head = k THEN l.next[k] ELSE l.head
        /\ r.tail = IF l.tail = k THEN l.prev[k] ELSE l.tail
        /\ \A x \in Key : r.next[x] = IF x = k THEN None
                                      ELSE IF x = l.prev[k] THEN l.next[k] ELSE l.next[x]
        /\ \A x \in Key : r.prev[x] = IF x = k THEN None
                                      ELSE IF x = l.next[k] THEN l.prev[k] ELSE l.prev[x]
    <3>1. l \in List /\ k \in Key
      BY <1>1
    <3> HIDE DEF k
    <3> QED BY ONLY <3>1, <2>1, RemovedIs
  <2>4. PICK b : b = [AtHead(r, k) EXCEPT !.map = @ \cup {k}, !.size = @ + 1]
    OBVIOUS
  <2>5. Linked(b, Pushed(t, k))
    <3>1. k \notin r.map
      BY <2>3
    <3> HIDE DEF k, t
    <3> QED BY <1>1, <2>2, <2>4, <3>1, PushedLinked
  <2>6. PICK h : h = AtHead(r, k)
    OBVIOUS
  <2>7. /\ h \in List /\ h.map = r.map /\ h.size = r.size /\ h.head = k
        /\ h.tail = IF r.tail = None THEN k ELSE r.tail
        /\ \A x \in Key : h.next[x] = IF x = k THEN r.head ELSE r.next[x]
        /\ \A x \in Key : h.prev[x] = IF x = r.head THEN k
                                      ELSE IF x = k THEN None ELSE r.prev[x]
    <3>1. r \in List /\ k \in Key
      BY <1>1, <2>3
    <3> HIDE DEF k
    <3> QED BY ONLY <3>1, <2>6, AtHeadIs
  <2>8. /\ b \in List /\ b.map = l.map /\ b.size = l.size
        /\ b.head = k /\ b.tail = h.tail /\ b.next = h.next /\ b.prev = h.prev
    <3>1. b = [map |-> h.map \cup {k}, head |-> h.head, tail |-> h.tail,
               size |-> h.size + 1, prev |-> h.prev, next |-> h.next]
      BY <2>4, <2>6, <2>7 DEF List
    <3>2. h.map \cup {k} = l.map /\ l.map \in SUBSET Key
      BY <1>1, <1>2, <2>3, <2>7 DEF List
    <3>3. h.size + 1 = l.size /\ l.size \in Int
      BY <1>1, <2>3, <2>7 DEF List
    <3>4. /\ h.head \in Node /\ h.tail \in Node /\ h.prev \in Links /\ h.next \in Links
          /\ h.head = k
      BY <2>7 DEF List
    <3> HIDE DEF k
    <3> QED BY ONLY <3>1, <3>2, <3>3, <3>4 DEF List
  <2>9. PICK u : u = Unlinked(l, k)
    OBVIOUS
  <2>10. /\ u \in List /\ u.map = l.map /\ u.size = l.size
         /\ u.head = l.head /\ u.tail = l.tail
         /\ \A x \in Key : u.next[x] = IF x = l.prev[k] THEN l.next[k] ELSE l.next[x]
         /\ \A x \in Key : u.prev[x] = IF x = l.next[k] THEN l.prev[k] ELSE l.prev[x]
    <3>1. l \in List /\ k \in Key
      BY <1>1
    <3> HIDE DEF k
    <3> QED BY ONLY <3>1, <2>9, UnlinkedIs
  <2>11. PICK v : v = [u EXCEPT !.tail = IF @ = k THEN l.prev[k] ELSE @]
    OBVIOUS
  <2>12. /\ v \in List /\ v.map = l.map /\ v.size = l.size /\ v.head = l.head
         /\ v.tail = (IF l.tail = k THEN l.prev[k] ELSE l.tail)
         /\ v.next = u.next /\ v.prev = u.prev
    <3>1. l.prev[k] \in Node
      BY <1>1 DEF List, Links
    <3>2. v = [map |-> u.map, head |-> u.head,
               tail |-> IF u.tail = k THEN l.prev[k] ELSE u.tail,
               size |-> u.size, prev |-> u.prev, next |-> u.next]
      BY <2>10, <2>11 DEF List
    <3>3. (IF u.tail = k THEN l.prev[k] ELSE u.tail) \in Node
      BY <2>10, <3>1 DEF List
    <3> HIDE DEF k
    <3> QED BY <2>10, <3>2, <3>3 DEF List
  <2>13. a = AtHead(v, k)
    BY <1>2, <1>4, <2>9, <2>11 DEF MoveToHead
  <2>14. /\ a \in List /\ a.map = l.map /\ a.size = l.size /\ a.head = k
         /\ a.tail = IF v.tail = None THEN k ELSE v.tail
         /\ \A x \in Key : a.next[x] = IF x = k THEN l.head ELSE u.next[x]
         /\ \A x \in Key : a.prev[x] = IF x = l.head THEN k
                                       ELSE IF x = k THEN None ELSE u.prev[x]
    <3>1. v \in List /\ k \in Key
      BY <1>1, <2>12
    <3> HIDE DEF k
    <3>2. /\ a \in List /\ a.map = v.map /\ a.size = v.size /\ a.head = k
          /\ a.tail = IF v.tail = None THEN k ELSE v.tail
          /\ \A x \in Key : a.next[x] = IF x = k THEN v.head ELSE v.next[x]
          /\ \A x \in Key : a.prev[x] = IF x = v.head THEN k
                                        ELSE IF x = k THEN None ELSE v.prev[x]
      BY ONLY <3>1, <2>13, AtHeadIs
    <3> QED BY <2>12, <3>2
  <2>15. r.head = l.head /\ r.tail = v.tail
    BY <1>2, <1>4, <2>3, <2>12
  <2>16. a.tail = b.tail
    BY <2>7, <2>8, <2>14, <2>15
  <2>17. ASSUME NEW x \in Key PROVE a.next[x] = b.next[x] /\ a.prev[x] = b.prev[x]
    <3> HIDE DEF k
    <3> QED BY <2>3, <2>7, <2>8, <2>10, <2>14, <2>15
  <2>18. a = b
    <3> HIDE DEF k
    <3> QED BY <2>8, <2>14, <2>16, <2>17, ListEqual
  <2> QED BY <2>5, <2>18
<1> QED BY <1>3, <1>4

Rev(s) == [i \in 1..Len(s) |-> s[Len(s) + 1 - i]]

\* Both walks along a list meet what it holds.
LEMMA WalksAre ==
  ASSUME NEW l, NEW s, Linked(l, s)
  PROVE  Walk(l.next, l.head) = s /\ Walk(l.prev, l.tail) = Rev(s)
<1> DEFINE n == Len(s)
           t == Rev(s)
<1>1. /\ s \in Seq(Key) /\ n \in Nat /\ Distinct(s)
      /\ l.next \in [Key -> Node] /\ l.prev \in [Key -> Node]
  BY DEF Linked, List, Links
<1>2. Walk(l.next, l.head) = s
  <2>1. Chain(l.next, l.head, s)
    BY DEF Linked, Chain
  <2> QED BY <1>1, <2>1, WalkIs
<1>3. /\ t \in Seq(Key) /\ Len(t) = n
      /\ \A i \in 1..n : n + 1 - i \in 1..n /\ t[i] = s[n + 1 - i]
  <2>1. \A i \in 1..n : n + 1 - i \in 1..n /\ s[n + 1 - i] \in Key
    BY <1>1
  <2> QED BY <1>1, <2>1 DEF Rev
<1> HIDE DEF t
<1>4. Distinct(t)
  <2> SUFFICES ASSUME NEW i \in 1..n, NEW j \in 1..n, t[i] = t[j] PROVE i = j
    BY <1>3 DEF Distinct
  <2>1. n + 1 - i = n + 1 - j
    BY <1>1, <1>3 DEF Distinct
  <2> QED BY <1>1, <2>1
<1>5. \A i \in 0..(n + 1) : At(t, i) = At(s, n + 1 - i)
  <2> TAKE i \in 0..(n + 1)
  <2>1. i \in 1..n <=> n + 1 - i \in 1..n
    BY <1>1
  <2> QED BY <1>3, <2>1 DEF At
<1>6. Chain(l.prev, l.tail, t)
  <2>1. l.tail = At(t, 1)
    <3>1. 1 \in 0..(n + 1) /\ n + 1 - 1 = n
      BY <1>1
    <3> QED BY <1>5, <3>1 DEF Linked
  <2>2. ASSUME NEW i \in 1..n PROVE l.prev[t[i]] = At(t, i + 1)
    <3>1. i + 1 \in 0..(n + 1) /\ n + 1 - (i + 1) = (n + 1 - i) - 1
      BY <1>1
    <3>2. l.prev[s[n + 1 - i]] = At(s, (n + 1 - i) - 1)
      BY <1>3 DEF Linked
    <3> QED BY <1>3, <1>5, <3>1, <3>2
  <2> QED BY <1>3, <2>1, <2>2 DEF Chain
<1>7. Walk(l.prev, l.tail) = t
  BY <1>1, <1>4, <1>6, WalkIs
<1> QED BY <1>2, <1>7 DEF t

-----------------------------------------------------------------------------
(* What Recency does to the sequence.                                        *)

Items(s) == {s[i] : i \in 1..Len(s)}
LEMMA WithinSame == \A s, S : Abstract!Within(s, S) = Within(s, S)
  BY DEF Abstract!Within, Within

LEMMA CachedIs == \A s, k : Abstract!Cached(s, k) <=> k \in Items(s)
  BY DEF Abstract!Cached, Items

LEMMA WithoutIs ==
  ASSUME NEW s \in Seq(Key), Distinct(s), NEW k \in Key
  PROVE  /\ k \notin Items(s) => Abstract!Without(s, k) = s
         /\ \A p \in 1..Len(s) : s[p] = k => Abstract!Without(s, k) = Skipped(s, p)
         /\ Abstract!Without(s, k) \in Seq(Key)
<1>1. Abstract!Without(s, k) = Within(s, Key \ {k})
  BY WithinSame DEF Abstract!Without
<1>2. ASSUME k \notin Items(s) PROVE Within(s, Key \ {k}) = s
  <2>1. \A i \in 1..Len(s) : s[i] \in Key \ {k}
    BY <1>2 DEF Items
  <2> QED BY <2>1, WithinAll
<1>3. ASSUME NEW p \in 1..Len(s), s[p] = k PROVE Within(s, Key \ {k}) = Skipped(s, p)
  <2>1. s[p] \notin Key \ {k} /\ \A i \in 1..Len(s) : i # p => s[i] \in Key \ {k}
    BY <1>3 DEF Distinct
  <2> QED BY <2>1, WithinDrops
<1>4. Within(s, Key \ {k}) \in Seq(Key)
  BY WithinSelects
<1> QED BY <1>1, <1>2, <1>3, <1>4

LEMMA UsedIs ==
  ASSUME NEW s \in Seq(Key), Distinct(s), NEW k \in Key
  PROVE  Abstract!Used(s, k) = Pushed(Abstract!Without(s, k), k)
<1>1. PICK w : w = Abstract!Without(s, k)
  OBVIOUS
<1>2. w \in Seq(Key)
  BY <1>1, WithoutIs
<1>3. <<k>> \o w = Pushed(w, k)
  <2>1. /\ <<k>> \o w \in Seq(Key) /\ Len(<<k>> \o w) = Len(w) + 1
        /\ \A i \in 1..(Len(w) + 1) : (<<k>> \o w)[i] = IF i = 1 THEN k ELSE w[i - 1]
    BY <1>2
  <2>2. <<k>> \o w = [i \in 1..(Len(w) + 1) |-> (<<k>> \o w)[i]]
    BY <2>1
  <2> QED BY <2>1, <2>2 DEF Pushed
<1> QED BY <1>1, <1>3 DEF Abstract!Used

LEMMA PushedType ==
  ASSUME NEW s \in Seq(Key), NEW k \in Key
  PROVE  Pushed(s, k) \in Seq(Key) /\ Len(Pushed(s, k)) = Len(s) + 1
<1>1. Len(s) \in Nat /\ \A i \in 1..(Len(s) + 1) : i # 1 => i - 1 \in 1..Len(s)
  OBVIOUS
<1> QED BY <1>1 DEF Pushed

LEMMA WholeSeq == ASSUME NEW s \in Seq(Key) PROVE SubSeq(s, 1, Len(s)) = s
  OBVIOUS

-----------------------------------------------------------------------------
(* The steps.                                                                *)

Fits(s) == Len(s) <= MaxSize
Inv == TypeOK /\ \E s : Linked(list, s)

LEMMA LinkedFits ==
  ASSUME TypeOK, NEW s, Linked(list, s)
  PROVE  Fits(s) /\ s \in Seq(Key) /\ Distinct(s) /\ Len(s) \in Nat /\ list.map = Items(s)
<1>1. list.size \in 0..MaxSize /\ list.size = Len(s)
  BY DEF TypeOK, Linked
<1> QED BY <1>1 DEF Linked, Fits, Items

\* A key in the map is used, by get() or set().
LEMMA UseLinked ==
  ASSUME TypeOK, NEW s, Linked(list, s), NEW k \in Key, k \in list.map
  PROVE  /\ Linked(MoveToHead(list, k), Abstract!Used(s, k))
         /\ Len(Abstract!Used(s, k)) = Len(s) /\ Abstract!Used(s, k) \in Seq(Key)
<1>1. Fits(s) /\ s \in Seq(Key) /\ Distinct(s) /\ Len(s) \in Nat /\ list.map = Items(s)
  BY LinkedFits
<1>2. PICK p \in 1..Len(s) : k = s[p]
  BY <1>1 DEF Items
<1>3. Abstract!Without(s, k) = Skipped(s, p)
  BY <1>1, <1>2, WithoutIs
<1>4. Abstract!Used(s, k) = Pushed(Skipped(s, p), k)
  BY <1>1, <1>3, UsedIs
<1>5. PICK a : a = MoveToHead(list, k)
  OBVIOUS
<1>6. Linked(a, Pushed(Skipped(s, p), s[p]))
  BY <1>2, <1>5, MovedLinked
<1>7. Skipped(s, p) \in Seq(Key) /\ Len(Skipped(s, p)) = Len(s) - 1
  <2>1. s[p] \notin Key \ {k} /\ \A i \in 1..Len(s) : i # p => s[i] \in Key \ {k}
    BY <1>1, <1>2 DEF Distinct
  <2> QED BY <1>1, <2>1, WithinDrops
<1>8. /\ Pushed(Skipped(s, p), k) \in Seq(Key)
      /\ Len(Pushed(Skipped(s, p), k)) = Len(Skipped(s, p)) + 1
  BY <1>7, PushedType
<1> QED BY <1>1, <1>2, <1>4, <1>5, <1>6, <1>7, <1>8

LEMMA SetLinked ==
  ASSUME TypeOK, NEW s, Linked(list, s), NEW k \in Key,
         NEW a, a = IF k \in list.map THEN MoveToHead(list, k) ELSE SetNew(list, k)
  PROVE  Linked(a, Abstract!Stored(s, k)) /\ Fits(Abstract!Stored(s, k))
<1> DEFINE u == Abstract!Used(s, k)
<1>1. Fits(s) /\ s \in Seq(Key) /\ Distinct(s) /\ Len(s) \in Nat /\ list.map = Items(s)
  BY LinkedFits
<1>2. MaxSize \in Nat
  BY LruAssumption
<1>3. CASE k \in list.map
  <2>1. Linked(a, u) /\ Len(u) = Len(s) /\ u \in Seq(Key)
    BY <1>3, UseLinked
  <2>2. Abstract!Stored(s, k) = u
    <3>1. Abstract!Stored(s, k) = SubSeq(u, 1, IF Len(u) > MaxSize THEN MaxSize ELSE Len(u))
      BY DEF Abstract!Stored
    <3>2. ~ (Len(u) > MaxSize)
      BY <1>1, <1>2, <2>1 DEF Fits
    <3> HIDE DEF u
    <3> QED BY <2>1, <3>1, <3>2, WholeSeq
  <2> QED BY <1>1, <2>1, <2>2 DEF Fits
<1>4. CASE k \notin list.map
  <2>1. u = Pushed(s, k)
    BY <1>1, <1>4, WithoutIs, UsedIs
  <2>2. u \in Seq(Key) /\ Len(u) = Len(s) + 1
    BY <1>1, <2>1, PushedType
  <2>3. PICK b : b = [AtHead(list, k) EXCEPT !.map = @ \cup {k}, !.size = @ + 1]
    OBVIOUS
  <2>4. Linked(b, u)
    BY <1>4, <2>1, <2>3, PushedLinked
  <2>5. a = IF b.size > MaxSize THEN RemoveTail(b) ELSE b
    BY <1>4, <2>3 DEF SetNew
  <2>6. b.size = Len(u)
    BY <2>4 DEF Linked
  <2>7. Abstract!Stored(s, k) = SubSeq(u, 1, IF Len(u) > MaxSize THEN MaxSize ELSE Len(u))
    BY DEF Abstract!Stored
  <2> HIDE DEF u
  <2>8. CASE Len(u) > MaxSize
    <3>1. MaxSize = Len(u) - 1 /\ Len(u) > 0
      BY <1>1, <1>2, <2>2, <2>8 DEF Fits
    <3>2. a = RemoveTail(b)
      BY <2>5, <2>6, <2>8
    <3>3. Linked(a, SubSeq(u, 1, Len(u) - 1))
      BY <2>4, <3>1, <3>2, LastLinked
    <3>4. Abstract!Stored(s, k) = SubSeq(u, 1, Len(u) - 1)
      BY <2>7, <2>8, <3>1
    <3>5. a.size = b.size - 1
      <4>1. b \in List /\ b.tail # None
        <5>1. Len(u) \in 1..Len(u) /\ u[Len(u)] \in Key
          BY <2>2, <3>1
        <5> QED BY <2>4, <5>1, LruAssumption DEF Linked, At
      <4> QED BY <3>2, <4>1, RemoveTailIs, LruAssumption
    <3>6. a.size = Len(SubSeq(u, 1, Len(u) - 1))
      BY <3>3 DEF Linked
    <3>7. Fits(Abstract!Stored(s, k))
      BY <1>2, <2>2, <2>6, <3>1, <3>4, <3>5, <3>6 DEF Fits
    <3> QED BY <3>3, <3>4, <3>7
  <2>9. CASE ~ (Len(u) > MaxSize)
    <3>1. Abstract!Stored(s, k) = u
      BY <2>2, <2>7, <2>9, WholeSeq
    <3> QED BY <1>2, <2>2, <2>4, <2>5, <2>6, <2>9, <3>1 DEF Fits
  <2> QED BY <2>8, <2>9
<1> QED BY <1>3, <1>4

LEMMA RemoveLinked ==
  ASSUME TypeOK, NEW s, Linked(list, s), NEW k \in Key,
         NEW a, a = IF k \notin list.map THEN list ELSE Removed(list, k)
  PROVE  Linked(a, Abstract!Without(s, k)) /\ Fits(Abstract!Without(s, k))
<1>1. Fits(s) /\ s \in Seq(Key) /\ Distinct(s) /\ Len(s) \in Nat /\ list.map = Items(s)
  BY LinkedFits
<1>2. CASE k \notin list.map
  BY <1>1, <1>2, WithoutIs
<1>3. CASE k \in list.map
  <2>1. PICK p \in 1..Len(s) : k = s[p]
    BY <1>1, <1>3 DEF Items
  <2>2. Abstract!Without(s, k) = Skipped(s, p)
    BY <1>1, <2>1, WithoutIs
  <2>3. Linked(a, Skipped(s, p))
    BY <1>3, <2>1, DroppedLinked
  <2>4. Len(Skipped(s, p)) = Len(s) - 1
    <3>1. s[p] \notin Key \ {k} /\ \A i \in 1..Len(s) : i # p => s[i] \in Key \ {k}
      BY <1>1, <2>1 DEF Distinct
    <3> QED BY <1>1, <3>1, WithinDrops
  <2>5. Fits(Skipped(s, p))
    BY <1>1, <2>4, LruAssumption DEF Fits
  <2> QED BY <2>2, <2>3, <2>5
<1> QED BY <1>2, <1>3

LEMMA EmptyLinked ==
  Linked(Empty, <<>>) /\ Fits(<<>>)
<1>1. Empty \in List
  BY DEF Empty, List, NoLinks, Links, Node
<1>2. Len(<<>>) = 0 /\ <<>> \in Seq(Key)
  OBVIOUS
<1>3. At(<<>>, 1) = None /\ At(<<>>, 0) = None
  BY <1>2 DEF At
<1>4. Empty.map = {} /\ Empty.size = 0 /\ Empty.head = None /\ Empty.tail = None
  BY DEF Empty
<1> QED BY <1>1, <1>2, <1>3, <1>4, LruAssumption DEF Linked, Distinct, Fits

LEMMA LinkedType ==
  ASSUME NEW l, NEW s, Linked(l, s), Fits(s)
  PROVE  l \in [map : SUBSET Key, head : Node, tail : Node, size : 0..MaxSize,
                prev : [Key -> Node], next : [Key -> Node]]
<1>1. l \in List /\ l.size = Len(s) /\ Len(s) \in 0..MaxSize
  BY LruAssumption DEF Linked, Fits
<1> QED BY <1>1 DEF List, Links

\* Every step does to the sequence what Recency says.
RecencyStep(s, t) ==
  \/ t = <<>> /\ val' = [k \in Key |-> None] /\ UNCHANGED result
  \/ \E k \in Key :
       \/ /\ t = IF Abstract!Cached(s, k) THEN Abstract!Used(s, k) ELSE s
          /\ result' = val[k] /\ UNCHANGED val
       \/ /\ t = Abstract!Without(s, k)
          /\ val' = [val EXCEPT ![k] = None] /\ UNCHANGED result
       \/ \E v \in Value :
            /\ t = Abstract!Stored(s, k)
            /\ val' = [l \in Key |-> IF ~Abstract!Cached(t, l) THEN None
                                     ELSE IF l = k THEN v ELSE val[l]]
            /\ UNCHANGED result
  \/ t = s /\ UNCHANGED <<val, result>>

LEMMA StepLinked ==
  ASSUME TypeOK, NEW s, Linked(list, s), [Next]_vars
  PROVE  \E t : Linked(list', t) /\ Fits(t) /\ RecencyStep(s, t)
<1>1. Fits(s) /\ s \in Seq(Key) /\ Distinct(s) /\ Len(s) \in Nat /\ list.map = Items(s)
  BY LinkedFits
<1>2. CASE Clear
  <2>1. Linked(list', <<>>) /\ Fits(<<>>)
    BY <1>2, EmptyLinked DEF Clear
  <2>2. RecencyStep(s, <<>>)
    BY <1>2 DEF Clear, RecencyStep, NoLinks
  <2> QED BY <2>1, <2>2
<1>3. ASSUME NEW k \in Key, Get(k)
      PROVE  \E t : Linked(list', t) /\ Fits(t) /\ RecencyStep(s, t)
  <2> DEFINE t == IF Abstract!Cached(s, k) THEN Abstract!Used(s, k) ELSE s
  <2>1. RecencyStep(s, t)
    BY <1>3 DEF Get, RecencyStep
  <2>2. Linked(list', t) /\ Fits(t)
    <3>1. CASE k \in list.map
      <4>1. t = Abstract!Used(s, k)
        BY <1>1, <3>1, CachedIs
      <4>2. list' = MoveToHead(list, k)
        BY <1>3, <3>1 DEF Get
      <4>3. Linked(list', Abstract!Used(s, k)) /\ Len(Abstract!Used(s, k)) = Len(s)
        BY <3>1, <4>2, UseLinked
      <4> QED BY <1>1, <4>1, <4>3 DEF Fits
    <3>2. CASE k \notin list.map
      BY <1>1, <1>3, <3>2, CachedIs DEF Get
    <3> QED BY <3>1, <3>2
  <2> QED BY <2>1, <2>2
<1>4. ASSUME NEW k \in Key, RemoveKey(k)
      PROVE  \E t : Linked(list', t) /\ Fits(t) /\ RecencyStep(s, t)
  <2> DEFINE t == Abstract!Without(s, k)
  <2>1. RecencyStep(s, t)
    BY <1>4 DEF RemoveKey, RecencyStep
  <2>2. list' = IF k \notin list.map THEN list ELSE Removed(list, k)
    BY <1>4 DEF RemoveKey, Removed
  <2>3. Linked(list', t) /\ Fits(t)
    BY <2>2, RemoveLinked
  <2> QED BY <2>1, <2>3
<1>5. ASSUME NEW k \in Key, NEW v \in Value, Set(k, v)
      PROVE  \E t : Linked(list', t) /\ Fits(t) /\ RecencyStep(s, t)
  <2> DEFINE t == Abstract!Stored(s, k)
  <2>1. list' = IF k \in list.map THEN MoveToHead(list, k) ELSE SetNew(list, k)
    BY <1>5 DEF Set
  <2>2. Linked(list', t) /\ Fits(t)
    BY <2>1, SetLinked
  <2>3. \A l : l \in list'.map <=> Abstract!Cached(t, l)
    BY <2>2, CachedIs DEF Linked, Items
  <2>4. val' = [l \in Key |-> IF ~Abstract!Cached(t, l) THEN None
                              ELSE IF l = k THEN v ELSE val[l]]
    BY <1>5, <2>3 DEF Set
  <2>5. RecencyStep(s, t)
    BY <1>5, <2>4 DEF Set, RecencyStep
  <2> QED BY <2>2, <2>5
<1>6. CASE UNCHANGED vars
  BY <1>1, <1>6 DEF vars, RecencyStep
<1> QED BY <1>2, <1>3, <1>4, <1>5, <1>6 DEF Next

LEMMA InitInv == Init => Inv
<1> SUFFICES ASSUME Init PROVE Inv
  OBVIOUS
<1>1. Linked(list, <<>>) /\ Fits(<<>>)
  BY EmptyLinked DEF Init
<1>2. TypeOK
  BY <1>1, LinkedType DEF Init, TypeOK, NoLinks
<1> QED BY <1>1, <1>2 DEF Inv

LEMMA NextInv == Inv /\ [Next]_vars => Inv'
<1> SUFFICES ASSUME Inv, [Next]_vars PROVE Inv'
  OBVIOUS
<1>1. PICK s : Linked(list, s)
  BY DEF Inv
<1>2. PICK t : Linked(list', t) /\ Fits(t) /\ RecencyStep(s, t)
  BY <1>1, StepLinked DEF Inv
<1>3. /\ val \in [Key -> Value \cup {None}] /\ result \in Value \cup {None}
  BY DEF Inv, TypeOK
<1>4. val' \in [Key -> Value \cup {None}] /\ result' \in Value \cup {None}
  BY <1>2, <1>3 DEF RecencyStep
<1>5. list' \in [map : SUBSET Key, head : Node, tail : Node, size : 0..MaxSize,
                 prev : [Key -> Node], next : [Key -> Node]]
  BY <1>2, LinkedType
<1> QED BY <1>2, <1>4, <1>5 DEF Inv, TypeOK

\* In every reachable state the nodes are one list, linked both ways.
THEOREM Invariance == Spec => []Inv
<1>1. Init => Inv
  BY InitInv
<1>2. Inv /\ [Next]_vars => Inv'
  BY NextInv
<1> QED BY <1>1, <1>2, PTL DEF Spec

\* The list read backwards is the list read forwards, with every key of the map once.
THEOREM ListSoundHolds == Spec => []ListSound
<1>1. Inv => ListSound
  <2> SUFFICES ASSUME Inv PROVE ListSound
    OBVIOUS
  <2>1. PICK s : Linked(list, s)
    BY DEF Inv
  <2>2. Fits(s) /\ s \in Seq(Key) /\ Distinct(s) /\ Len(s) \in Nat /\ list.map = Items(s)
    BY <2>1, LinkedFits DEF Inv
  <2>3. Walk(list.next, list.head) = s /\ Walk(list.prev, list.tail) = Rev(s)
    BY <2>1, WalksAre
  <2>4. list.size = Len(s)
    BY <2>1 DEF Linked
  <2>5. /\ Len(Rev(s)) = Len(s)
        /\ \A i \in 1..Len(s) : s[i] = Rev(s)[Len(s) + 1 - i]
    <3>1. \A i \in 1..Len(s) : Len(s) + 1 - i \in 1..Len(s) /\ Len(s) + 1 - (Len(s) + 1 - i) = i
      BY <2>2
    <3>2. Len(Rev(s)) = Len(s)
      BY <2>2 DEF Rev
    <3> QED BY <3>1, <3>2 DEF Rev
  <2>6. Cardinality(Items(s)) = Len(s)
    BY <2>2, DistinctFits DEF Items
  <2> QED BY <2>2, <2>3, <2>4, <2>5, <2>6 DEF ListSound, Inv, Items
<1> QED BY <1>1, Invariance, PTL

\* The linked list implements a cache that evicts what was used longest ago.
THEOREM EvictsLeastRecentHolds == Spec => EvictsLeastRecent
<1> DEFINE walk == Walk(list.next, list.head)
<1>1. Init => Abstract!Init
  <2> SUFFICES ASSUME Init PROVE Abstract!Init
    OBVIOUS
  <2>1. walk = <<>>
    BY EmptyLinked, WalksAre DEF Init
  <2> QED BY <2>1 DEF Init, Abstract!Init, NoLinks
<1>2. Inv /\ Inv' /\ [Next]_vars => [Abstract!Next]_<<walk, val, result>>
  <2> SUFFICES ASSUME Inv, [Next]_vars PROVE [Abstract!Next]_<<walk, val, result>>
    OBVIOUS
  <2>1. PICK s : Linked(list, s)
    BY DEF Inv
  <2>2. PICK t : Linked(list', t) /\ Fits(t) /\ RecencyStep(s, t)
    BY <2>1, StepLinked DEF Inv
  <2>3. walk = s /\ walk' = t
    BY <2>1, <2>2, WalksAre
  <2> HIDE DEF walk
  <2> QED BY <2>2, <2>3 DEF RecencyStep, Abstract!Next, Abstract!Get, Abstract!Set,
                 Abstract!Remove, Abstract!Clear, walk
<1> QED BY <1>1, <1>2, Invariance, PTL DEF Spec, EvictsLeastRecent, Abstract!Spec

-----------------------------------------------------------------------------
(* The operation cache of ops/handler.ts, for any number of clients, requests,  *)
(* keys and events, and any size of the cache.                                *)

\* What was heard of each operation: as far as the clients go, all there is to it.
heard == [o \in Request |-> Heard(o)]

\* The state but for the recency order, which these properties do not depend on.
Typed ==
  /\ open \subseteq Client
  /\ key \in [Request -> CacheKey \cup {Absent}]
  /\ status \in [Request -> {"new", "asked", "refused", "started", "hit"}]
  /\ entry \in [CacheKey -> Entry \cup {Absent}]
  /\ source \in [Request -> Request \cup {Absent}]
  /\ got \in [Request -> Seq(Event)]
  /\ heard \in [Request -> Seq(Event)]
  /\ buffer \in [Request -> Seq(Event)]
  /\ live \subseteq Request
  /\ lost \subseteq Request
  /\ observers \in [Request -> SUBSET Request]

\* A request that is an operation, and one that was served from the cache.
IsOperation(o) == status[o] = "started"
SourceSound ==
  \A r \in Request :
    /\ IsOperation(r) => source[r] = r
    /\ status[r] = "hit" => /\ source[r] \in Request
                            /\ IsOperation(source[r]) /\ IsCached(source[r])
    /\ ~IsOperation(r) => r \notin live /\ observers[r] = {}
                           /\ heard[r] = <<>> /\ buffer[r] = <<>>
    /\ ~Served(r) => got[r] = <<>>

\* Who is attached was served from that operation and is there, and whoever was and is
\* there is attached as long as it runs.
Attached ==
  \A o, r \in Request :
    /\ r \in observers[o] => status[r] = "hit" /\ source[r] = o
                             /\ Owner[r] \in open /\ o \in live
    /\ status[r] = "hit" /\ source[r] = o /\ Owner[r] \in open /\ o \in live =>
         r \in observers[o]

Ended(s) == s # <<>> /\ s[Len(s)] = End

\* An entry is an operation with that key.  As long as it runs it is not complete, and
\* the buffer is what was heard; complete, that is so for ever.
EntryHolds(k) ==
  LET o == entry[k].op
  IN /\ IsOperation(o) /\ key[o] = k
     /\ entry[k].complete = (o \notin live)
     /\ entry[k].complete => /\ buffer[o] = heard[o]
                             /\ o \in cut \/ Ended(heard[o])
EntrySound ==
  /\ \A k \in CacheKey : entry[k] # Absent => EntryHolds(k)
  /\ \A o \in Request : IsOperation(o) /\ IsCached(o) /\ o \in live => buffer[o] = heard[o]

\* SameStory, event by event.
Story(r) ==
  /\ Len(got[r]) <= Len(heard[source[r]])
  /\ \A i \in 1..Len(got[r]) : got[r][i] = heard[source[r]][i]
  /\ Owner[r] \in open /\ source[r] \in live => got[r] = heard[source[r]]
Stories == \A r \in Request : Served(r) => Story(r)

\* What came before a request is an operation was not heard.  A stopped operation is no
\* longer listened to, and had not ended, like one that is.
HeardSound ==
  /\ emitted \in [Request -> Seq(Event)] /\ missed \in [Request -> Nat] /\ cut \subseteq Request
  /\ \A o \in Request : /\ missed[o] <= Len(emitted[o])
                        /\ ~IsOperation(o) => missed[o] = Len(emitted[o])
  /\ \A o \in cut : IsOperation(o) /\ o \notin live
  /\ \A o \in live \cup cut : \A i \in 1..Len(heard[o]) : heard[o][i] \in Item

OpsInv == Typed /\ SourceSound /\ Attached /\ EntrySound /\ Stories /\ HeardSound

LEMMA OpsInitInv == OpsInit => OpsInv
<1> SUFFICES ASSUME OpsInit PROVE OpsInv
  OBVIOUS
<1>1. \A o \in Request : heard[o] = <<>>
  BY DEF OpsInit, heard, Heard
<1>2. heard \in [Request -> Seq(Event)]
  <2>1. \A o \in Request : Heard(o) = <<>>
    BY <1>1 DEF heard
  <2>2. <<>> \in Seq(Event)
    OBVIOUS
  <2> QED BY <2>1, <2>2 DEF heard
<1>3. Typed
  BY <1>2 DEF OpsInit, Typed
<1>4. SourceSound /\ Attached /\ EntrySound /\ Stories
  BY <1>1 DEF OpsInit, SourceSound, Attached, EntrySound, Stories, IsOperation, Served
<1>5. HeardSound
  BY DEF OpsInit, HeardSound
<1> QED BY <1>3, <1>4, <1>5 DEF OpsInv

-----------------------------------------------------------------------------
\* What is heard in a step.

\* The part that is heard of a sequence to which something is added.
LEMMA SubSeqAppend ==
  ASSUME NEW s \in Seq(Event), NEW m \in Nat, m <= Len(s), NEW e \in Event
  PROVE  SubSeq(Append(s, e), m + 1, Len(Append(s, e))) = Append(SubSeq(s, m + 1, Len(s)), e)
<1>1. PICK n : n = Len(s)
  OBVIOUS
<1>2. PICK a : a = Append(s, e)
  OBVIOUS
<1>3. n \in Nat /\ Len(a) = n + 1 /\ a[n + 1] = e /\ \A i \in 1..n : a[i] = s[i]
  BY <1>1, <1>2
<1>4. PICK u : u = SubSeq(s, m + 1, n)
  OBVIOUS
<1>5. u \in Seq(Event) /\ Len(u) = n - m /\ \A i \in 1..n - m : u[i] = s[m + i]
  BY <1>1, <1>4
<1>6. PICK w : w = SubSeq(a, m + 1, n + 1)
  OBVIOUS
<1>7. w \in Seq(Event) /\ Len(w) = n - m + 1 /\ \A i \in 1..n - m + 1 : w[i] = a[m + i]
  <2>1. a \in Seq(Event)
    BY <1>2
  <2> QED BY <1>1, <1>3, <1>6, <2>1
<1>8. PICK v : v = Append(u, e)
  OBVIOUS
<1>9. /\ v \in Seq(Event) /\ Len(v) = n - m + 1 /\ v[n - m + 1] = e
      /\ \A i \in 1..n - m : v[i] = u[i]
  BY <1>1, <1>3, <1>5, <1>8
<1>10. ASSUME NEW i \in 1..n - m + 1 PROVE w[i] = v[i]
  <2>1. CASE i \in 1..n - m
    <3>1. m + i \in 1..n
      BY <1>1, <1>3, <2>1
    <3> QED BY <1>3, <1>5, <1>7, <1>9, <2>1, <3>1
  <2>2. CASE i = n - m + 1
    <3>1. m + i = n + 1
      BY <1>3, <2>2
    <3> QED BY <1>3, <1>7, <1>9, <2>2, <3>1
  <2> QED BY <1>1, <1>3, <2>1, <2>2
<1>11. w = v
  <2>1. Len(w) = Len(v) /\ \A i \in 1..Len(w) : w[i] = v[i]
    BY <1>7, <1>9, <1>10
  <2> QED BY <1>7, <1>9, <2>1, SeqEqual
<1> QED BY <1>1, <1>2, <1>3, <1>4, <1>6, <1>8, <1>11

\* Nothing comes.
LEMMA HeardKept ==
  ASSUME OpsInv, UNCHANGED <<emitted, missed, cut>>,
         \A q \in Request : IsOperation(q) => IsOperation(q)',
         \A q \in live' : q \in live \/ (q \in Request /\ ~IsOperation(q))
  PROVE  heard' = heard /\ HeardSound'
<1>1. heard' = heard
  BY DEF heard, Heard
<1>2. \A q \in live' : q \notin cut /\ \A i \in 1..Len(heard[q]) : heard[q][i] \in Item
  BY DEF OpsInv, HeardSound, SourceSound
<1> QED BY <1>1, <1>2 DEF OpsInv, HeardSound

\* An event of an operation; a terminal one is the last.
LEMMA HeardMore ==
  ASSUME OpsInv, NEW o \in Request, NEW e \in Event, o \in live,
         emitted' = [emitted EXCEPT ![o] = Append(@, e)], UNCHANGED <<missed, cut, status>>,
         live' \subseteq live, e \in Item \/ o \notin live'
  PROVE  heard' = [heard EXCEPT ![o] = Append(@, e)] /\ HeardSound'
<1>1. /\ emitted[o] \in Seq(Event) /\ missed[o] \in Nat /\ missed[o] <= Len(emitted[o])
      /\ emitted'[o] = Append(emitted[o], e) /\ missed'[o] = missed[o]
      /\ \A q \in Request : q # o => emitted'[q] = emitted[q] /\ missed'[q] = missed[q]
  BY DEF OpsInv, HeardSound
<1>2. Heard(o)' = Append(Heard(o), e)
  <2>1. SubSeq(Append(emitted[o], e), missed[o] + 1, Len(Append(emitted[o], e))) =
          Append(SubSeq(emitted[o], missed[o] + 1, Len(emitted[o])), e)
    BY <1>1, SubSeqAppend
  <2> QED BY <1>1, <2>1 DEF Heard
<1>3. \A q \in Request : q # o => Heard(q)' = Heard(q)
  BY <1>1 DEF Heard
<1>4. heard' = [heard EXCEPT ![o] = Append(@, e)]
  BY <1>2, <1>3 DEF heard
<1>5. heard[o] \in Seq(Event) /\ IsOperation(o)
  BY DEF OpsInv, Typed, SourceSound
<1>6. emitted' \in [Request -> Seq(Event)]
  BY <1>1 DEF OpsInv, HeardSound
<1>7. ASSUME NEW q \in Request
      PROVE  missed'[q] <= Len(emitted'[q]) /\ (~IsOperation(q)' => missed'[q] = Len(emitted'[q]))
  <2>1. IsOperation(q)' = IsOperation(q)
    BY DEF IsOperation
  <2>2. CASE q = o
    BY <1>1, <1>5, <2>1, <2>2
  <2>3. CASE q # o
    BY <1>1, <2>1, <2>3 DEF OpsInv, HeardSound
  <2> QED BY <2>2, <2>3
<1>8. ASSUME NEW q \in cut PROVE IsOperation(q)' /\ q \notin live'
  BY DEF OpsInv, HeardSound, IsOperation
<1>9. ASSUME NEW q \in live' \cup cut, NEW i \in 1..Len(heard'[q]) PROVE heard'[q][i] \in Item
  <2>1. q \in Request /\ q \in live \cup cut
    BY DEF OpsInv, HeardSound, Typed
  <2>2. CASE q = o
    <3>1. e \in Item
      BY <2>2 DEF OpsInv, HeardSound
    <3>2. heard'[o] = Append(heard[o], e)
      BY <1>4 DEF OpsInv, Typed
    <3>3. \A j \in 1..Len(heard[o]) : heard[o][j] \in Item
      BY DEF OpsInv, HeardSound
    <3> QED BY <1>5, <2>2, <3>1, <3>2, <3>3
  <2>3. CASE q # o
    BY <1>4, <2>1, <2>3 DEF OpsInv, HeardSound, Typed
  <2> QED BY <2>2, <2>3
<1> QED BY <1>4, <1>6, <1>7, <1>8, <1>9 DEF HeardSound, OpsInv

\* A key of the cache is that of a cached method.
LEMMA KeyIsCached ==
  ASSUME Typed, NEW r \in Request
  PROVE  IsCached(r) <=> key[r] \in CacheKey
  BY CacheAssumption DEF Typed, IsCached

\* Setting and removing an entry leave the others, but for one that is evicted.
LEMMA SetEntry ==
  ASSUME NEW k \in CacheKey, NEW e \in Entry, CacheSet(k, e), Typed
  PROVE  /\ entry' \in [CacheKey -> Entry \cup {Absent}]
         /\ entry'[k] \in {e, Absent}
         /\ \A l \in CacheKey : l # k => entry'[l] \in {entry[l], Absent}
  BY DEF CacheSet, Typed
LEMMA RemoveEntry ==
  ASSUME NEW k \in CacheKey, CacheRemove(k), entry \in [CacheKey -> Entry \cup {Absent}]
  PROVE  /\ entry' \in [CacheKey -> Entry \cup {Absent}]
         /\ entry'[k] = Absent
         /\ \A l \in CacheKey : l # k => entry'[l] = entry[l]
  BY DEF CacheRemove

\* What the requests have been sent after an event.
LEMMA SentType ==
  ASSUME Typed, NEW R, NEW e \in Event
  PROVE  Sent(R, e) \in [Request -> Seq(Event)]
  BY DEF Typed, Sent

\* EntrySound depends on nothing else.
LEMMA EntryUnchanged ==
  ASSUME Typed, EntrySound, UNCHANGED <<key, entry, heard, buffer, live, cut>>,
         \A o \in Request : IsOperation(o)' = IsOperation(o)
  PROVE  EntrySound'
<1>1. ASSUME NEW k \in CacheKey, entry[k] # Absent PROVE EntryHolds(k)'
  <2>1. entry[k].op \in Request
    BY <1>1 DEF Typed, Entry
  <2> QED BY <1>1, <2>1 DEF EntrySound, EntryHolds
<1> QED BY <1>1 DEF EntrySound, IsCached

-----------------------------------------------------------------------------
\* The steps of a request.
LEMMA HitInv == ASSUME OpsInv, NEW r \in Request, Hit(r) PROVE OpsInv'
<1> DEFINE k == key[r]
           o == entry[k].op
<1> USE DEF OpsInv
<1>1. /\ k \in CacheKey /\ entry[k] # Absent /\ entry[k] \in Entry /\ o \in Request
      /\ entry[k].complete \in BOOLEAN /\ status[r] = "new" /\ Owner[r] \in open
  <2>1. k \in CacheKey /\ entry[k] # Absent /\ status[r] = "new" /\ Owner[r] \in open
    BY KeyIsCached DEF Hit
  <2> QED BY <2>1 DEF Typed, Entry
<1>2. /\ status' = [status EXCEPT ![r] = "hit"]
      /\ source' = [source EXCEPT ![r] = o]
      /\ got' = [got EXCEPT ![r] = buffer[o]]
      /\ observers' = IF entry[k].complete THEN observers
                      ELSE [observers EXCEPT ![o] = @ \cup {r}]
      /\ UNCHANGED <<open, key, entry, emitted, missed, buffer, live, lost, cut>>
  BY DEF Hit
<1>3. IsOperation(o) /\ key[o] = k /\ entry[k].complete = (o \notin live)
  BY <1>1 DEF EntrySound, EntryHolds
<1>4. buffer[o] = heard[o] /\ IsCached(o)
  <2>1. IsCached(o)
    BY <1>1, <1>3, KeyIsCached
  <2> QED BY <1>1, <1>3, <2>1 DEF EntrySound, EntryHolds
<1>5. \A q \in Request : IsOperation(q)' = IsOperation(q)
  BY <1>1, <1>2 DEF IsOperation, Typed
<1>6. heard' = heard /\ HeardSound'
  BY <1>2, <1>5, HeardKept
<1>7. Typed'
  BY <1>1, <1>2, <1>6 DEF Typed
<1>8. r # o
  BY <1>1, <1>3 DEF IsOperation
<1>9. SourceSound'
  BY <1>1, <1>2, <1>3, <1>4, <1>5, <1>8, <1>6 DEF SourceSound, Typed, Served, IsOperation, IsCached
<1>10. Attached'
  <2>1. /\ observers' \in [Request -> SUBSET Request]
        /\ \A p, q \in Request :
             q \in observers'[p] <=> \/ q \in observers[p]
                                     \/ q = r /\ p = o /\ ~entry[k].complete
    BY <1>1, <1>2, <1>7 DEF Typed
  <2>2. \A p \in Request : r \notin observers[p]
    BY <1>1 DEF Attached
  <2>3. /\ status'[r] = "hit" /\ source'[r] = o
        /\ \A q \in Request : q # r => status'[q] = status[q] /\ source'[q] = source[q]
    BY <1>1, <1>2 DEF Typed
  <2>4. entry[k].complete <=> o \notin live
    BY <1>3
  <2>5. ASSUME NEW p \in Request, NEW q \in Request
        PROVE  /\ q \in observers'[p] => status'[q] = "hit" /\ source'[q] = p
                                         /\ Owner[q] \in open' /\ p \in live'
               /\ status'[q] = "hit" /\ source'[q] = p /\ Owner[q] \in open' /\ p \in live'
                    => q \in observers'[p]
    <3>1. CASE q = r
      BY <1>1, <1>2, <2>1, <2>2, <2>3, <2>4, <3>1
    <3>2. CASE q # r
      BY <1>2, <2>1, <2>3, <3>2 DEF Attached
    <3> QED BY <3>1, <3>2
  <2> QED BY <2>5 DEF Attached
<1>11. EntrySound'
  BY <1>2, <1>5, <1>6, EntryUnchanged
<1>12. Stories'
  <2>1. Story(r)'
    BY <1>1, <1>2, <1>4, <1>6 DEF Story, Typed
  <2>2. ASSUME NEW q \in Request, q # r, Served(q)' PROVE Story(q)'
    BY <1>1, <1>2, <1>6, <2>2 DEF Stories, Story, Served, Typed
  <2> QED BY <2>1, <2>2 DEF Stories
<1> QED BY <1>7, <1>9, <1>10, <1>11, <1>12, <1>6

LEMMA AskInv == ASSUME OpsInv, NEW r \in Request, Miss(r) \/ Refused(r) PROVE OpsInv'
<1> USE DEF OpsInv
<1>1. /\ status[r] \in {"new", "asked"}
      /\ status' = [status EXCEPT ![r] = IF Miss(r) THEN "asked" ELSE "refused"]
      /\ UNCHANGED <<open, key, source, got, entry, operations>>
  BY DEF Miss, Refused, cache, Typed
<1>2. /\ status' \in [Request -> {"new", "asked", "refused", "started", "hit"}]
      /\ \A q \in Request : /\ IsOperation(q)' = IsOperation(q)
                            /\ (status[q] = "hit")' = (status[q] = "hit")
                            /\ Served(q)' = Served(q)
  BY <1>1 DEF Typed, IsOperation, Served
<1>6. heard' = heard /\ HeardSound'
  BY <1>1, <1>2, HeardKept DEF operations
<1>3. Typed' /\ SourceSound' /\ Attached'
  <2>1. UNCHANGED <<open, key, source, got, entry, buffer, live, lost, observers>>
    BY <1>1 DEF operations
  <2>2. Typed' /\ Attached'
    BY <1>1, <1>2, <1>6, <2>1 DEF Typed, Attached
  <2>3. SourceSound'
    BY <1>1, <1>2, <1>6, <2>1 DEF SourceSound, IsOperation, IsCached, Served
  <2> QED BY <2>2, <2>3
<1>4. EntrySound'
  BY <1>1, <1>2, <1>6, EntryUnchanged DEF operations
<1>5. Stories'
  BY <1>1, <1>2, <1>6 DEF Stories, Story, operations
<1> QED BY <1>3, <1>4, <1>5, <1>6

LEMMA StartedInv == ASSUME OpsInv, NEW r \in Request, Started(r) PROVE OpsInv'
<1> DEFINE e == [op |-> r, complete |-> FALSE]
<1> USE DEF OpsInv
<1>1. /\ status[r] = "asked" /\ key[r] \in CacheKey /\ CacheSet(key[r], e)
      /\ status' = [status EXCEPT ![r] = "started"]
      /\ source' = [source EXCEPT ![r] = r]
      /\ live' = live \cup {r}
      /\ UNCHANGED <<open, key, got, emitted, missed, buffer, lost, observers, cut>>
  BY KeyIsCached DEF Started
<1>2. /\ r \notin live /\ observers[r] = {} /\ heard[r] = <<>> /\ got[r] = <<>>
      /\ \A q \in Request : r \notin observers[q]
      /\ \A q \in Request : status[q] = "hit" => source[q] # r
  BY <1>1 DEF SourceSound, Attached, IsOperation, Served
<1>3. e \in Entry
  BY DEF Entry
<1>4. entry' \in [CacheKey -> Entry \cup {Absent}]
  BY <1>1, <1>3, SetEntry DEF Typed
<1>11. heard' = heard /\ HeardSound'
  <2>1. \A q \in Request : IsOperation(q) => IsOperation(q)'
    BY <1>1 DEF IsOperation, Typed
  <2>2. \A q \in live' : q \in live \/ (q \in Request /\ ~IsOperation(q))
    BY <1>1 DEF IsOperation
  <2> QED BY <1>1, <2>1, <2>2, HeardKept
<1>5. Typed'
  BY <1>1, <1>4, <1>11 DEF Typed
<1>6. /\ \A q \in Request : IsOperation(q)' <=> IsOperation(q) \/ q = r
      /\ \A q \in Request : q # r => status'[q] = status[q] /\ source'[q] = source[q]
      /\ status'[r] = "started" /\ source'[r] = r
  BY <1>1 DEF Typed, IsOperation
<1>7. SourceSound'
  BY <1>1, <1>6, <1>11 DEF SourceSound, IsOperation, IsCached, Served
<1>8. Attached'
  BY <1>1, <1>2, <1>6 DEF Attached
<1>9. EntrySound'
  <2>1. ASSUME NEW l \in CacheKey, entry'[l] # Absent PROVE EntryHolds(l)'
    <3>1. CASE l = key[r]
      <4>1. entry'[l] = e
        BY <1>1, <1>3, <2>1, <3>1, SetEntry
      <4>2. entry'[l].op = r /\ entry'[l].complete = FALSE /\ key'[r] = l /\ r \in live'
        BY <1>1, <3>1, <4>1
      <4>3. status'[r] = "started"
        BY <1>6
      <4> QED BY <4>2, <4>3 DEF EntryHolds, IsOperation
    <3>2. CASE l # key[r]
      <4>1. entry'[l] = entry[l]
        BY <1>1, <1>3, <2>1, <3>2, SetEntry
      <4>2. entry[l].op \in Request /\ EntryHolds(l)
        BY <2>1, <4>1 DEF Typed, Entry, EntrySound
      <4>3. entry[l].op # r
        BY <1>1, <4>2 DEF EntryHolds, IsOperation
      <4> QED BY <1>1, <1>6, <1>11, <4>1, <4>2, <4>3 DEF EntryHolds
    <3> QED BY <3>1, <3>2
  <2>2. ASSUME NEW o \in Request, IsOperation(o)', IsCached(o)', o \in live'
        PROVE  buffer'[o] = heard'[o]
    BY <1>1, <1>6, <1>11, <2>2 DEF EntrySound, SourceSound, IsOperation, IsCached
  <2> QED BY <2>1, <2>2 DEF EntrySound
<1>10. Stories'
  <2>1. Story(r)'
    BY <1>1, <1>2, <1>6, <1>11 DEF Story
  <2>2. ASSUME NEW q \in Request, q # r, Served(q)' PROVE Story(q)'
    BY <1>1, <1>2, <1>6, <1>11, <2>2 DEF Stories, Story, Served, SourceSound, IsOperation
  <2> QED BY <2>1, <2>2 DEF Stories
<1> QED BY <1>5, <1>7, <1>8, <1>9, <1>10, <1>11

\* An operation without a cache starts with nobody attached and no entry.
LEMMA ForwardStartedInv ==
  ASSUME OpsInv, NEW r \in Request, ForwardStarted(r) PROVE OpsInv'
<1> USE DEF OpsInv
<1>1. /\ status[r] = "asked" /\ ~IsCached(r)
      /\ status' = [status EXCEPT ![r] = "started"]
      /\ source' = [source EXCEPT ![r] = r]
      /\ live' = live \cup {r}
      /\ UNCHANGED <<open, key, entry, got, emitted, missed, buffer, lost, observers, cut>>
  BY DEF ForwardStarted, cache
<1>2. /\ r \notin live /\ observers[r] = {} /\ heard[r] = <<>> /\ got[r] = <<>>
      /\ \A q \in Request : r \notin observers[q]
      /\ \A q \in Request : status[q] = "hit" => source[q] # r
  BY <1>1 DEF SourceSound, Attached, IsOperation, Served
<1>9. heard' = heard /\ HeardSound'
  <2>1. \A q \in Request : IsOperation(q) => IsOperation(q)'
    BY <1>1 DEF IsOperation, Typed
  <2>2. \A q \in live' : q \in live \/ (q \in Request /\ ~IsOperation(q))
    BY <1>1 DEF IsOperation
  <2> QED BY <1>1, <2>1, <2>2, HeardKept
<1>3. Typed'
  BY <1>1, <1>9 DEF Typed
<1>4. /\ \A q \in Request : IsOperation(q)' <=> IsOperation(q) \/ q = r
      /\ \A q \in Request : q # r => status'[q] = status[q] /\ source'[q] = source[q]
      /\ status'[r] = "started" /\ source'[r] = r
  BY <1>1 DEF Typed, IsOperation
<1>5. SourceSound'
  BY <1>1, <1>4, <1>9 DEF SourceSound, IsOperation, IsCached, Served
<1>6. Attached'
  BY <1>1, <1>2, <1>4 DEF Attached
<1>7. EntrySound'
  <2>1. ASSUME NEW l \in CacheKey, entry'[l] # Absent PROVE EntryHolds(l)'
    <3>1. entry[l].op \in Request /\ EntryHolds(l)
      BY <1>1, <2>1 DEF Typed, Entry, EntrySound
    <3>2. entry[l].op # r
      BY <1>1, <3>1 DEF EntryHolds, IsOperation
    <3> QED BY <1>1, <1>4, <1>9, <3>1, <3>2 DEF EntryHolds
  <2>2. ASSUME NEW o \in Request, IsOperation(o)', IsCached(o)', o \in live'
        PROVE  buffer'[o] = heard'[o]
    BY <1>1, <1>4, <1>9, <2>2 DEF EntrySound, IsCached
  <2> QED BY <2>1, <2>2 DEF EntrySound
<1>8. Stories'
  <2>1. Story(r)'
    BY <1>1, <1>2, <1>4, <1>9 DEF Story
  <2>2. ASSUME NEW q \in Request, q # r, Served(q)' PROVE Story(q)'
    BY <1>1, <1>2, <1>4, <1>9, <2>2 DEF Stories, Story, Served, SourceSound, IsOperation
  <2> QED BY <2>1, <2>2 DEF Stories
<1> QED BY <1>3, <1>5, <1>6, <1>7, <1>8, <1>9

-----------------------------------------------------------------------------
\* The steps of an operation.  What a request is sent with an event of operation o:
\* those served from o and open get it, or nobody else does.
LEMMA NotificationInv == ASSUME OpsInv, NEW o \in Request, Notification(o) PROVE OpsInv'
<1> DEFINE e == Len(emitted[o]) + 1
<1> USE DEF OpsInv
<1>0. /\ o \in live /\ e \in Item /\ e \in Event
      /\ heard' = [heard EXCEPT ![o] = Append(@, e)] /\ HeardSound'
  <2>1. /\ o \in live /\ e \in Item /\ e \in Event
        /\ emitted' = [emitted EXCEPT ![o] = Append(@, e)]
        /\ UNCHANGED <<missed, cut, status, live>>
    BY DEF Notification, Running, Event
  <2> QED BY <2>1, HeardMore
<1> HIDE DEF e
<1>1. /\ o \in live /\ IsCached(o) /\ e \in Event
      /\ heard' = [heard EXCEPT ![o] = Append(@, e)]
      /\ buffer' = [buffer EXCEPT ![o] = Append(@, e)]
      /\ got' = Sent({o} \cup observers[o], e)
      /\ UNCHANGED <<open, key, status, source, entry, live, lost, observers, cut>>
  BY <1>0 DEF Notification, cache, e
<1>2. IsOperation(o) /\ source[o] = o /\ buffer[o] = heard[o]
  BY <1>1 DEF SourceSound, EntrySound
<1>3. Typed'
  BY <1>1, SentType DEF Typed
<1>4. \A q \in Request : IsOperation(q)' = IsOperation(q) /\ Served(q)' = Served(q)
  BY <1>1 DEF IsOperation, Served
<1>5. \A q \in Request : q \in {o} \cup observers[o] => Served(q) /\ source[q] = o
  BY <1>2 DEF Attached, Served, IsOperation
<1>6. SourceSound'
  BY <1>1, <1>2, <1>4, <1>5 DEF SourceSound, Sent, Typed, IsOperation, IsCached
<1>7. Attached'
  BY <1>1 DEF Attached
<1>8. EntrySound'
  <2>1. ASSUME NEW k \in CacheKey, entry'[k] # Absent PROVE EntryHolds(k)'
    <3>1. entry[k].op \in Request /\ EntryHolds(k)
      BY <1>1, <2>1 DEF Typed, Entry, EntrySound
    <3>2. entry[k].complete => entry[k].op # o
      BY <1>1, <3>1 DEF EntryHolds
    <3> QED BY <1>1, <1>4, <3>1, <3>2 DEF EntryHolds, Typed
  <2> QED BY <1>1, <1>2, <1>4, <2>1 DEF EntrySound, Typed, IsCached
<1>9. ASSUME NEW q \in Request, Served(q)' PROVE Story(q)'
  <2>1. Story(q) /\ Served(q)
    BY <1>4, <1>9 DEF Stories
  <2>2. CASE source[q] # o
    BY <1>1, <1>5, <2>1, <2>2 DEF Story, Sent, Typed
  <2>3. CASE source[q] = o /\ Owner[q] \in open
    <3>1. q \in {o} \cup observers[o]
      BY <1>1, <2>1, <2>3 DEF Served, Attached, SourceSound, IsOperation
    <3> QED BY <1>1, <2>1, <2>3, <3>1 DEF Story, Sent, Typed
  <2>4. CASE source[q] = o /\ Owner[q] \notin open
    <3>1. got'[q] = got[q] /\ heard'[o] = Append(heard[o], e)
      BY <1>1, <2>4 DEF Sent, Typed
    <3>2. /\ got[q] \in Seq(Event) /\ heard[o] \in Seq(Event)
          /\ source'[q] = o /\ Owner[q] \notin open'
          /\ Len(got[q]) <= Len(heard[o])
          /\ \A i \in 1..Len(got[q]) : got[q][i] = heard[o][i]
      BY <1>1, <2>1, <2>4 DEF Story, Typed
    <3>3. /\ Len(got[q]) <= Len(Append(heard[o], e))
          /\ \A i \in 1..Len(got[q]) : got[q][i] = Append(heard[o], e)[i]
      BY <1>1, <3>2
    <3> QED BY <3>1, <3>2, <3>3 DEF Story
  <2> QED BY <2>2, <2>3, <2>4
<1> QED BY <1>0, <1>3, <1>6, <1>7, <1>8, <1>9 DEF Stories

\* A sequence is a prefix of itself.
LEMMA Whole ==
  ASSUME NEW t \in Seq(Event), NEW s, s = t
  PROVE  Len(s) <= Len(t) /\ \A i \in 1..Len(s) : s[i] = t[i]
  OBVIOUS

\* An operation that ends leaves nobody attached, and only its own client gets the
\* event that ends it.
LEMMA EndInv ==
  ASSUME OpsInv, NEW o \in Request, NEW e \in Event, Running(o),
         emitted' = [emitted EXCEPT ![o] = Append(@, e)], missed' = missed, cut' = cut,
         got' = Sent({o}, e),
         observers' = [observers EXCEPT ![o] = {}],
         live' = live \ {o},
         open' = open, key' = key, status' = status, source' = source, lost' = lost,
         entry' \in [CacheKey -> Entry \cup {Absent}],
         buffer' \in [Request -> Seq(Event)],
         \A q \in Request : q # o => buffer'[q] = buffer[q]
  PROVE  /\ Typed' /\ SourceSound' /\ Attached' /\ Stories' /\ HeardSound'
         /\ heard' = [heard EXCEPT ![o] = Append(@, e)]
<1>0. heard' = [heard EXCEPT ![o] = Append(@, e)] /\ HeardSound'
  BY HeardMore DEF Running
<1> USE DEF OpsInv
<1>1. /\ o \in live /\ IsOperation(o) /\ source[o] = o
      /\ \A q \in Request : IsOperation(q)' = IsOperation(q) /\ Served(q)' = Served(q)
  BY DEF Running, SourceSound, IsOperation, Served
<1>2. Typed'
  <2>1. got' \in [Request -> Seq(Event)]
    BY SentType
  <2>2. heard' \in [Request -> Seq(Event)]
    BY <1>0 DEF Typed
  <2> QED BY <2>1, <2>2 DEF Typed
<1>3. SourceSound'
  BY <1>0, <1>1 DEF SourceSound, Sent, Typed, Served, IsOperation, IsCached
<1>4. Attached'
  BY DEF Attached, Typed
<1>5. ASSUME NEW q \in Request, Served(q)' PROVE Story(q)'
  <2>1. Story(q) /\ Served(q)
    BY <1>1, <1>5 DEF Stories
  <2>2. CASE source[q] # o
    BY <1>0, <1>1, <2>1, <2>2 DEF Story, Sent, Typed
  <2>3. CASE source[q] = o
    <3>1. /\ got[q] \in Seq(Event) /\ heard[o] \in Seq(Event)
          /\ source'[q] = o /\ o \notin live'
          /\ heard'[o] = Append(heard[o], e)
          /\ got'[q] = IF q = o /\ Owner[q] \in open THEN Append(got[q], e) ELSE got[q]
      BY <1>0, <2>3 DEF Typed, Sent
    <3>2. CASE q = o /\ Owner[q] \in open
      <4>1. got[q] = heard[o]
        BY <1>1, <2>1, <2>3, <3>2 DEF Story
      <4>2. got'[q] = heard'[o]
        BY <3>1, <3>2, <4>1
      <4>3. heard'[o] \in Seq(Event)
        BY <3>1
      <4>4. got'[q] = heard'[source'[q]]
        BY <3>1, <4>2
      <4>5. /\ Len(got'[q]) <= Len(heard'[source'[q]])
            /\ \A i \in 1..Len(got'[q]) : got'[q][i] = heard'[source'[q]][i]
        BY <3>1, <4>3, <4>4, Whole
      <4> QED BY <4>4, <4>5 DEF Story
    <3>3. CASE ~(q = o /\ Owner[q] \in open)
      <4>1. /\ Len(got[q]) <= Len(heard[o])
            /\ \A i \in 1..Len(got[q]) : got[q][i] = heard[o][i]
        BY <2>1, <2>3 DEF Story
      <4>2. /\ Len(got[q]) <= Len(Append(heard[o], e))
            /\ \A i \in 1..Len(got[q]) : got[q][i] = Append(heard[o], e)[i]
        BY <3>1, <4>1
      <4>3. got'[q] = got[q]
        BY <3>1, <3>3
      <4>4. heard'[source'[q]] = Append(heard[o], e)
        BY <3>1
      <4>5. /\ Len(got'[q]) <= Len(heard'[source'[q]])
            /\ \A i \in 1..Len(got'[q]) : got'[q][i] = heard'[source'[q]][i]
        BY ONLY <4>2, <4>3, <4>4
      <4> QED BY <3>1, <4>5 DEF Story
    <3> QED BY <3>2, <3>3
  <2> QED BY <2>2, <2>3
<1> QED BY <1>0, <1>2, <1>3, <1>4, <1>5 DEF Stories

LEMMA DoneInv == ASSUME OpsInv, NEW o \in Request, Done(o) PROVE OpsInv'
<1> DEFINE e == [op |-> o, complete |-> TRUE]
<1>1. /\ o \in live /\ Running(o) /\ e \in Entry /\ CacheSet(key[o], e)
      /\ End \in Event
      /\ key[o] \in CacheKey /\ Typed /\ EntrySound
      /\ emitted' = [emitted EXCEPT ![o] = Append(@, End)]
      /\ buffer' = [buffer EXCEPT ![o] = Append(@, End)]
      /\ got' = Sent({o}, End)
      /\ observers' = [observers EXCEPT ![o] = {}]
      /\ live' = live \ {o}
      /\ UNCHANGED <<open, key, status, source, missed, lost, cut>>
  BY KeyIsCached DEF Done, Running, Entry, Event, OpsInv
<1>2. entry' \in [CacheKey -> Entry \cup {Absent}]
  BY <1>1, SetEntry
<1>3. /\ Typed' /\ SourceSound' /\ Attached' /\ Stories' /\ HeardSound'
      /\ heard' = [heard EXCEPT ![o] = Append(@, End)]
  <2>1. /\ buffer' \in [Request -> Seq(Event)]
        /\ \A q \in Request : q # o => buffer'[q] = buffer[q]
    BY <1>1 DEF Typed
  <2> QED BY <1>1, <1>2, <2>1, EndInv
<1>4. IsOperation(o) /\ buffer[o] = heard[o] /\ heard[o] \in Seq(Event)
  BY <1>1, KeyIsCached DEF OpsInv, SourceSound, EntrySound, Typed
<1>5. ASSUME NEW k \in CacheKey, entry'[k] # Absent PROVE EntryHolds(k)'
  <2>1. CASE k = key[o]
    <3>1. entry'[k] = e
      BY <1>1, <1>5, <2>1, SetEntry
    <3>2. entry'[k].op = o /\ entry'[k].complete = TRUE
      BY <3>1
    <3>3. /\ status'[o] = "started" /\ key'[o] = k /\ o \notin live'
          /\ buffer'[o] = heard'[o] /\ heard'[o] = Append(heard[o], End)
      BY <1>1, <1>3, <1>4, <2>1 DEF Typed, IsOperation
    <3>4. Ended(heard'[o])
      BY <1>4, <3>3 DEF Ended
    <3> QED BY <3>2, <3>3, <3>4 DEF EntryHolds, IsOperation
  <2>2. CASE k # key[o]
    <3>1. entry'[k] = entry[k]
      BY <1>1, <1>5, <2>2, SetEntry
    <3>2. entry[k].op \in Request /\ EntryHolds(k)
      BY <1>1, <1>5, <3>1 DEF Typed, Entry, EntrySound
    <3>3. entry[k].op # o
      BY <2>2, <3>2 DEF EntryHolds
    <3> QED BY <1>1, <1>3, <3>1, <3>2, <3>3 DEF EntryHolds, Typed, IsOperation
  <2> QED BY <2>1, <2>2
<1>6. EntrySound'
  BY <1>1, <1>3, <1>5 DEF EntrySound, Typed, IsOperation, IsCached
<1> QED BY <1>3, <1>6 DEF OpsInv

LEMMA FlushInv == ASSUME OpsInv, NEW o \in Request, Flush(o) PROVE OpsInv'
<1>1. /\ Running(o) /\ CacheRemove(key[o]) /\ Failure \in Event
      /\ key[o] \in CacheKey /\ Typed /\ EntrySound
      /\ emitted' = [emitted EXCEPT ![o] = Append(@, Failure)]
      /\ got' = Sent({o}, Failure)
      /\ observers' = [observers EXCEPT ![o] = {}]
      /\ live' = live \ {o}
      /\ UNCHANGED <<open, key, status, source, missed, buffer, lost, cut>>
  BY KeyIsCached DEF Flush, Event, OpsInv
<1>2. /\ entry' \in [CacheKey -> Entry \cup {Absent}]
      /\ entry'[key[o]] = Absent
      /\ \A k \in CacheKey : k # key[o] => entry'[k] = entry[k]
  BY <1>1, RemoveEntry DEF Typed
<1>3. /\ Typed' /\ SourceSound' /\ Attached' /\ Stories' /\ HeardSound'
      /\ heard' = [heard EXCEPT ![o] = Append(@, Failure)]
  <2>1. /\ buffer' \in [Request -> Seq(Event)]
        /\ \A q \in Request : q # o => buffer'[q] = buffer[q]
    BY <1>1 DEF Typed
  <2> QED BY <1>1, <1>2, <2>1, EndInv
<1>4. ASSUME NEW k \in CacheKey, entry'[k] # Absent PROVE EntryHolds(k)'
  <2>1. k # key[o] /\ entry'[k] = entry[k]
    BY <1>2, <1>4
  <2>2. entry[k].op \in Request /\ EntryHolds(k)
    BY <1>1, <1>4, <2>1 DEF Typed, Entry, EntrySound
  <2>3. entry[k].op # o
    BY <2>1, <2>2 DEF EntryHolds
  <2> QED BY <1>1, <1>3, <2>1, <2>2, <2>3 DEF EntryHolds, Typed, IsOperation
<1>5. EntrySound'
  BY <1>1, <1>3, <1>4 DEF EntrySound, Typed, IsOperation, IsCached
<1> QED BY <1>3, <1>5 DEF OpsInv

\* Nobody is served from an operation without a cache but the client that asked for it.
LEMMA ForwardedInv ==
  ASSUME OpsInv, NEW o \in Request, NEW e \in Event, Forwarded(o, e) PROVE OpsInv'
<1> USE DEF OpsInv
<1>0. /\ o \in live /\ UNCHANGED <<missed, cut, status>>
      /\ emitted' = [emitted EXCEPT ![o] = Append(@, e)]
      /\ heard' = [heard EXCEPT ![o] = Append(@, e)] /\ HeardSound'
  <2>1. /\ o \in live /\ UNCHANGED <<missed, cut, status>>
        /\ emitted' = [emitted EXCEPT ![o] = Append(@, e)]
        /\ live' \subseteq live /\ (e \in Item \/ o \notin live')
    BY DEF Forwarded, Running
  <2> QED BY <2>1, HeardMore
<1>1. /\ Running(o) /\ o \in live /\ ~IsCached(o)
      /\ heard' = [heard EXCEPT ![o] = Append(@, e)]
      /\ got' = Sent({o}, e)
      /\ live' = IF e \in Item THEN live ELSE live \ {o}
      /\ UNCHANGED <<open, key, status, source, entry, buffer, lost, observers, cut>>
  BY <1>0 DEF Forwarded, Running, cache
<1>2. /\ IsOperation(o) /\ source[o] = o /\ observers[o] = {}
      /\ \A q \in Request : Served(q) /\ source[q] = o => q = o
  BY <1>1 DEF SourceSound, Attached, Served, IsOperation, Typed
<1>3. /\ \A q \in Request : /\ IsOperation(q)' = IsOperation(q) /\ Served(q)' = Served(q)
                            /\ IsCached(q)' = IsCached(q)
      /\ \A q \in Request : q # o => (q \in live' <=> q \in live)
  BY <1>1 DEF IsOperation, Served, IsCached
<1>4. EntrySound'
  <2>1. ASSUME NEW k \in CacheKey, entry'[k] # Absent PROVE EntryHolds(k)'
    <3>1. entry[k].op \in Request /\ EntryHolds(k)
      BY <1>1, <2>1 DEF Typed, Entry, EntrySound
    <3>2. entry[k].op # o
      BY <1>1, <3>1, KeyIsCached DEF EntryHolds
    <3> QED BY <1>1, <1>3, <3>1, <3>2 DEF EntryHolds, Typed
  <2>2. ASSUME NEW q \in Request, IsOperation(q)', IsCached(q)', q \in live'
        PROVE  buffer'[q] = heard'[q]
    BY <1>1, <1>3, <2>2 DEF EntrySound, Typed
  <2> QED BY <2>1, <2>2 DEF EntrySound
<1>5. CASE e \notin Item
  <2>1. observers' = [observers EXCEPT ![o] = {}] /\ live' = live \ {o}
    BY <1>1, <1>2, <1>5 DEF Typed
  <2>2. entry' \in [CacheKey -> Entry \cup {Absent}] /\ buffer' \in [Request -> Seq(Event)]
    BY <1>1 DEF Typed
  <2> QED BY <1>0, <1>1, <1>4, <2>1, <2>2, EndInv
<1>6. CASE e \in Item
  <2>1. Typed'
    BY <1>1, SentType DEF Typed
  <2>2. SourceSound'
    <3>1. /\ live' = live /\ Served(o)
          /\ \A q \in Request : q # o => heard'[q] = heard[q] /\ got'[q] = got[q]
      BY <1>1, <1>2, <1>6 DEF Sent, Typed, Served, IsOperation
    <3>2. \A q \in Request : IsCached(source[q])' = IsCached(source[q])
      BY <1>1 DEF IsCached
    <3>3. \A q \in Request : IsOperation(source[q])' = IsOperation(source[q])
      BY <1>1 DEF IsOperation
    <3> QED BY <1>1, <1>2, <1>3, <3>1, <3>2, <3>3 DEF SourceSound
  <2>3. Attached'
    BY <1>1, <1>6 DEF Attached
  <2>4. ASSUME NEW q \in Request, Served(q)' PROVE Story(q)'
    <3>1. Story(q) /\ Served(q)
      BY <1>3, <2>4 DEF Stories
    <3>2. CASE q # o
      BY <1>1, <1>2, <1>6, <3>1, <3>2 DEF Story, Sent, Typed
    <3>3. CASE q = o /\ Owner[q] \in open
      <4>1. got[q] = heard[o] /\ heard[o] \in Seq(Event)
        BY <1>1, <1>2, <3>1, <3>3 DEF Story, Typed
      <4>2. /\ source'[q] = o /\ got'[q] = Append(got[q], e)
            /\ heard'[o] = Append(heard[o], e)
        BY <1>1, <1>2, <3>3 DEF Sent, Typed
      <4>3. got'[q] = heard'[source'[q]] /\ heard'[source'[q]] \in Seq(Event)
        BY <4>1, <4>2
      <4>4. /\ Len(got'[q]) <= Len(heard'[source'[q]])
            /\ \A i \in 1..Len(got'[q]) : got'[q][i] = heard'[source'[q]][i]
        BY <4>3, Whole
      <4> QED BY <4>3, <4>4 DEF Story
    <3>4. CASE q = o /\ Owner[q] \notin open
      <4>1. /\ got'[q] = got[q] /\ heard'[o] = Append(heard[o], e)
            /\ source'[q] = o /\ Owner[q] \notin open'
        BY <1>1, <1>2, <3>4 DEF Sent, Typed
      <4>2. /\ got[q] \in Seq(Event) /\ heard[o] \in Seq(Event)
            /\ Len(got[q]) <= Len(heard[o])
            /\ \A i \in 1..Len(got[q]) : got[q][i] = heard[o][i]
        BY <1>2, <3>1, <3>4 DEF Story, Typed
      <4>3. /\ Len(got[q]) <= Len(Append(heard[o], e))
            /\ \A i \in 1..Len(got[q]) : got[q][i] = Append(heard[o], e)[i]
        BY <4>2
      <4> QED BY <4>1, <4>2, <4>3 DEF Story
    <3> QED BY <3>2, <3>3, <3>4
  <2> QED BY <1>0, <1>4, <2>1, <2>2, <2>3, <2>4 DEF Stories
<1> QED BY <1>5, <1>6

LEMMA LostInv == ASSUME OpsInv, NEW o \in Request, Lost(o) PROVE OpsInv'
<1>1. /\ Typed /\ lost' = lost \cup {o}
      /\ UNCHANGED <<open, key, replies, order, entry, emitted, missed, buffer, live, observers, cut>>
  BY DEF Lost, cache, OpsInv
<1>2. \A q \in Request : IsOperation(q)' = IsOperation(q)
  BY <1>1 DEF replies, IsOperation
<1>3. heard' = heard /\ HeardSound'
  BY <1>1, <1>2, HeardKept DEF Lost
<1> QED BY <1>1, <1>2, <1>3, EntryUnchanged
        DEF OpsInv, Typed, SourceSound, Attached, Stories, Story, Served,
            replies, IsOperation, IsCached

\* Before the operation is one, nothing that comes is heard.
LEMMA EarlyInv == ASSUME OpsInv, NEW o \in Request, NEW e \in Event, Early(o, e) PROVE OpsInv'
<1>1. /\ status[o] = "asked"
      /\ emitted' = [emitted EXCEPT ![o] = Append(@, e)]
      /\ missed' = [missed EXCEPT ![o] = @ + 1]
      /\ UNCHANGED <<open, key, status, source, got, entry, buffer, live, lost, observers, cut>>
  BY DEF Early, replies, cache
<1>2. /\ emitted[o] \in Seq(Event) /\ missed[o] = Len(emitted[o]) /\ ~IsOperation(o)
      /\ emitted'[o] = Append(emitted[o], e) /\ missed'[o] = missed[o] + 1
      /\ \A q \in Request : q # o => emitted'[q] = emitted[q] /\ missed'[q] = missed[q]
  BY <1>1 DEF OpsInv, HeardSound, IsOperation
<1>3. heard' = heard
  <2>1. Heard(o) = <<>> /\ Heard(o)' = <<>>
    <3>1. missed'[o] = Len(emitted'[o]) /\ emitted'[o] \in Seq(Event)
      BY <1>2
    <3> QED BY <1>2, <3>1 DEF Heard
  <2>2. \A q \in Request : q # o => Heard(q)' = Heard(q)
    BY <1>2 DEF Heard
  <2> QED BY <2>1, <2>2 DEF heard
<1>4. \A q \in Request : IsOperation(q)' = IsOperation(q) /\ Served(q)' = Served(q)
  BY <1>1 DEF IsOperation, Served
<1>5. HeardSound'
  <2>1. emitted' \in [Request -> Seq(Event)] /\ missed' \in [Request -> Nat]
    BY <1>1 DEF OpsInv, HeardSound
  <2>2. ASSUME NEW q \in Request
        PROVE  missed'[q] <= Len(emitted'[q]) /\ (~IsOperation(q)' => missed'[q] = Len(emitted'[q]))
    <3>1. CASE q = o
      BY <1>2, <3>1
    <3>2. CASE q # o
      BY <1>2, <1>4, <3>2 DEF OpsInv, HeardSound
    <3> QED BY <3>1, <3>2
  <2>3. \A q \in cut' : IsOperation(q)' /\ q \notin live'
    BY <1>1, <1>4 DEF OpsInv, HeardSound
  <2>4. \A q \in live' \cup cut' : \A i \in 1..Len(heard'[q]) : heard'[q][i] \in Item
    BY <1>1, <1>3 DEF OpsInv, HeardSound
  <2>5. cut' \subseteq Request
    BY <1>1 DEF OpsInv, HeardSound
  <2> QED BY <2>1, <2>2, <2>3, <2>4, <2>5 DEF HeardSound
<1>6. Typed' /\ SourceSound' /\ Attached'
  BY <1>1, <1>3, <1>4 DEF OpsInv, Typed, SourceSound, Attached, IsOperation, IsCached, Served
<1>7. EntrySound'
  BY <1>1, <1>3, <1>4, EntryUnchanged DEF OpsInv
<1>8. Stories'
  BY <1>1, <1>3, <1>4 DEF OpsInv, Stories, Story
<1> QED BY <1>5, <1>6, <1>7, <1>8 DEF OpsInv

\* The entry of an operation that is stopped is complete, with what was heard by then.
LEMMA StoppedInv == ASSUME OpsInv, NEW o \in Request, Stopped(o) PROVE OpsInv'
<1> DEFINE e == [op |-> o, complete |-> TRUE]
<1>1. /\ o \in live /\ e \in Entry /\ Typed
      /\ observers' = [observers EXCEPT ![o] = {}]
      /\ live' = live \ {o} /\ cut' = cut \cup {o}
      /\ UNCHANGED <<open, key, status, source, got, emitted, missed, buffer, lost>>
      /\ IF IsCached(o) THEN CacheSet(key[o], e) ELSE entry' = entry
  BY DEF Stopped, Entry, replies, cache, OpsInv
<1>2. IsCached(o) => key[o] \in CacheKey
  BY <1>1, KeyIsCached
<1>3. /\ entry' \in [CacheKey -> Entry \cup {Absent}]
      /\ \A k \in CacheKey : \/ k # key[o] /\ entry'[k] \in {entry[k], Absent}
                             \/ k = key[o] /\ IsCached(o) /\ entry'[k] \in {e, Absent}
  <2>1. CASE IsCached(o)
    BY <1>1, <1>2, <2>1, SetEntry
  <2>2. CASE ~IsCached(o)
    <3>1. \A k \in CacheKey : k # key[o]
      BY <1>1, <2>2, KeyIsCached
    <3> QED BY <1>1, <2>2, <3>1 DEF Typed
  <2> QED BY <2>1, <2>2
<1>4. heard' = heard
  BY <1>1 DEF heard, Heard
<1>5. IsOperation(o) /\ (IsCached(o) => buffer[o] = heard[o])
  BY <1>1 DEF OpsInv, SourceSound, EntrySound
<1>6. \A q \in Request : /\ IsOperation(q)' = IsOperation(q) /\ Served(q)' = Served(q)
                         /\ IsCached(q)' = IsCached(q)
  BY <1>1 DEF IsOperation, Served, IsCached
<1>7. Typed' /\ SourceSound' /\ Attached'
  <2>1. Typed'
    BY <1>1, <1>3, <1>4 DEF Typed
  <2>2. SourceSound'
    BY <1>1, <1>4, <1>6 DEF OpsInv, SourceSound, Typed, IsOperation, IsCached, Served
  <2>3. Attached'
    BY <1>1 DEF OpsInv, Attached, Typed
  <2> QED BY <2>1, <2>2, <2>3
<1>8. HeardSound'
  BY <1>1, <1>4, <1>5, <1>6 DEF OpsInv, HeardSound
<1>9. ASSUME NEW k \in CacheKey, entry'[k] # Absent PROVE EntryHolds(k)'
  <2>1. CASE k = key[o]
    <3>1. entry'[k] = e /\ IsCached(o)
      BY <1>3, <1>9, <2>1
    <3>2. entry'[k].op = o /\ entry'[k].complete = TRUE
      BY <3>1
    <3>3. /\ status'[o] = "started" /\ key'[o] = k /\ o \notin live'
          /\ buffer'[o] = heard'[o] /\ o \in cut'
      BY <1>1, <1>4, <1>5, <2>1, <3>1 DEF IsOperation
    <3> QED BY <3>2, <3>3 DEF EntryHolds, IsOperation
  <2>2. CASE k # key[o]
    <3>1. entry'[k] = entry[k]
      BY <1>3, <1>9, <2>2
    <3>2. entry[k].op \in Request /\ EntryHolds(k)
      BY <1>1, <1>9, <3>1 DEF Typed, Entry, OpsInv, EntrySound
    <3>3. entry[k].op # o
      BY <2>2, <3>2 DEF EntryHolds
    <3> QED BY <1>1, <1>4, <3>1, <3>2, <3>3 DEF EntryHolds, IsOperation
  <2> QED BY <2>1, <2>2
<1>10. EntrySound'
  BY <1>1, <1>4, <1>6, <1>9 DEF OpsInv, EntrySound
<1>11. Stories'
  BY <1>1, <1>4, <1>6 DEF OpsInv, Stories, Story
<1> QED BY <1>7, <1>8, <1>10, <1>11 DEF OpsInv

-----------------------------------------------------------------------------
\* A client closes.
LEMMA CloseInv == ASSUME OpsInv, NEW c \in Client, Close(c) PROVE OpsInv'
<1> USE DEF OpsInv
<1>1. /\ open' = open \ {c}
      /\ observers' = [o \in Request |-> {r \in observers[o] : Owner[r] # c}]
      /\ UNCHANGED <<key, status, source, got, entry, emitted, missed, buffer, live, lost, cut>>
  BY DEF Close, Detached, replies, cache
<1>2. \A q \in Request : IsOperation(q)' = IsOperation(q) /\ Served(q)' = Served(q)
  BY <1>1 DEF IsOperation, Served
<1>8. heard' = heard /\ HeardSound'
  BY <1>1, <1>2, HeardKept
<1>3. Typed'
  BY <1>1, <1>8 DEF Typed
<1>4. SourceSound'
  BY <1>1, <1>2, <1>8 DEF SourceSound, Typed, IsCached
<1>5. Attached'
  BY <1>1 DEF Attached, Typed
<1>6. EntrySound'
  BY <1>1, <1>2, <1>8, EntryUnchanged
<1>7. Stories'
  BY <1>1, <1>2, <1>8 DEF Stories, Story
<1> QED BY <1>3, <1>4, <1>5, <1>6, <1>7, <1>8

LEMMA OpsNextInv == OpsInv /\ [OpsNext]_opsVars => OpsInv'
<1> SUFFICES ASSUME OpsInv, [OpsNext]_opsVars PROVE OpsInv'
  OBVIOUS
<1>1. CASE UNCHANGED opsVars
  <2>1. heard' = heard
    BY <1>1 DEF heard, Heard, opsVars, operations
  <2> QED BY <1>1, <2>1 DEF OpsInv, HeardSound, Typed, SourceSound, Attached, EntrySound, EntryHolds, Stories, Story,
         Served, IsOperation, IsCached, opsVars, replies, cache, operations
<1>2. CASE OpsNext
  BY <1>2, HitInv, AskInv, StartedInv, NotificationInv, DoneInv, FlushInv, LostInv,
     CloseInv, ForwardStartedInv, ForwardedInv, EarlyInv, StoppedInv DEF OpsNext
<1> QED BY <1>1, <1>2

\* What the handler keeps up between any two events of the loop.
THEOREM OpsInvariance == OpsSpec => []OpsInv
  BY OpsInitInv, OpsNextInv, PTL DEF OpsSpec

\* ops/handler.ts: whoever started the operation or was served from the cache is sent
\* what was heard of it in order, without gap or repetition, and all of it while it runs.
THEOREM SameStoryHolds == OpsSpec => []SameStory
<1>1. OpsInv => SameStory
  <2> SUFFICES ASSUME OpsInv, NEW r \in Request, Served(r)
               PROVE  /\ IsPrefix(got[r], Heard(source[r]))
                      /\ Owner[r] \in open /\ source[r] \in live =>
                           got[r] = Heard(source[r])
    BY DEF SameStory
  <2>1. Story(r) /\ source[r] \in Request
    BY DEF OpsInv, Stories, SourceSound, Served, IsOperation
  <2>2. got[r] \in Seq(Event) /\ heard[source[r]] \in Seq(Event)
    BY <2>1 DEF OpsInv, Typed
  <2>3. SubSeq(got[r], 1, Len(got[r])) = SubSeq(heard[source[r]], 1, Len(got[r]))
    BY <2>1, <2>2 DEF Story
  <2>4. heard[source[r]] = Heard(source[r])
    BY <2>1 DEF heard
  <2> QED BY <2>1, <2>3, <2>4 DEF Story, IsPrefix
<1> QED BY <1>1, OpsInvariance, PTL

\* The cache: a complete entry is an operation that ended well and is replayed to its
\* end, unless its connection was stopped; no failure is replayed, and an incomplete
\* entry is one that is listened to.
THEOREM CacheIsGoodHolds == OpsSpec => []CacheIsGood
<1>1. OpsInv => CacheIsGood
  <2> SUFFICES ASSUME OpsInv, NEW k \in CacheKey, entry[k] # Absent, NEW o, o = entry[k].op,
                      NEW e, e = Heard(o)
               PROVE  /\ entry[k].complete => buffer[o] = e /\ (o \in cut \/ Ended(e))
                      /\ o \in cut => entry[k].complete /\ \A i \in 1..Len(e) : e[i] \in Item
                      /\ ~entry[k].complete => o \in live
    BY DEF CacheIsGood, Ended
  <2>1. EntryHolds(k) /\ o \in Request
    BY DEF OpsInv, EntrySound, Typed, Entry
  <2>2. heard[o] = e
    BY <2>1 DEF heard
  <2>3. o \in cut => o \notin live /\ \A i \in 1..Len(e) : e[i] \in Item
    BY <2>2 DEF OpsInv, HeardSound
  <2> QED BY <2>1, <2>2, <2>3 DEF EntryHolds
<1> QED BY <1>1, OpsInvariance, PTL

\* `notifications` and onClose: nobody listens for a client that is gone, nor to an
\* operation that is over.
THEOREM ObserversOpenHolds == OpsSpec => []ObserversOpen
<1>1. OpsInv => ObserversOpen
  BY DEF OpsInv, Typed, Attached, ObserversOpen
<1> QED BY <1>1, OpsInvariance, PTL

-----------------------------------------------------------------------------
(* The order of use: short enough, with every key that has an entry in it.     *)

Recent ==
  /\ order \in Seq(CacheKey) /\ Len(order) <= CacheSize
  /\ \A k \in CacheKey : entry[k] # Absent => k \in Items(order)

\* What is buffered is never a failure.
Buffered == buffer \in [Request -> Seq(Event \ {Failure})]

LEMMA OpsLruIs ==
  /\ \A s, k : Lru!Without(s, k) = Within(s, CacheKey \ {k})
  /\ \A s, k : Lru!Used(s, k) = <<k>> \o Within(s, CacheKey \ {k})
  /\ \A s, k : Lru!Cached(s, k) <=> k \in Items(s)
<1>1. \A s, S : Lru!Within(s, S) = Within(s, S)
  BY DEF Lru!Within, Within
<1> QED BY <1>1 DEF Lru!Without, Lru!Used, Lru!Cached, Items

LEMMA WithinItems ==
  ASSUME NEW s \in Seq(CacheKey), NEW S
  PROVE  /\ Within(s, S) \in Seq(CacheKey) /\ Len(Within(s, S)) <= Len(s)
         /\ Items(Within(s, S)) = Items(s) \cap S
<1>1. Within(s, S) \in Seq(CacheKey)
  BY WithinRange
<1>2. Len(Within(s, S)) <= Len(s)
  BY WithinRange
<1>3. {Within(s, S)[i] : i \in 1..Len(Within(s, S))} = {s[i] : i \in 1..Len(s)} \cap S
  BY WithinRange
<1> QED BY <1>1, <1>2, <1>3 DEF Items

\* Taking a key out, and putting it in front.
LEMMA TakenOut ==
  ASSUME NEW s \in Seq(CacheKey), NEW k \in CacheKey
  PROVE  /\ Within(s, CacheKey \ {k}) \in Seq(CacheKey) /\ Len(Within(s, CacheKey \ {k})) <= Len(s)
         /\ k \in Items(s) => Len(Within(s, CacheKey \ {k})) < Len(s)
         /\ Items(Within(s, CacheKey \ {k})) = Items(s) \ {k}
<1>1. /\ Within(s, CacheKey \ {k}) \in Seq(CacheKey)
      /\ Len(Within(s, CacheKey \ {k})) <= Len(s)
      /\ Items(Within(s, CacheKey \ {k})) = Items(s) \cap (CacheKey \ {k})
  BY WithinItems
<1>2. Items(s) \subseteq CacheKey
  BY DEF Items
<1>3. ASSUME NEW i \in 1..Len(s), s[i] = k PROVE Len(Within(s, CacheKey \ {k})) < Len(s)
  BY <1>3, WithinShorter
<1> QED BY <1>1, <1>2, <1>3 DEF Items

LEMMA PutInFront ==
  ASSUME NEW s \in Seq(CacheKey), NEW k \in CacheKey
  PROVE  /\ <<k>> \o Within(s, CacheKey \ {k}) \in Seq(CacheKey)
         /\ Len(<<k>> \o Within(s, CacheKey \ {k})) = Len(Within(s, CacheKey \ {k})) + 1
         /\ Items(s) \subseteq Items(<<k>> \o Within(s, CacheKey \ {k}))
<1>1. PICK w : w = Within(s, CacheKey \ {k})
  OBVIOUS
<1>2. w \in Seq(CacheKey) /\ Items(w) = Items(s) \ {k}
  BY <1>1, TakenOut
<1>3. /\ <<k>> \o w \in Seq(CacheKey) /\ Len(<<k>> \o w) = Len(w) + 1
      /\ (<<k>> \o w)[1] = k /\ \A i \in 1..Len(w) : (<<k>> \o w)[i + 1] = w[i]
  BY <1>2
<1>4. ASSUME NEW i \in 1..Len(w) PROVE w[i] \in Items(<<k>> \o w)
  <2>1. i + 1 \in 1..Len(<<k>> \o w) /\ (<<k>> \o w)[i + 1] = w[i]
    BY <1>2, <1>3
  <2> QED BY <2>1 DEF Items
<1>5. k \in Items(<<k>> \o w)
  <2>1. 1 \in 1..Len(<<k>> \o w)
    BY <1>2, <1>3
  <2> QED BY <1>3, <2>1 DEF Items
<1>6. Items(w) \subseteq Items(<<k>> \o w)
  BY <1>4 DEF Items
<1> QED BY <1>1, <1>2, <1>3, <1>5, <1>6

\* cache.get of a cached key, cache.set and cache.remove.
LEMMA HitRecent ==
  ASSUME Recent, NEW k \in CacheKey, entry[k] # Absent,
         order' = Lru!Used(order, k), entry' = entry, CacheSize \in Nat
  PROVE  Recent'
<1>1. order' = <<k>> \o Within(order, CacheKey \ {k}) /\ k \in Items(order)
  BY OpsLruIs DEF Recent
<1>2. order \in Seq(CacheKey) /\ Len(order) <= CacheSize /\ Len(order) \in Nat
  BY DEF Recent
<1>3. /\ Len(Within(order, CacheKey \ {k})) < Len(order)
      /\ Len(Within(order, CacheKey \ {k})) \in Nat
  BY <1>1, <1>2, TakenOut
<1>4. /\ order' \in Seq(CacheKey) /\ Len(order') = Len(Within(order, CacheKey \ {k})) + 1
      /\ Items(order) \subseteq Items(order')
  BY <1>1, <1>2, PutInFront
<1> QED BY <1>2, <1>3, <1>4 DEF Recent

LEMMA SetRecent ==
  ASSUME Recent, NEW k \in CacheKey, NEW e, CacheSet(k, e), CacheSize \in Nat
  PROVE  Recent'
<1>1. PICK u : u = Lru!Used(order, k)
  OBVIOUS
<1>2. u \in Seq(CacheKey) /\ Len(u) \in Nat
  <2>1. <<k>> \o Within(order, CacheKey \ {k}) \in Seq(CacheKey)
    BY PutInFront DEF Recent
  <2>2. u = <<k>> \o Within(order, CacheKey \ {k})
    BY <1>1, OpsLruIs
  <2>3. u \in Seq(CacheKey)
    BY <2>1, <2>2
  <2> QED BY <2>3
<1>3. PICK n : n = IF Len(u) > CacheSize THEN CacheSize ELSE Len(u)
  OBVIOUS
<1>4. order' = SubSeq(u, 1, n)
  BY <1>1, <1>3 DEF CacheSet, Lru!Stored
<1>5. n \in 0..CacheSize /\ n <= Len(u)
  BY <1>2, <1>3
<1>6. order' \in Seq(CacheKey) /\ Len(order') = n
  <2>1. 1 \in Int /\ n \in Int /\ \A i \in 1..n : u[i] \in CacheKey
    BY <1>2, <1>5
  <2>2. /\ SubSeq(u, 1, n) \in Seq(CacheKey)
        /\ Len(SubSeq(u, 1, n)) = IF 1 <= n THEN n - 1 + 1 ELSE 0
    BY <2>1, SubSeqProperties
  <2> QED BY <1>4, <1>5, <2>2
<1>7. \A l \in CacheKey : entry'[l] # Absent => l \in Items(order')
  BY OpsLruIs DEF CacheSet
<1> QED BY <1>5, <1>6, <1>7 DEF Recent

LEMMA RemoveRecent ==
  ASSUME Recent, Typed, NEW k \in CacheKey, CacheRemove(k), CacheSize \in Nat
  PROVE  Recent'
<1>1. order' = Within(order, CacheKey \ {k})
  BY OpsLruIs DEF CacheRemove
<1>2. order \in Seq(CacheKey) /\ Len(order) <= CacheSize /\ Len(order) \in Nat
  BY DEF Recent
<1>3. /\ order' \in Seq(CacheKey) /\ Len(order') <= Len(order) /\ Items(order') = Items(order) \ {k}
  BY <1>1, <1>2, TakenOut
<1>4. \A l \in CacheKey : entry'[l] # Absent => l # k /\ entry[l] # Absent
  BY RemoveEntry DEF Typed, CacheRemove
<1>5. Len(order') \in Nat
  BY <1>3
<1> QED BY <1>2, <1>3, <1>4, <1>5 DEF Recent

LEMMA RecentStep ==
  ASSUME OpsInv, Recent, [OpsNext]_opsVars
  PROVE  Recent'
<1>1. CacheSize \in Nat /\ Typed
  BY CacheAssumption DEF OpsInv
<1>2. ASSUME UNCHANGED <<order, entry>> PROVE Recent'
  BY <1>2 DEF Recent
<1>3. ASSUME NEW r \in Request, IsCached(r) PROVE key[r] \in CacheKey
  BY <1>1, <1>3, KeyIsCached
<1>4. ASSUME NEW r \in Request, Hit(r) PROVE Recent'
  BY <1>1, <1>3, <1>4, HitRecent DEF Hit
<1>5. ASSUME NEW r \in Request, Started(r) PROVE Recent'
  BY <1>1, <1>3, <1>5, SetRecent DEF Started
<1>6. ASSUME NEW o \in Request, Done(o) PROVE Recent'
  BY <1>1, <1>3, <1>6, SetRecent DEF Done
<1>7. ASSUME NEW o \in Request, Flush(o) PROVE Recent'
  BY <1>1, <1>3, <1>7, RemoveRecent DEF Flush
<1>8. ASSUME NEW r \in Request, Miss(r) \/ Refused(r) PROVE Recent'
  BY <1>2, <1>8 DEF Miss, Refused, cache
<1>14. ASSUME NEW o \in Request, Stopped(o) PROVE Recent'
  BY <1>1, <1>2, <1>3, <1>14, SetRecent DEF Stopped, cache
<1>15. ASSUME NEW o \in Request, NEW e \in Event, Early(o, e) PROVE Recent'
  BY <1>2, <1>15 DEF Early, cache
<1>9. ASSUME NEW o \in Request, Notification(o) \/ Lost(o) PROVE Recent'
  BY <1>2, <1>9 DEF Notification, Lost, cache
<1>10. ASSUME NEW c \in Client, Close(c) PROVE Recent'
  BY <1>2, <1>10 DEF Close, cache
<1>11. ASSUME NEW o \in Request, NEW e \in Event, Forwarded(o, e) PROVE Recent'
  BY <1>2, <1>11 DEF Forwarded, cache
<1>12. ASSUME NEW r \in Request, ForwardStarted(r) PROVE Recent'
  BY <1>2, <1>12 DEF ForwardStarted, cache
<1>13. CASE UNCHANGED opsVars
  BY <1>2, <1>13 DEF opsVars, cache
<1> QED BY <1>4, <1>5, <1>6, <1>7, <1>8, <1>9, <1>10, <1>11, <1>12, <1>13, <1>14,
          <1>15 DEF OpsNext

LEMMA BufferedStep ==
  ASSUME Buffered, [OpsNext]_opsVars
  PROVE  Buffered'
<1>1. \A e \in Item \cup {End} : e \in Event \ {Failure}
  BY CacheAssumption DEF Item, End, Failure, Event
<1>2. ASSUME NEW o \in Request, NEW e \in Item \cup {End},
             buffer' = [buffer EXCEPT ![o] = Append(@, e)]
      PROVE  Buffered'
  BY <1>1, <1>2 DEF Buffered
<1>3. ASSUME NEW o \in Request, Notification(o) PROVE Buffered'
  BY <1>2, <1>3 DEF Notification
<1>4. ASSUME NEW o \in Request, Done(o) PROVE Buffered'
  BY <1>2, <1>4 DEF Done
<1>5. ASSUME buffer' = buffer PROVE Buffered'
  BY <1>5 DEF Buffered
<1>6. ASSUME NEW o \in Request, Flush(o) \/ Lost(o) \/ Stopped(o) PROVE Buffered'
  BY <1>5, <1>6 DEF Flush, Lost, Stopped
<1>7. ASSUME NEW r \in Request,
             Hit(r) \/ Miss(r) \/ Refused(r) \/ Started(r) \/ ForwardStarted(r)
      PROVE  Buffered'
  BY <1>5, <1>7 DEF Hit, Miss, Refused, Started, ForwardStarted, operations
<1>8. ASSUME NEW c \in Client, Close(c) PROVE Buffered'
  BY <1>5, <1>8 DEF Close
<1>9. ASSUME NEW o \in Request, NEW e \in Event, Early(o, e) \/ Forwarded(o, e)
      PROVE  Buffered'
  BY <1>5, <1>9 DEF Early, Forwarded
<1>10. CASE UNCHANGED opsVars
  BY <1>5, <1>10 DEF opsVars, operations
<1> QED BY <1>3, <1>4, <1>6, <1>7, <1>8, <1>9, <1>10 DEF OpsNext

\* The cache never grows over CacheSize, an entry is always in the order of use, and a
\* failure is never buffered.
THEOREM OpsTypeCorrect == OpsSpec => []OpsTypeOK
<1>1. OpsInit => Recent /\ Buffered
  <2>1. <<>> \in Seq(CacheKey) /\ Len(<<>>) = 0
    OBVIOUS
  <2> QED BY <2>1, CacheAssumption DEF OpsInit, Recent, Buffered
<1>2. OpsInv /\ Recent /\ Buffered /\ [OpsNext]_opsVars => Recent' /\ Buffered'
  BY RecentStep, BufferedStep
<1>3. OpsInv /\ Recent /\ Buffered => OpsTypeOK
  BY DEF OpsInv, Typed, HeardSound, Recent, Buffered, OpsTypeOK
<1> QED BY <1>1, <1>2, <1>3, OpsInvariance, PTL DEF OpsSpec
===============================================================================
