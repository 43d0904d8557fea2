-------------------------- MODULE UpstreamPoolProofs --------------------------
(* Safety of the pools of connections, for any number of clients, pools,       *)
(* connections and limits: first the client counters, which do not depend on  *)
(* the order of the heaps, then the heap as a data structure, then the pools.  *)
EXTENDS UpstreamPool, InductionLemmas, SequenceTheorems

\* The counters and who uses the connections.
Typed ==
  /\ count \in [Conn -> Nat]
  /\ assigned \in [Client -> Conn \cup {None}]
  /\ starters \subseteq Conn

Inv == Typed /\ NeverOvercounted

\* Clients that use a connection can be counted; fewer count no more.
LEMMA HoldersSize ==
  /\ \A c : IsFiniteSet(Holders(c)) /\ Cardinality(Holders(c)) \in Nat
  /\ \A S, T \in SUBSET Client : S \subseteq T => Cardinality(S) <= Cardinality(T)
<1>1. \A S \in SUBSET Client : IsFiniteSet(S) /\ Cardinality(S) \in Nat
  BY PoolAssumption, FS_Subset, FS_CardinalityType
<1>2. \A S, T \in SUBSET Client : S \subseteq T => Cardinality(S) <= Cardinality(T)
  BY <1>1, FS_Subset
<1>3. \A c : Holders(c) \in SUBSET Client
  BY DEF Holders
<1> QED BY <1>1, <1>2, <1>3

\* release(): the counters after a client left its connection, and its clients then.
LEMMA Releasing ==
  ASSUME Inv, NEW cl \in Client
  PROVE  /\ Released(assigned[cl]) \in [Conn -> Nat]
         /\ \A c \in Conn :
              Released(assigned[cl])[c] <=
                Cardinality(Holders(c) \ {cl}) + (IF c \in starters THEN 1 ELSE 0)
<1> DEFINE n == Released(assigned[cl])
<1>1. n \in [Conn -> Nat]
  BY PoolAssumption DEF Inv, Typed, Released
<1>2. ASSUME NEW c \in Conn
      PROVE  n[c] <= Cardinality(Holders(c) \ {cl}) + (IF c \in starters THEN 1 ELSE 0)
  <2>1. count[c] <= Cardinality(Holders(c)) + (IF c \in starters THEN 1 ELSE 0)
    BY DEF Inv, NeverOvercounted
  <2>2. CASE assigned[cl] = c
    <3>1. cl \in Holders(c)
      BY <2>2 DEF Holders
    <3>2. Cardinality(Holders(c) \ {cl}) = Cardinality(Holders(c)) - 1
      BY <3>1, HoldersSize, FS_RemoveElement
    <3>3. n[c] = IF count[c] = 0 THEN 0 ELSE count[c] - 1
      BY <2>2, PoolAssumption DEF Released, Inv, Typed
    <3>4. Cardinality(Holders(c)) \in Nat /\ Cardinality(Holders(c)) # 0
      BY <3>1, HoldersSize, FS_EmptySet
    <3> QED BY <2>1, <3>2, <3>3, <3>4 DEF Inv, Typed
  <2>3. CASE assigned[cl] # c
    <3>1. Holders(c) \ {cl} = Holders(c)
      BY <2>3 DEF Holders
    <3>2. n[c] = count[c]
      BY <2>3 DEF Released, Inv, Typed
    <3> QED BY <2>1, <3>1, <3>2
  <2> QED BY <2>2, <2>3
<1> QED BY <1>1, <1>2

LEMMA InitInv == Init => Inv
<1> SUFFICES ASSUME Init PROVE Inv
  OBVIOUS
<1>1. starters \subseteq Conn
  BY PoolAssumption DEF Init, Conn
<1>2. Typed
  BY <1>1 DEF Init, Typed
<1>3. NeverOvercounted
  BY HoldersSize DEF Init, NeverOvercounted
<1> QED BY <1>2, <1>3 DEF Inv

-----------------------------------------------------------------------------
\* A client moves to another connection, an existing one or a new one, or to the one
\* it had and whose counter was reset.
LEMMA ResolveInv ==
  ASSUME Inv, NEW cl \in Client, NEW m \in Method, ResolveUpstream(cl, m)
  PROVE  Inv'
<1> DEFINE n == Released(assigned[cl])
           hs == HeapsAfterRelease(assigned[cl])
           p == Candidates[m][(turn % Len(Candidates[m])) + 1]
<1>1. PICK c \in Of(p) : /\ Reuse(p, n, hs, c) \/ Grow(p, n, hs, c)
                         /\ assigned' = [assigned EXCEPT ![cl] = c]
  BY DEF ResolveUpstream
<1>2. c \in Conn
  BY DEF Of
<1>3. /\ n \in [Conn -> Nat]
      /\ \A d \in Conn : n[d] <= Cardinality(Holders(d) \ {cl})
                                 + (IF d \in starters THEN 1 ELSE 0)
  BY Releasing
<1>4. /\ Holders(c)' = (Holders(c) \ {cl}) \cup {cl}
      /\ \A d \in Conn : d # c => Holders(d)' = Holders(d) \ {cl}
  BY <1>1, <1>2 DEF Holders, Inv, Typed
<1>5. /\ Cardinality(Holders(c)') = Cardinality(Holders(c) \ {cl}) + 1
      /\ \A d \in Conn : Cardinality(Holders(d) \ {cl}) \in Nat
  <2>1. \A d \in Conn : IsFiniteSet(Holders(d) \ {cl})
    BY HoldersSize, FS_Subset
  <2>2. cl \notin Holders(c) \ {cl}
    OBVIOUS
  <2>3. Cardinality((Holders(c) \ {cl}) \cup {cl}) = Cardinality(Holders(c) \ {cl}) + 1
    BY <1>2, <2>1, <2>2, FS_AddElement
  <2> QED BY <1>4, <2>1, <2>3, FS_CardinalityType
<1>6. assigned' \in [Client -> Conn \cup {None}]
  BY <1>1, <1>2 DEF Inv, Typed
<1>7. CASE Reuse(p, n, hs, c)
  <2>1. count' = [n EXCEPT ![c] = @ + 1] /\ starters' = starters
    BY <1>7 DEF Reuse
  <2>2. count' \in [Conn -> Nat]
    BY <1>2, <1>3, <2>1
  <2>3. ASSUME NEW d \in Conn
        PROVE  count'[d] <= Cardinality(Holders(d)') + (IF d \in starters' THEN 1 ELSE 0)
    <3>1. CASE d = c
      <4>1. Cardinality(Holders(d)') = Cardinality(Holders(c) \ {cl}) + 1
        BY <1>5, <3>1 DEF Holders
      <4>2. /\ n[c] \in Nat /\ Cardinality(Holders(c) \ {cl}) \in Nat
            /\ n[c] <= Cardinality(Holders(c) \ {cl}) + (IF c \in starters THEN 1 ELSE 0)
        BY <1>2, <1>3, <1>5
      <4>3. count'[d] = n[c] + 1 /\ (d \in starters' <=> c \in starters)
        BY <1>2, <1>3, <2>1, <3>1
      <4> QED BY <4>1, <4>2, <4>3
    <3>2. CASE d # c
      BY <1>2, <1>3, <1>4, <2>1, <3>2
    <3> QED BY <3>1, <3>2
  <2> QED BY <1>6, <2>1, <2>2, <2>3 DEF Inv, Typed, NeverOvercounted
<1>8. CASE Grow(p, n, hs, c)
  <2>1. count' = [n EXCEPT ![c] = 1] /\ starters' = starters \ {c}
    BY <1>8 DEF Grow
  <2>2. count' \in [Conn -> Nat]
    BY <1>2, <1>3, <2>1
  <2>3. ASSUME NEW d \in Conn
        PROVE  count'[d] <= Cardinality(Holders(d)') + (IF d \in starters' THEN 1 ELSE 0)
    <3>1. CASE d = c
      <4>1. Cardinality(Holders(d)') = Cardinality(Holders(c) \ {cl}) + 1
        BY <1>5, <3>1 DEF Holders
      <4>2. /\ n[c] \in Nat /\ Cardinality(Holders(c) \ {cl}) \in Nat
            /\ n[c] <= Cardinality(Holders(c) \ {cl}) + (IF c \in starters THEN 1 ELSE 0)
        BY <1>2, <1>3, <1>5
      <4>3. count'[d] = 1 /\ (d \in starters' <=> FALSE)
        BY <1>2, <1>3, <2>1, <3>1
      <4> QED BY <4>1, <4>2, <4>3
    <3>2. CASE d # c
      BY <1>2, <1>3, <1>4, <2>1, <3>2
    <3> QED BY <3>1, <3>2
  <2> QED BY <1>6, <2>1, <2>2, <2>3 DEF Inv, Typed, NeverOvercounted
<1> QED BY <1>1, <1>7, <1>8

LEMMA DisconnectInv == ASSUME Inv, NEW cl \in Client, Disconnect(cl) PROVE Inv'
<1>1. /\ count' = Released(assigned[cl])
      /\ assigned' = [assigned EXCEPT ![cl] = None]
      /\ starters' = starters
  BY DEF Disconnect
<1>2. \A c \in Conn : Holders(c)' = Holders(c) \ {cl}
  BY <1>1, PoolAssumption DEF Holders, Inv, Typed
<1> QED BY <1>1, <1>2, Releasing DEF Inv, Typed, NeverOvercounted

\* Counters that are reset, and clients that go with them.
LEMMA ResetInv ==
  ASSUME Inv, NEW S \in SUBSET Conn,
         count' = [c \in Conn |-> IF c \in S THEN 0 ELSE count[c]],
         starters' = starters,
         assigned' \in [Client -> Conn \cup {None}],
         \A cl \in Client : assigned'[cl] # assigned[cl] =>
                              assigned[cl] \in S /\ assigned'[cl] = None
  PROVE  Inv'
<1>1. Typed'
  BY DEF Inv, Typed
<1>2. ASSUME NEW c \in Conn
      PROVE  count'[c] <= Cardinality(Holders(c)') + (IF c \in starters' THEN 1 ELSE 0)
  <2>1. Cardinality(Holders(c)') \in Nat
    <3>1. Holders(c)' \in SUBSET Client
      BY DEF Holders
    <3> QED BY <3>1, PoolAssumption, FS_Subset, FS_CardinalityType
  <2>2. CASE c \in S
    BY <2>1, <2>2
  <2>3. CASE c \notin S
    <3>1. Holders(c)' = Holders(c)
      BY <2>3, PoolAssumption DEF Holders
    <3> QED BY <2>3, <3>1 DEF Inv, NeverOvercounted
  <2> QED BY <2>2, <2>3
<1> QED BY <1>1, <1>2 DEF Inv, NeverOvercounted

LEMMA LinkInv ==
  ASSUME Inv, NEW c \in Conn, LinkUp(c) \/ LinkDown(c) \/ Redial(c) \/ Rest(c)
  PROVE  Inv'
<1>1. assigned' = assigned /\ starters' = starters
  BY DEF LinkUp, LinkDown, Redial, Rest, history
<1>2. CASE count' = count
  BY <1>1, <1>2 DEF Inv, Typed, NeverOvercounted, Holders
<1>3. CASE count' = [count EXCEPT ![c] = 0]
  <2>1. count' = [d \in Conn |-> IF d \in {c} THEN 0 ELSE count[d]]
    BY <1>3 DEF Inv, Typed
  <2>2. /\ {c} \in SUBSET Conn
        /\ assigned' \in [Client -> Conn \cup {None}]
        /\ \A cl \in Client : assigned'[cl] = assigned[cl]
    BY <1>1 DEF Inv, Typed
  <2>3. \A cl \in Client : assigned'[cl] # assigned[cl] =>
                             assigned[cl] \in {c} /\ assigned'[cl] = None
    BY <2>2
  <2> QED BY <1>1, <2>1, <2>2, <2>3, ResetInv
<1>4. count' = count \/ count' = [count EXCEPT ![c] = 0]
  BY DEF LinkUp, LinkDown, Redial, Rest
<1> QED BY <1>2, <1>3, <1>4

LEMMA SweepInv == ASSUME Inv, NEW p \in Pool, Sweep(p) PROVE Inv'
<1>1. PICK gone \in SUBSET {cl \in Client : Ready(assigned[cl])} : SweepClosing(p, gone)
  BY DEF Sweep
<1> DEFINE left == {assigned[cl] : cl \in gone}
           out == Swept(p, left)[1] \cap Conn
<1>2. /\ count' = [c \in Conn |-> IF c \in out THEN 0 ELSE count[c]]
      /\ starters' = starters
  BY <1>1 DEF SweepClosing, CountsAfterStop
<1>3. /\ assigned' = [cl \in Client |-> IF cl \in gone THEN None ELSE assigned[cl]]
      /\ \A cl \in gone : assigned[cl] \in Swept(p, left)[1]
  BY <1>1 DEF SweepClosing
<1>4. \A cl \in Client : assigned'[cl] # assigned[cl] =>
                            assigned[cl] \in out /\ assigned'[cl] = None
  BY <1>3 DEF Inv, Typed, Ready
<1>5. assigned' \in [Client -> Conn \cup {None}]
  BY <1>3 DEF Inv, Typed
<1> HIDE DEF left
<1> QED BY <1>2, <1>4, <1>5, ResetInv

LEMMA ShutdownInv == ASSUME Inv, Shutdown PROVE Inv'
<1>1. /\ count' = [c \in Conn |-> IF c \in Conn THEN 0 ELSE count[c]]
      /\ assigned' = [cl \in Client |-> None] /\ starters' = starters
  BY DEF Shutdown
<1> QED BY <1>1, ResetInv DEF Inv, Typed

LEMMA NextInv == Inv /\ [Next]_vars => Inv'
<1> SUFFICES ASSUME Inv, [Next]_vars PROVE Inv'
  OBVIOUS
<1>1. CASE UNCHANGED vars
  BY <1>1 DEF Inv, Typed, NeverOvercounted, Holders, vars, conns, history
<1>2. CASE Next
  BY <1>2, ResolveInv, DisconnectInv, LinkInv, SweepInv, ShutdownInv DEF Next, Unavailable
<1> QED BY <1>1, <1>2

\* The counters stay sound through every way of coming and leaving.
THEOREM Invariance == Spec => []Inv
  BY InitInv, NextInv, PTL DEF Spec

\* pool.ts, server.ts: a connection never counts more clients than use it, but for the
\* one that start() counts for nobody.
THEOREM NeverOvercountedHolds == Spec => []NeverOvercounted
  BY Invariance, PTL DEF Inv

\* resolveUpstream(): a client keeps its connection as long as that is ready.
LEMMA StickyStep ==
  Inv /\ [Next]_vars => \A cl \in Client \ closed' :
                          assigned'[cl] # assigned[cl] => ~Ready(assigned[cl])
<1> SUFFICES ASSUME Inv, [Next]_vars, NEW cl \in Client, cl \notin closed',
                    assigned'[cl] # assigned[cl]
             PROVE  ~Ready(assigned[cl])
  OBVIOUS
<1>1. ASSUME NEW d \in Client, NEW m \in Method, ResolveUpstream(d, m)
      PROVE  ~Ready(assigned[cl])
  BY <1>1 DEF ResolveUpstream, Moves, Inv, Typed
<1>2. ASSUME NEW d \in Client, Disconnect(d) PROVE FALSE
  BY <1>2 DEF Disconnect, Inv, Typed
<1>3. ASSUME NEW p \in Pool, Sweep(p) PROVE FALSE
  BY <1>3 DEF Sweep, SweepClosing
<1>4. ASSUME Shutdown PROVE FALSE
  BY <1>4 DEF Shutdown
<1>5. assigned' # assigned
  OBVIOUS
<1> QED BY <1>1, <1>2, <1>3, <1>4, <1>5
        DEF Next, Unavailable, LinkUp, LinkDown, Redial, Rest, vars
THEOREM StickyHolds == Spec => Sticky
<1>1. Inv /\ [Next]_vars =>
        [\A cl \in Client \ closed' :
           assigned'[cl] # assigned[cl] => ~Ready(assigned[cl])]_vars
  BY StickyStep
<1> QED BY <1>1, Invariance, PTL DEF Spec, Sticky
-----------------------------------------------------------------------------
\* The heaps of items of T, and the keys that those may have.
Heaps(T) == {h \in Seq(T) : Distinct(h)}
Keys(T) == [T -> Nat]

\* The parent of a place in the array is before it; its children are 2i and 2i + 1.
LEMMA ParentFacts ==
  /\ \A j \in Nat : j >= 2 => Parent(j) \in Nat /\ 1 <= Parent(j) /\ Parent(j) < j
  /\ \A i, j \in Nat : i >= 1 => (Parent(j) = i <=> j = 2 * i \/ j = 2 * i + 1)
  BY DEF Parent

LEMMA SwapFacts ==
  ASSUME NEW T, NEW h \in Heaps(T), NEW i \in 1..Len(h), NEW j \in 1..Len(h), i # j
  PROVE  /\ Swap(h, i, j) \in Heaps(T)
         /\ Len(Swap(h, i, j)) = Len(h)
         /\ Items(Swap(h, i, j)) = Items(h)
         /\ Swap(h, i, j)[i] = h[j]
         /\ Swap(h, i, j)[j] = h[i]
         /\ \A k \in 1..Len(h) : k # i /\ k # j => Swap(h, i, j)[k] = h[k]
<1> DEFINE g == Swap(h, i, j)
           n == Len(h)
<1>1. h \in Seq(T) /\ n \in Nat /\ \A k \in 1..n : h[k] \in T
  BY DEF Heaps
<1>2. g \in Seq(T) /\ Len(g) = n
  BY <1>1 DEF Swap
<1>3. g[i] = h[j] /\ g[j] = h[i] /\ \A k \in 1..n : k # i /\ k # j => g[k] = h[k]
  BY <1>1 DEF Swap
<1> HIDE DEF g
<1>4. \A k, l \in 1..n : h[k] = h[l] => k = l
  BY DEF Heaps, Distinct
<1>5. Items(g) = Items(h)
  <2>1. \A k \in 1..n : g[k] \in Items(h)
    BY <1>3 DEF Items
  <2>2. \A k \in 1..n : h[k] \in {g[l] : l \in 1..n}
    BY <1>3
  <2> QED BY <1>2, <2>1, <2>2 DEF Items
<1>6. Distinct(g)
  BY <1>2, <1>3, <1>4 DEF Distinct
<1> QED BY <1>2, <1>3, <1>5, <1>6 DEF Heaps, g
-----------------------------------------------------------------------------
\* siftUp(): the heap is in order but for the item at i, which may be too small for its
\* place: what is below it is not smaller than what is above it.
Rising(key, h, i) ==
  /\ \A j \in 2..Len(h) : j # i => key[h[Parent(j)]] <= key[h[j]]
  /\ \A j \in 2..Len(h) : i > 1 /\ Parent(j) = i => key[h[Parent(i)]] <= key[h[j]]

LEMMA UpTurnFacts ==
  ASSUME NEW T, NEW key \in [T -> Nat], NEW h \in Heaps(T), NEW i \in 1..Len(h)
  PROVE  \E g \in Heaps(T), k \in 1..Len(h) :
           /\ UpTurn(key)[<<h, i>>] = <<g, k>>
           /\ Len(g) = Len(h) /\ Items(g) = Items(h)
           /\ Rising(key, h, i) => Rising(key, g, k) /\ (Ordered(key, g) \/ k < i)
           /\ Ordered(key, h) => Ordered(key, g)
<1> DEFINE n == Len(h)
           p == Parent(i)
<1>1. h \in Seq(T) /\ n \in Nat /\ (\A j \in 1..n : h[j] \in T) /\ i \in Nat
  BY DEF Heaps
<1>2. DOMAIN key = T /\ <<h, i>> \in State(key)
  BY <1>1 DEF State
<1>3. UpTurn(key)[<<h, i>>] =
        IF i > 1 /\ key[h[i]] < key[h[p]] THEN <<Swap(h, i, p), p>> ELSE <<h, i>>
  BY <1>2 DEF UpTurn
<1>4. CASE i > 1 /\ key[h[i]] < key[h[p]]
  <2> DEFINE g == Swap(h, i, p)
  <2>1. p \in 1..Len(h) /\ i # p /\ p < i
    BY <1>1, <1>4, ParentFacts
  <2>2. /\ g \in Heaps(T) /\ Len(g) = n /\ Items(g) = Items(h)
        /\ g[i] = h[p] /\ g[p] = h[i]
        /\ \A k \in 1..n : k # i /\ k # p => g[k] = h[k]
    <3> HIDE DEF p
    <3> QED BY <2>1, SwapFacts
  <2>3. ~ Ordered(key, h)
    <3>1. i \in 2..Len(h) /\ key[h[i]] \in Nat /\ key[h[p]] \in Nat
      BY <1>1, <1>4, <2>1
    <3>2. ~ (key[h[p]] <= key[h[i]])
      BY <1>4, <3>1
    <3> QED BY <3>1, <3>2 DEF Ordered
  <2> HIDE DEF g
  <2>4. ASSUME Rising(key, h, i) PROVE Rising(key, g, p)
    <3>1. \A j \in 2..n : j # i => key[h[Parent(j)]] <= key[h[j]]
      BY <2>4 DEF Rising
    <3>2. \A j \in 2..n : Parent(j) = i => key[h[p]] <= key[h[j]]
      BY <1>4, <2>4 DEF Rising
    <3>3. \A j \in 1..n : key[h[j]] \in Nat
      BY <1>1
    <3>4. \A j \in 2..n : Parent(j) \in 1..n /\ j \in 1..n
      BY <1>1, ParentFacts
    <3>5. ASSUME NEW j \in 2..n, j # p PROVE key[g[Parent(j)]] <= key[g[j]]
      <4>1. CASE j = i
        BY <1>4, <2>1, <2>2, <3>3, <4>1
      <4>2. CASE j # i /\ Parent(j) = p
        <5>1. key[h[p]] <= key[h[j]] /\ g[j] = h[j] /\ g[p] = h[i]
          BY <2>2, <3>1, <3>4, <3>5, <4>2
        <5> QED BY <1>4, <2>1, <3>3, <3>4, <4>2, <5>1
      <4>3. CASE j # i /\ Parent(j) = i
        BY <2>2, <3>2, <3>4, <3>5, <4>3
      <4>4. CASE j # i /\ Parent(j) # p /\ Parent(j) # i
        BY <2>2, <3>1, <3>4, <3>5, <4>4
      <4> QED BY <4>1, <4>2, <4>3, <4>4
    <3>6. ASSUME NEW j \in 2..n, p > 1, Parent(j) = p PROVE key[g[Parent(p)]] <= key[g[j]]
      <4>1. p \in 2..n /\ Parent(p) \in 1..n /\ Parent(p) < p
        BY <1>1, <2>1, <3>6, ParentFacts
      <4>2. key[h[Parent(p)]] <= key[h[p]] /\ g[Parent(p)] = h[Parent(p)]
        BY <2>1, <2>2, <3>1, <4>1
      <4>3. CASE j = i
        BY <2>2, <4>2, <4>3
      <4>4. CASE j # i
        <5>1. j # p
          BY <3>6, <4>1
        <5>2. key[h[p]] <= key[h[j]] /\ g[j] = h[j]
          BY <2>2, <3>1, <3>4, <3>6, <4>4, <5>1
        <5> QED BY <3>3, <3>4, <4>1, <4>2, <5>2
      <4> QED BY <4>3, <4>4
    <3> QED BY <2>2, <3>5, <3>6 DEF Rising
  <2> QED BY <1>3, <1>4, <2>1, <2>2, <2>3, <2>4 DEF g
<1>5. CASE ~ (i > 1 /\ key[h[i]] < key[h[p]])
  <2>1. ASSUME Rising(key, h, i) PROVE Ordered(key, h)
    <3> SUFFICES ASSUME NEW j \in 2..n PROVE key[h[Parent(j)]] <= key[h[j]]
      BY DEF Ordered
    <3>1. CASE j = i
      <4>1. i > 1 /\ p \in 1..n
        BY <1>1, <3>1, ParentFacts
      <4>2. key[h[i]] \in Nat /\ key[h[p]] \in Nat
        BY <1>1, <4>1
      <4> QED BY <1>5, <3>1, <4>1, <4>2
    <3>2. CASE j # i
      BY <2>1, <3>2 DEF Rising
    <3> QED BY <3>1, <3>2
  <2> QED BY <1>3, <1>5, <2>1
<1> QED BY <1>4, <1>5

\* A loop that takes n turns: the places it passes exist, and stay within U.
Turned(f, n, base, F) == f = [m \in 0..n |-> IF m = 0 THEN base ELSE F[f[m - 1]]]
LEMMA TurnsExist ==
  ASSUME NEW n \in Nat, NEW U, NEW base \in U, NEW F, \A s \in U : F[s] \in U
  PROVE  \E g : Turned(g, n, base, F)
<1> DEFINE step == [a \in (1..n) \X U |-> F[a[2]]]
<1>1. step \in [(1..n) \X U -> U]
  OBVIOUS
<1>2. PICK g \in [0..n -> U] : Recursive(g, n, base, step)
  <2> HIDE DEF step
  <2> QED BY <1>1, Recursion
<1>3. ASSUME NEW m \in 0..n
      PROVE  g[m] = IF m = 0 THEN base ELSE F[g[m - 1]]
  <2>1. CASE m = 0
    BY <1>2, <2>1 DEF Recursive
  <2>2. CASE m # 0
    <3>1. m \in 1..n /\ g[m - 1] \in U
      BY <2>2
    <3>2. <<m, g[m - 1]>> \in (1..n) \X U
      BY <3>1
    <3>3. step[<<m, g[m - 1]>>] = F[g[m - 1]]
      BY <3>2
    <3> HIDE DEF step
    <3> QED BY <1>2, <2>2, <3>3 DEF Recursive
  <2> QED BY <2>1, <2>2
<1>4. Turned(g, n, base, F)
  BY <1>2, <1>3 DEF Turned
<1> QED BY <1>4

LEMMA SiftUpFacts ==
  ASSUME NEW T, NEW key \in Keys(T), NEW h \in Heaps(T), NEW i \in 1..Len(h)
  PROVE  /\ SiftUp(key, h, i) \in Heaps(T)
         /\ Len(SiftUp(key, h, i)) = Len(h) /\ Items(SiftUp(key, h, i)) = Items(h)
         /\ Rising(key, h, i) => Ordered(key, SiftUp(key, h, i))
<1> USE DEF Keys
<1> DEFINE n == Len(h)
           U == {s \in Heaps(T) \X (1..n) : Len(s[1]) = n /\ Items(s[1]) = Items(h)}
           turns == CHOOSE f : Turned(f, n, <<h, i>>, UpTurn(key))
           Good(m, g, k) ==
             /\ turns[m] = <<g, k>> /\ Len(g) = n /\ Items(g) = Items(h)
             /\ Rising(key, h, i) => Rising(key, g, k) /\ (Ordered(key, g) \/ k + m <= i)
           Q == {m \in 0..n : \E g \in Heaps(T), k \in 1..n : Good(m, g, k)}
<1>1. n \in Nat /\ i \in Nat /\ 1 <= i /\ i <= n
  BY DEF Heaps
<1>2. turns[0] = <<h, i>> /\ \A m \in 0..(n - 1) : turns[m + 1] = UpTurn(key)[turns[m]]
  <2>1. <<h, i>> \in U
    OBVIOUS
  <2>2. ASSUME NEW s \in U PROVE UpTurn(key)[s] \in U
    <3>1. s = <<s[1], s[2]>> /\ s[1] \in Heaps(T) /\ s[2] \in 1..Len(s[1])
      OBVIOUS
    <3>2. PICK g \in Heaps(T), k \in 1..Len(s[1]) :
            /\ UpTurn(key)[<<s[1], s[2]>>] = <<g, k>>
            /\ Len(g) = Len(s[1]) /\ Items(g) = Items(s[1])
      BY <3>1, UpTurnFacts
    <3>3. <<g, k>> \in U
      BY <3>2
    <3> HIDE DEF U
    <3> QED BY <3>1, <3>2, <3>3
  <2>3. \E f : Turned(f, n, <<h, i>>, UpTurn(key))
    <3> HIDE DEF U, n
    <3> QED BY <1>1, <2>1, <2>2, TurnsExist
  <2>4. Turned(turns, n, <<h, i>>, UpTurn(key))
    BY <2>3
  <2> HIDE DEF turns
  <2>5. ASSUME NEW m \in 0..(n - 1) PROVE turns[m + 1] = UpTurn(key)[turns[m]]
    <3>1. m + 1 \in 0..n /\ m + 1 # 0 /\ (m + 1) - 1 = m
      BY <1>1
    <3> QED BY <2>4, <3>1 DEF Turned
  <2>6. turns[0] = <<h, i>>
    <3>1. 0 \in 0..n
      BY <1>1
    <3> QED BY <2>4, <3>1 DEF Turned
  <2> QED BY <2>5, <2>6
<1>3. SiftUp(key, h, i) = turns[n][1]
  BY DEF SiftUp, Turned
<1> HIDE DEF turns
<1>4. 0 \in Q
  <2>1. Good(0, h, i)
    BY <1>1, <1>2
  <2>2. 0 \in 0..n
    BY <1>1
  <2> HIDE DEF Good
  <2> QED BY <2>1, <2>2
<1>5. ASSUME NEW m \in 0..(n - 1), m \in Q PROVE m + 1 \in Q
  <2>1. PICK g \in Heaps(T), k \in 1..n : Good(m, g, k)
    BY <1>5
  <2>2. k \in 1..Len(g)
    BY <2>1
  <2>3. PICK g2 \in Heaps(T), k2 \in 1..Len(g) :
           /\ UpTurn(key)[<<g, k>>] = <<g2, k2>>
           /\ Len(g2) = Len(g) /\ Items(g2) = Items(g)
           /\ Rising(key, g, k) => Rising(key, g2, k2) /\ (Ordered(key, g2) \/ k2 < k)
           /\ Ordered(key, g) => Ordered(key, g2)
    BY <2>2, UpTurnFacts
  <2>4. turns[m + 1] = <<g2, k2>> /\ Len(g2) = n /\ Items(g2) = Items(h)
    BY <1>2, <2>1, <2>3
  <2>5. ASSUME Rising(key, h, i)
        PROVE  Rising(key, g2, k2) /\ (Ordered(key, g2) \/ k2 + (m + 1) <= i)
    <3>1. Rising(key, g, k) /\ (Ordered(key, g) \/ k + m <= i)
      BY <2>1, <2>5
    <3>2. Rising(key, g2, k2) /\ (Ordered(key, g2) \/ k2 < k)
      BY <2>3, <3>1
    <3>3. k2 < k /\ k + m <= i => k2 + (m + 1) <= i
      BY <1>1, <2>1, <2>3
    <3> QED BY <2>3, <3>1, <3>2, <3>3
  <2>6. Good(m + 1, g2, k2)
    BY <2>4, <2>5
  <2>7. m + 1 \in 0..n /\ k2 \in 1..n
    BY <1>1, <2>1, <2>3
  <2> HIDE DEF Good
  <2> QED BY <2>6, <2>7
<1>6. n \in Q
  <2> HIDE DEF Q, n
  <2>1. \A m \in 0..n : m \in Q
    BY <1>1, <1>4, <1>5, Induct
  <2> QED BY <1>1, <2>1
<1>7. PICK g \in Heaps(T), k \in 1..n : Good(n, g, k)
  BY <1>6
<1>8. ~ (k + n <= i)
  BY <1>1
<1> QED BY <1>3, <1>7, <1>8
-----------------------------------------------------------------------------
\* siftDown() from i, at k: the heap is in order but for the item at k, which may be too
\* large, and, as long as it is where it started, too small for its place.
Sinking(key, h, i, k) ==
  /\ \A j \in 2..Len(h) :
       Parent(j) # k /\ ~ (j = i /\ k = i) => key[h[Parent(j)]] <= key[h[j]]
  /\ \A j \in 2..Len(h) : k > 1 /\ Parent(j) = k => key[h[Parent(k)]] <= key[h[j]]
Settled(key, h, k) == \A j \in 2..Len(h) : Parent(j) = k => key[h[k]] <= key[h[j]]

LEMMA SmallestFacts ==
  ASSUME NEW T, NEW key \in [T -> Nat], NEW h \in Heaps(T), NEW k \in 1..Len(h)
  PROVE  \/ Smallest(key, h, k) = k /\ Settled(key, h, k)
         \/ /\ Smallest(key, h, k) \in 2..Len(h) /\ Parent(Smallest(key, h, k)) = k
            /\ k < Smallest(key, h, k)
            /\ key[h[Smallest(key, h, k)]] < key[h[k]]
            /\ \A j \in 2..Len(h) :
                 Parent(j) = k => key[h[Smallest(key, h, k)]] <= key[h[j]]
<1> DEFINE n == Len(h)
           v == [j \in 1..n |-> key[h[j]]]
           l == IF 2 * k <= n /\ v[2 * k] < v[k] THEN 2 * k ELSE k
           r == IF 2 * k + 1 <= n /\ v[2 * k + 1] < v[l] THEN 2 * k + 1 ELSE l
<1>1. n \in Nat /\ k \in Nat /\ 1 <= k /\ k <= n /\ \A j \in 1..n : h[j] \in T
  BY DEF Heaps
<1>2. \A j \in 1..n : v[j] = key[h[j]] /\ v[j] \in Nat
  BY <1>1
<1> HIDE DEF n, v
<1>3. l \in 1..n /\ r \in 1..n
  BY <1>1
<1>4. Smallest(key, h, k) = r
  <2>1. 2 * k <= n => v[2 * k] = key[h[2 * k]]
    BY <1>1, <1>2
  <2>2. 2 * k + 1 <= n => v[2 * k + 1] = key[h[2 * k + 1]]
    BY <1>1, <1>2
  <2>3. l = IF 2 * k <= Len(h) /\ key[h[2 * k]] < key[h[k]] THEN 2 * k ELSE k
    BY <1>1, <1>2, <2>1 DEF n
  <2>4. r = IF 2 * k + 1 <= Len(h) /\ key[h[2 * k + 1]] < key[h[l]] THEN 2 * k + 1 ELSE l
    BY <1>2, <1>3, <2>2 DEF n
  <2> HIDE DEF l, r
  <2> QED BY <2>3, <2>4 DEF Smallest
<1>5. \A j \in 2..n : Parent(j) = k <=> j = 2 * k \/ j = 2 * k + 1
  BY <1>1, ParentFacts
<1>6. r = k \/ (r \in 2..n /\ (r = 2 * k \/ r = 2 * k + 1) /\ k < r /\ v[r] < v[k])
  BY <1>1, <1>2
<1>7. ASSUME NEW j \in 2..n, j = 2 * k \/ j = 2 * k + 1 PROVE v[r] <= v[j]
  <2>1. v[l] <= v[k] /\ v[r] <= v[l] /\ v[l] \in Nat /\ v[r] \in Nat /\ v[k] \in Nat
    BY <1>1, <1>2, <1>3
  <2>2. CASE j = 2 * k
    <3>1. v[l] <= v[j] /\ v[j] \in Nat
      BY <1>1, <1>2, <2>2
    <3> QED BY <2>1, <3>1
  <2>3. CASE j = 2 * k + 1
    BY <1>1, <1>2, <1>3, <2>3
  <2> QED BY <1>7, <2>2, <2>3
<1> HIDE DEF l, r
<1>8. \A j \in 2..n : Parent(j) = k => key[h[r]] <= key[h[j]]
  <2> TAKE j \in 2..n
  <2> HAVE Parent(j) = k
  <2>1. v[r] <= v[j] /\ v[j] = key[h[j]] /\ v[r] = key[h[r]]
    BY <1>1, <1>2, <1>3, <1>5, <1>7
  <2> QED BY <2>1
<1>9. CASE r = k
  BY <1>4, <1>8, <1>9 DEF Settled, n
<1>10. CASE r \in 2..n /\ (r = 2 * k \/ r = 2 * k + 1) /\ k < r /\ v[r] < v[k]
  <2>1. Parent(r) = k /\ key[h[r]] < key[h[k]]
    BY <1>1, <1>2, <1>3, <1>5, <1>10
  <2> QED BY <1>4, <1>8, <1>10, <2>1 DEF n
<1> QED BY <1>6, <1>9, <1>10

LEMMA DownTurnFacts ==
  ASSUME NEW T, NEW key \in [T -> Nat], NEW h \in Heaps(T), NEW k \in 1..Len(h)
  PROVE  \E g \in Heaps(T), m \in 1..Len(h) :
           /\ DownTurn(key)[<<h, k>>] = <<g, m>>
           /\ Len(g) = Len(h) /\ Items(g) = Items(h)
           /\ (g = h /\ m = k /\ Settled(key, h, k)) \/ (~ Settled(key, h, k) /\ k < m)
           /\ \A i \in 1..k : Sinking(key, h, i, k) => Sinking(key, g, i, m)
<1> DEFINE n == Len(h)
           m == Smallest(key, h, k)
<1>1. h \in Seq(T) /\ n \in Nat /\ (\A j \in 1..n : h[j] \in T) /\ k \in Nat
  BY DEF Heaps
<1>2. DOMAIN key = T /\ <<h, k>> \in State(key)
  BY <1>1 DEF State
<1>3. DownTurn(key)[<<h, k>>] = IF m # k THEN <<Swap(h, k, m), m>> ELSE <<h, k>>
  BY <1>2 DEF DownTurn
<1>4. \A j \in 1..n : key[h[j]] \in Nat
  BY <1>1
<1> HIDE DEF m
<1>5. CASE m = k /\ Settled(key, h, k)
  BY <1>3, <1>5
<1>6. CASE /\ m \in 2..n /\ Parent(m) = k /\ k < m /\ key[h[m]] < key[h[k]]
           /\ \A j \in 2..n : Parent(j) = k => key[h[m]] <= key[h[j]]
  <2> DEFINE g == Swap(h, k, m)
  <2>1. k # m /\ m \in 1..Len(h)
    BY <1>1, <1>6
  <2>2. /\ g \in Heaps(T) /\ Len(g) = n /\ Items(g) = Items(h)
        /\ g[k] = h[m] /\ g[m] = h[k]
        /\ \A j \in 1..n : j # k /\ j # m => g[j] = h[j]
    BY <2>1, SwapFacts
  <2>3. ~ Settled(key, h, k)
    <3>1. ~ (key[h[k]] <= key[h[m]])
      BY <1>4, <1>6, <2>1
    <3> QED BY <1>6, <3>1 DEF Settled
  <2> HIDE DEF g
  <2>4. ASSUME NEW i \in 1..k, Sinking(key, h, i, k) PROVE Sinking(key, g, i, m)
    <3>1. \A j \in 2..n :
            Parent(j) # k /\ ~ (j = i /\ k = i) => key[h[Parent(j)]] <= key[h[j]]
      BY <2>4 DEF Sinking
    <3>2. \A j \in 2..n : k > 1 /\ Parent(j) = k => key[h[Parent(k)]] <= key[h[j]]
      BY <2>4 DEF Sinking
    <3>3. \A j \in 2..n : Parent(j) \in 1..n /\ j \in 1..n /\ Parent(j) < j
      BY <1>1, ParentFacts
    <3>4. i \in Nat /\ i <= k /\ m # i /\ m \in Nat
      BY <1>1, <1>6
    <3>5. ASSUME NEW j \in 2..n, Parent(j) # m PROVE key[g[Parent(j)]] <= key[g[j]]
      <4>1. CASE j = m
        BY <1>4, <1>6, <2>1, <2>2, <4>1
      <4>2. CASE j # m /\ Parent(j) = k
        <5>1. j # k /\ g[j] = h[j] /\ g[k] = h[m]
          BY <2>2, <3>3, <4>2
        <5> QED BY <1>6, <4>2, <5>1
      <4>3. CASE j = k /\ Parent(j) # k
        <5>1. k > 1 /\ key[h[Parent(k)]] <= key[h[m]]
          BY <1>6, <3>2, <4>3
        <5>2. g[Parent(k)] = h[Parent(k)] /\ g[k] = h[m]
          BY <2>2, <3>3, <3>5, <4>3
        <5> QED BY <4>3, <5>1, <5>2
      <4>4. CASE j # m /\ j # k /\ Parent(j) # k
        <5>1. key[h[Parent(j)]] <= key[h[j]]
          BY <3>1, <4>4
        <5>2. g[Parent(j)] = h[Parent(j)] /\ g[j] = h[j]
          BY <2>2, <3>3, <3>5, <4>4
        <5> QED BY <5>1, <5>2
      <4> QED BY <4>1, <4>2, <4>3, <4>4
    <3>6. ASSUME NEW j \in 2..n, Parent(j) = m PROVE key[g[Parent(m)]] <= key[g[j]]
      <4>1. m < j /\ j # i /\ j # k
        BY <1>6, <3>3, <3>4, <3>6
      <4>2. key[h[m]] <= key[h[j]]
        BY <2>1, <3>1, <3>6, <4>1
      <4>3. g[Parent(m)] = h[m] /\ g[j] = h[j]
        BY <1>6, <2>2, <3>3, <4>1
      <4> QED BY <4>2, <4>3
    <3> QED BY <2>2, <3>5, <3>6 DEF Sinking
  <2> QED BY <1>3, <1>6, <2>1, <2>2, <2>3, <2>4 DEF g
<1>7. \/ m = k /\ Settled(key, h, k)
      \/ /\ m \in 2..n /\ Parent(m) = k /\ k < m /\ key[h[m]] < key[h[k]]
         /\ \A j \in 2..n : Parent(j) = k => key[h[m]] <= key[h[j]]
  BY SmallestFacts DEF m
<1> QED BY <1>5, <1>6, <1>7

LEMMA SiftDownFacts ==
  ASSUME NEW T, NEW key \in Keys(T), NEW h \in Heaps(T), NEW i \in 1..Len(h)
  PROVE  /\ SiftDown(key, h, i) \in Heaps(T)
         /\ Len(SiftDown(key, h, i)) = Len(h) /\ Items(SiftDown(key, h, i)) = Items(h)
         /\ Sinking(key, h, i, i) => Rising(key, SiftDown(key, h, i), i)
<1> USE DEF Keys
<1> DEFINE n == Len(h)
           U == {s \in Heaps(T) \X (1..n) : Len(s[1]) = n /\ Items(s[1]) = Items(h)}
           turns == CHOOSE f : Turned(f, n, <<h, i>>, DownTurn(key))
           Good(m, g, k) ==
             /\ turns[m] = <<g, k>> /\ Len(g) = n /\ Items(g) = Items(h)
             /\ i <= k /\ (Settled(key, g, k) \/ i + m <= k)
             /\ Sinking(key, h, i, i) => Sinking(key, g, i, k)
           Q == {m \in 0..n : \E g \in Heaps(T), k \in 1..n : Good(m, g, k)}
<1>1. n \in Nat /\ i \in Nat /\ 1 <= i /\ i <= n
  BY DEF Heaps
<1>2. turns[0] = <<h, i>> /\ \A m \in 0..(n - 1) : turns[m + 1] = DownTurn(key)[turns[m]]
  <2>1. <<h, i>> \in U
    OBVIOUS
  <2>2. ASSUME NEW s \in U PROVE DownTurn(key)[s] \in U
    <3>1. s = <<s[1], s[2]>> /\ s[1] \in Heaps(T) /\ s[2] \in 1..Len(s[1])
      OBVIOUS
    <3>2. PICK g \in Heaps(T), k \in 1..Len(s[1]) :
            /\ DownTurn(key)[<<s[1], s[2]>>] = <<g, k>>
            /\ Len(g) = Len(s[1]) /\ Items(g) = Items(s[1])
      BY <3>1, DownTurnFacts
    <3>3. <<g, k>> \in U
      BY <3>2
    <3> HIDE DEF U
    <3> QED BY <3>1, <3>2, <3>3
  <2>3. \E f : Turned(f, n, <<h, i>>, DownTurn(key))
    <3> HIDE DEF U, n
    <3> QED BY <1>1, <2>1, <2>2, TurnsExist
  <2>4. Turned(turns, n, <<h, i>>, DownTurn(key))
    BY <2>3
  <2> HIDE DEF turns
  <2>5. ASSUME NEW m \in 0..(n - 1) PROVE turns[m + 1] = DownTurn(key)[turns[m]]
    <3>1. m + 1 \in 0..n /\ m + 1 # 0 /\ (m + 1) - 1 = m
      BY <1>1
    <3> QED BY <2>4, <3>1 DEF Turned
  <2>6. turns[0] = <<h, i>>
    <3>1. 0 \in 0..n
      BY <1>1
    <3> QED BY <2>4, <3>1 DEF Turned
  <2> QED BY <2>5, <2>6
<1>3. SiftDown(key, h, i) = turns[n][1]
  BY DEF SiftDown, Turned
<1> HIDE DEF turns
<1>4. 0 \in Q
  <2>1. Good(0, h, i)
    BY <1>1, <1>2
  <2>2. 0 \in 0..n
    BY <1>1
  <2> HIDE DEF Good
  <2> QED BY <2>1, <2>2
<1>5. ASSUME NEW m \in 0..(n - 1), m \in Q PROVE m + 1 \in Q
  <2>1. PICK g \in Heaps(T), k \in 1..n : Good(m, g, k)
    BY <1>5
  <2>2. k \in 1..Len(g)
    BY <2>1
  <2>3. PICK g2 \in Heaps(T), k2 \in 1..Len(g) :
           /\ DownTurn(key)[<<g, k>>] = <<g2, k2>>
           /\ Len(g2) = Len(g) /\ Items(g2) = Items(g)
           /\ (g2 = g /\ k2 = k /\ Settled(key, g, k)) \/ (~ Settled(key, g, k) /\ k < k2)
           /\ \A j \in 1..k : Sinking(key, g, j, k) => Sinking(key, g2, j, k2)
    BY <2>2, DownTurnFacts
  <2>4. turns[m + 1] = <<g2, k2>> /\ Len(g2) = n /\ Items(g2) = Items(h)
    BY <1>2, <2>1, <2>3
  <2>5. i \in 1..k
    BY <1>1, <2>1
  <2>6. Sinking(key, h, i, i) => Sinking(key, g2, i, k2)
    BY <2>1, <2>3, <2>5
  <2>7. i <= k2 /\ (Settled(key, g2, k2) \/ i + (m + 1) <= k2)
    <3>1. CASE g2 = g /\ k2 = k /\ Settled(key, g, k)
      BY <2>1, <3>1
    <3>2. CASE ~ Settled(key, g, k) /\ k < k2
      <4>1. i <= k /\ i + m <= k
        BY <2>1, <3>2
      <4> QED BY <1>1, <2>1, <2>3, <3>2, <4>1
    <3> QED BY <2>3, <3>1, <3>2
  <2>8. Good(m + 1, g2, k2)
    BY <2>4, <2>6, <2>7
  <2>9. m + 1 \in 0..n /\ k2 \in 1..n
    BY <1>1, <2>1, <2>3
  <2> HIDE DEF Good
  <2> QED BY <2>8, <2>9
<1>6. n \in Q
  <2> HIDE DEF Q, n
  <2>1. \A m \in 0..n : m \in Q
    BY <1>1, <1>4, <1>5, Induct
  <2> QED BY <1>1, <2>1
<1>7. PICK g \in Heaps(T), k \in 1..n : Good(n, g, k)
  BY <1>6
<1>8. ~ (i + n <= k) /\ Settled(key, g, k) /\ i <= k
  BY <1>1, <1>7
<1>9. ASSUME Sinking(key, h, i, i) PROVE Rising(key, g, i)
  <2>1. Sinking(key, g, i, k)
    BY <1>7, <1>9
  <2>2. \A j \in 1..n : key[g[j]] \in Nat
    BY <1>7 DEF Heaps
  <2>3. \A j \in 2..n : Parent(j) \in 1..n /\ j \in 1..n
    BY <1>1, ParentFacts
  <2>4. ASSUME NEW j \in 2..n, ~ (j = i /\ k = i) PROVE key[g[Parent(j)]] <= key[g[j]]
    BY <1>7, <1>8, <2>1, <2>4 DEF Sinking, Settled
  <2>5. ASSUME NEW j \in 2..n, i > 1, Parent(j) = i PROVE key[g[Parent(i)]] <= key[g[j]]
    <3>1. CASE k = i
      BY <1>7, <2>1, <2>5, <3>1 DEF Sinking
    <3>2. CASE k # i
      <4>1. i \in 2..n
        BY <1>1, <2>5
      <4>2. key[g[Parent(i)]] <= key[g[i]] /\ key[g[i]] <= key[g[j]]
        BY <2>4, <2>5, <3>2, <4>1
      <4> QED BY <2>2, <2>3, <4>1, <4>2
    <3> QED BY <3>1, <3>2
  <2> QED BY <1>7, <2>4, <2>5 DEF Rising
<1> QED BY <1>3, <1>7, <1>9
-----------------------------------------------------------------------------
LEMMA SiftFacts ==
  ASSUME NEW T, NEW key \in Keys(T), NEW h \in Heaps(T), NEW i \in 1..Len(h)
  PROVE  /\ Sift(key, h, i) \in Heaps(T)
         /\ Len(Sift(key, h, i)) = Len(h) /\ Items(Sift(key, h, i)) = Items(h)
         /\ Sinking(key, h, i, i) => Ordered(key, Sift(key, h, i))
<1>1. PICK g : g = SiftDown(key, h, i)
  OBVIOUS
<1>2. /\ g \in Heaps(T) /\ Len(g) = Len(h) /\ Items(g) = Items(h)
      /\ Sinking(key, h, i, i) => Rising(key, g, i)
  BY <1>1, SiftDownFacts
<1>3. i \in 1..Len(g)
  BY <1>2
<1>4. /\ SiftUp(key, g, i) \in Heaps(T)
      /\ Len(SiftUp(key, g, i)) = Len(g) /\ Items(SiftUp(key, g, i)) = Items(g)
      /\ Rising(key, g, i) => Ordered(key, SiftUp(key, g, i))
  BY <1>2, <1>3, SiftUpFacts
<1> QED BY <1>1, <1>2, <1>4 DEF Sift

\* A heap that was in order by the keys before, with one item exchanged or its key changed.
LEMMA Displaced ==
  ASSUME NEW T, NEW key \in Keys(T), NEW old \in Keys(T), NEW h \in Heaps(T),
         NEW g \in Heaps(T), Len(g) <= Len(h), NEW i \in 1..Len(g), Ordered(old, h),
         \A j \in 1..Len(g) : j # i => g[j] = h[j] /\ key[g[j]] = old[h[j]]
  PROVE  Sinking(key, g, i, i)
<1> USE DEF Keys
<1> DEFINE n == Len(g)
<1>1. /\ n \in Nat /\ Len(h) \in Nat /\ i \in Nat
      /\ \A j \in 2..n : j \in 2..Len(h)
      /\ \A j \in 1..n : old[h[j]] \in Nat
  <2>1. h \in Seq(T) /\ g \in Seq(T)
    BY DEF Heaps
  <2>2. n \in Nat
    BY ONLY <2>1
  <2>3. Len(h) \in Nat
    BY ONLY <2>1
  <2>4. n <= Len(h) /\ i \in 1..n
    OBVIOUS
  <2>5. \A j \in 1..n : h[j] \in T
    BY <2>1, <2>2, <2>3, <2>4
  <2> HIDE DEF n
  <2>6. \A j \in 1..n : old[h[j]] \in Nat
    BY <2>5
  <2> QED BY <2>2, <2>3, <2>4, <2>6
<1>2. \A j \in 2..n : Parent(j) \in 1..n /\ j \in 1..n /\ Parent(j) < j
  BY <1>1, ParentFacts
<1>3. \A j \in 2..n : old[h[Parent(j)]] <= old[h[j]]
  BY <1>1 DEF Ordered
<1>4. \A j \in 2..n : Parent(j) # i /\ j # i => key[g[Parent(j)]] <= key[g[j]]
  BY <1>2, <1>3
<1>5. ASSUME NEW j \in 2..n, i > 1, Parent(j) = i PROVE key[g[Parent(i)]] <= key[g[j]]
  <2>1. i \in 2..n /\ j # i /\ Parent(i) # i
    BY <1>1, <1>2, <1>5
  <2>2. old[h[Parent(i)]] <= old[h[i]] /\ old[h[i]] <= old[h[j]]
    BY <1>3, <1>5, <2>1
  <2>3. key[g[Parent(i)]] = old[h[Parent(i)]] /\ key[g[j]] = old[h[j]]
    BY <1>2, <2>1
  <2> QED BY <1>1, <1>2, <2>1, <2>2, <2>3
<1> QED BY <1>4, <1>5 DEF Sinking

\* Where an item is.
LEMMA IndexFacts ==
  ASSUME NEW h, NEW x
  PROVE  /\ Holds(h, x) <=> x \in Items(h)
         /\ Holds(h, x) => IndexOf(h, x) \in 1..Len(h) /\ h[IndexOf(h, x)] = x
  BY DEF Holds, IndexOf, Items

\* The keys agree on the items S.
Agree(old, key, S) == \A y \in S : old[y] = key[y]

\* g is in order if h was by keys that have changed for the item x at most.
Restores(T, key, h, x, g) ==
  \A old \in Keys(T) :
    Ordered(old, h) /\ Agree(old, key, Items(h) \ {x}) => Ordered(key, g)

\* update(): the order is restored.
LEMMA UpdateFacts ==
  ASSUME NEW T, NEW key \in Keys(T), NEW h \in Heaps(T), NEW x
  PROVE  /\ Update(key, h, x) \in Heaps(T)
         /\ Len(Update(key, h, x)) = Len(h) /\ Items(Update(key, h, x)) = Items(h)
         /\ Restores(T, key, h, x, Update(key, h, x))
<1>1. CASE ~ Holds(h, x)
  <2>1. Update(key, h, x) = h /\ x \notin Items(h)
    BY <1>1, IndexFacts DEF Update
  <2>2. ASSUME NEW old \in Keys(T), Ordered(old, h), Agree(old, key, Items(h) \ {x})
        PROVE  Ordered(key, h)
    <3>1. \A j \in 1..Len(h) : old[h[j]] = key[h[j]]
      BY <2>1, <2>2 DEF Agree, Items
    <3>2. \A j \in 2..Len(h) : Parent(j) \in 1..Len(h) /\ j \in 1..Len(h)
      BY ParentFacts DEF Heaps
    <3> QED BY <2>2, <3>1, <3>2 DEF Ordered
  <2> QED BY <2>1, <2>2 DEF Restores
<1>2. CASE Holds(h, x)
  <2>1. PICK i : i = IndexOf(h, x)
    OBVIOUS
  <2>2. i \in 1..Len(h) /\ h[i] = x /\ Update(key, h, x) = Sift(key, h, i)
    BY <1>2, <2>1, IndexFacts DEF Update
  <2>3. ASSUME NEW old \in Keys(T), Ordered(old, h), Agree(old, key, Items(h) \ {x})
        PROVE  Sinking(key, h, i, i)
    <3>1. \A j \in 1..Len(h) : j # i => h[j] = h[j] /\ key[h[j]] = old[h[j]]
      BY <2>2, <2>3 DEF Agree, Items, Heaps, Distinct
    <3>2. Len(h) <= Len(h)
      BY DEF Heaps
    <3> QED BY <2>2, <2>3, <3>1, <3>2, Displaced
  <2>4. /\ Sift(key, h, i) \in Heaps(T)
        /\ Len(Sift(key, h, i)) = Len(h) /\ Items(Sift(key, h, i)) = Items(h)
        /\ Sinking(key, h, i, i) => Ordered(key, Sift(key, h, i))
    BY <2>2, SiftFacts
  <2> QED BY <2>2, <2>3, <2>4 DEF Restores
<1> QED BY <1>1, <1>2

\* push().
LEMMA PushFacts ==
  ASSUME NEW T, NEW key \in Keys(T), NEW h \in Heaps(T), NEW x \in T, x \notin Items(h)
  PROVE  /\ Push(key, h, x) \in Heaps(T)
         /\ Len(Push(key, h, x)) = Len(h) + 1 /\ Items(Push(key, h, x)) = Items(h) \cup {x}
         /\ Restores(T, key, h, x, Push(key, h, x))
<1> DEFINE g == Append(h, x)
           n == Len(h)
<1>1. h \in Seq(T) /\ n \in Nat
  BY DEF Heaps
<1>2. /\ g \in Seq(T) /\ Len(g) = n + 1 /\ g[n + 1] = x
      /\ \A j \in 1..n : g[j] = h[j]
  BY <1>1
<1>3. \A j \in 1..(n + 1) : j \in 1..n \/ j = n + 1
  BY <1>1
<1> HIDE DEF g
<1>4. Items(g) = Items(h) \cup {x}
  <2>1. \A j \in 1..n : j \in 1..(n + 1) /\ n + 1 \in 1..(n + 1)
    BY <1>1
  <2>2. n + 1 \in 1..(n + 1)
    BY <1>1
  <2> QED BY <1>2, <1>3, <2>1, <2>2 DEF Items
<1>5. g \in Heaps(T)
  <2>1. \A j \in 1..n : h[j] # x
    BY DEF Items
  <2>2. \A i, j \in 1..n : h[i] = h[j] => i = j
    BY DEF Heaps, Distinct
  <2> QED BY <1>2, <1>3, <2>1, <2>2 DEF Heaps, Distinct
<1>6. ASSUME NEW old \in Keys(T), Ordered(old, h), Agree(old, key, Items(h) \ {x})
      PROVE  Rising(key, g, n + 1)
  <2>1. \A j \in 1..n : old[h[j]] = key[h[j]]
    BY <1>6 DEF Agree, Items
  <2>2. \A j \in 2..(n + 1) : Parent(j) \in 1..n /\ (j # n + 1 => j \in 2..n /\ j \in 1..n)
    BY <1>1, ParentFacts
  <2>3. \A j \in 2..(n + 1) : j # n + 1 => key[g[Parent(j)]] <= key[g[j]]
    BY <1>2, <1>6, <2>1, <2>2 DEF Ordered
  <2>4. \A j \in 2..(n + 1) : Parent(j) # n + 1
    BY <1>1, <2>2
  <2> QED BY <1>2, <2>3, <2>4 DEF Rising
<1>7. n + 1 \in 1..Len(g) /\ Push(key, h, x) = SiftUp(key, g, n + 1)
  BY <1>1, <1>2 DEF Push, g
<1>8. /\ SiftUp(key, g, n + 1) \in Heaps(T)
      /\ Len(SiftUp(key, g, n + 1)) = Len(g) /\ Items(SiftUp(key, g, n + 1)) = Items(g)
      /\ Rising(key, g, n + 1) => Ordered(key, SiftUp(key, g, n + 1))
  BY <1>5, <1>7, SiftUpFacts
<1> QED BY <1>2, <1>4, <1>6, <1>7, <1>8 DEF Restores

\* remove().
LEMMA RemoveFacts ==
  ASSUME NEW T, NEW key \in Keys(T), NEW h \in Heaps(T), NEW x \in Items(h)
  PROVE  /\ Remove(key, h, x) \in Heaps(T)
         /\ Len(Remove(key, h, x)) = Len(h) - 1 /\ Items(Remove(key, h, x)) = Items(h) \ {x}
         /\ Restores(T, key, h, x, Remove(key, h, x))
<1> DEFINE n == Len(h)
           rest == SubSeq(h, 1, n - 1)
<1>1. PICK i : i = IndexOf(h, x)
  OBVIOUS
<1>2. i \in 1..n /\ h[i] = x /\ Holds(h, x)
  BY <1>1, IndexFacts
<1>3. /\ n \in Nat /\ 1 <= n
      /\ \A j, k \in 1..n : h[j] = h[k] => j = k
      /\ \A j \in 1..n : h[j] \in T
      /\ \A j \in 1..(n - 1) : j \in 1..n /\ j # n
      /\ n \in 1..n
  BY <1>2 DEF Heaps, Distinct
<1>4. rest \in Seq(T) /\ Len(rest) = n - 1 /\ \A j \in 1..(n - 1) : rest[j] = h[j]
  <2>1. \A j \in 1..(n - 1) : h[j] \in T
    BY <1>3
  <2>2. /\ rest \in Seq(T)
        /\ Len(rest) = IF 1 <= n - 1 THEN (n - 1) - 1 + 1 ELSE 0
        /\ \A j \in 1..((n - 1) - 1 + 1) : rest[j] = h[1 + j - 1]
    <3>1. 1 \in Int /\ n - 1 \in Int
      BY <1>3
    <3> HIDE DEF n
    <3> QED BY <2>1, <3>1, SubSeqProperties
  <2> HIDE DEF rest, n
  <2>3. \A j \in 1..(n - 1) : j \in 1..((n - 1) - 1 + 1) /\ 1 + j - 1 = j
    BY <1>3
  <2>4. (IF 1 <= n - 1 THEN (n - 1) - 1 + 1 ELSE 0) = n - 1
    BY <1>3
  <2> QED BY <2>2, <2>3, <2>4
<1>5. Remove(key, h, x) = IF i = n THEN rest ELSE Sift(key, [rest EXCEPT ![i] = h[n]], i)
  BY <1>1, <1>2 DEF Remove
<1>6. /\ \A j \in 1..n : h[j] \in Items(h)
      /\ \A y \in Items(h) : \E j \in 1..n : y = h[j]
  BY DEF Items
<1>7. ASSUME NEW old \in Keys(T), Ordered(old, h), Agree(old, key, Items(h) \ {x})
      PROVE  /\ \A j \in 1..n : j # i => old[h[j]] = key[h[j]]
             /\ \A j \in 2..n : old[h[Parent(j)]] <= old[h[j]]
  BY <1>2, <1>3, <1>6, <1>7 DEF Agree, Ordered
<1>8. CASE i = n
  <2> HIDE DEF rest, n
  <2>1. rest \in Heaps(T)
    <3>1. \A j, k \in 1..(n - 1) : rest[j] = rest[k] => j = k
      BY <1>3, <1>4
    <3> QED BY <1>4, <3>1 DEF Heaps, Distinct
  <2>2. Items(rest) = Items(h) \ {x}
    <3>1. Items(rest) = {rest[j] : j \in 1..(n - 1)}
      BY <1>4 DEF Items
    <3>2. \A j \in 1..(n - 1) : rest[j] \in Items(h) \ {x}
      BY <1>2, <1>3, <1>4, <1>6, <1>8
    <3>3. ASSUME NEW y \in Items(h) \ {x} PROVE \E j \in 1..(n - 1) : y = rest[j]
      <4>1. PICK j \in 1..n : y = h[j]
        BY <1>6
      <4>2. j \in 1..(n - 1)
        BY <1>2, <1>3, <1>8, <4>1
      <4> QED BY <1>4, <4>1, <4>2
    <3> QED BY <3>1, <3>2, <3>3
  <2>3. ASSUME NEW old \in Keys(T), Ordered(old, h), Agree(old, key, Items(h) \ {x})
        PROVE  Ordered(key, rest)
    <3> SUFFICES ASSUME NEW j \in 2..(n - 1) PROVE key[rest[Parent(j)]] <= key[rest[j]]
      BY <1>4 DEF Ordered
    <3>1. Parent(j) \in 1..(n - 1) /\ j \in 1..(n - 1) /\ j \in 2..n
      BY <1>3, ParentFacts
    <3>2. old[h[Parent(j)]] <= old[h[j]]
      BY <1>7, <2>3, <3>1
    <3>3. old[h[Parent(j)]] = key[h[Parent(j)]] /\ old[h[j]] = key[h[j]]
      BY <1>3, <1>7, <1>8, <2>3, <3>1
    <3> QED BY <1>4, <3>1, <3>2, <3>3
  <2>4. Remove(key, h, x) = rest
    BY <1>5, <1>8
  <2> QED BY <1>4, <2>1, <2>2, <2>3, <2>4 DEF n, Restores
<1>9. CASE i # n
  <2> DEFINE g == [rest EXCEPT ![i] = h[n]]
  <2>1. /\ g \in Seq(T) /\ Len(g) = n - 1 /\ i \in 1..(n - 1) /\ g[i] = h[n]
        /\ \A j \in 1..(n - 1) : j # i => g[j] = h[j]
    <3> HIDE DEF rest, n
    <3>1. i \in 1..(n - 1)
      BY <1>2, <1>3, <1>9
    <3> QED BY <1>3, <1>4, <3>1
  <2> HIDE DEF g, rest, n
  <2>2. g \in Heaps(T)
    <3>1. \A j, k \in 1..(n - 1) : g[j] = g[k] => j = k
      BY <1>3, <2>1
    <3> QED BY <2>1, <3>1 DEF Heaps, Distinct
  <2>3. Items(g) = Items(h) \ {x}
    <3>1. Items(g) = {g[j] : j \in 1..(n - 1)}
      BY <2>1 DEF Items
    <3>2. \A j \in 1..(n - 1) : g[j] \in Items(h) \ {x}
      BY <1>2, <1>3, <1>6, <1>9, <2>1
    <3>3. ASSUME NEW y \in Items(h) \ {x} PROVE \E j \in 1..(n - 1) : y = g[j]
      <4>1. PICK j \in 1..n : y = h[j]
        BY <1>6
      <4>2. CASE j = n
        BY <2>1, <4>1, <4>2
      <4>3. CASE j # n
        <5>1. j \in 1..(n - 1) /\ j # i
          BY <1>2, <1>3, <4>1, <4>3
        <5> QED BY <2>1, <4>1, <5>1
      <4> QED BY <4>2, <4>3
    <3> QED BY <3>1, <3>2, <3>3
  <2>4. i \in 1..Len(g) /\ Len(g) <= Len(h)
    BY <1>3, <2>1 DEF n
  <2>5. ASSUME NEW old \in Keys(T), Ordered(old, h), Agree(old, key, Items(h) \ {x})
        PROVE  Sinking(key, g, i, i)
    <3>1. ASSUME NEW j \in 1..Len(g), j # i PROVE g[j] = h[j] /\ key[g[j]] = old[h[j]]
      <4>1. j \in 1..(n - 1) /\ j \in 1..n /\ g[j] = h[j]
        BY <1>3, <2>1, <3>1
      <4>2. old[h[j]] = key[h[j]]
        BY <1>7, <2>5, <3>1, <4>1
      <4> QED BY <4>1, <4>2
    <3> QED BY <2>2, <2>4, <2>5, <3>1, Displaced
  <2>6. Remove(key, h, x) = Sift(key, g, i)
    BY <1>5, <1>9 DEF g
  <2>7. /\ Sift(key, g, i) \in Heaps(T)
        /\ Len(Sift(key, g, i)) = Len(g) /\ Items(Sift(key, g, i)) = Items(g)
        /\ Sinking(key, g, i, i) => Ordered(key, Sift(key, g, i))
    BY <2>2, <2>4, SiftFacts
  <2> QED BY <2>1, <2>3, <2>5, <2>6, <2>7 DEF n, Restores
<1> QED BY <1>8, <1>9

\* min-heap.ts: on a heap of any size that is in order, push() and remove() keep it in
\* order, and update() after any change of the key of one item puts it back in order; none
\* of them loses or duplicates an item.
Sound(T, key, g, items) == g \in Heaps(T) /\ Items(g) = items /\ Ordered(key, g)
THEOREM OperationsRestore ==
  ASSUME NEW T, NEW key \in Keys(T), NEW h \in Heaps(T), Ordered(key, h)
  PROVE  /\ \A x \in T \ Items(h) : Sound(T, key, Push(key, h, x), Items(h) \cup {x})
         /\ \A x \in Items(h) : Sound(T, key, Remove(key, h, x), Items(h) \ {x})
         /\ \A x \in T, k \in Nat :
              LET changed == [key EXCEPT ![x] = k]
              IN Sound(T, changed, Update(changed, h, x), Items(h))
<1>1. \A x : Agree(key, key, Items(h) \ {x})
  BY DEF Agree
<1>2. ASSUME NEW x \in T \ Items(h)
      PROVE  Sound(T, key, Push(key, h, x), Items(h) \cup {x})
  <2>1. /\ Push(key, h, x) \in Heaps(T) /\ Items(Push(key, h, x)) = Items(h) \cup {x}
        /\ Restores(T, key, h, x, Push(key, h, x))
    BY PushFacts
  <2> QED BY <1>1, <2>1 DEF Restores, Sound
<1>3. ASSUME NEW x \in Items(h)
      PROVE  Sound(T, key, Remove(key, h, x), Items(h) \ {x})
  <2>1. /\ Remove(key, h, x) \in Heaps(T) /\ Items(Remove(key, h, x)) = Items(h) \ {x}
        /\ Restores(T, key, h, x, Remove(key, h, x))
    BY RemoveFacts
  <2> QED BY <1>1, <2>1 DEF Restores, Sound
<1>4. ASSUME NEW x \in T, NEW k \in Nat, NEW changed, changed = [key EXCEPT ![x] = k]
      PROVE  Sound(T, changed, Update(changed, h, x), Items(h))
  <2>1. changed \in Keys(T)
    BY <1>4 DEF Keys
  <2>2. /\ Update(changed, h, x) \in Heaps(T) /\ Items(Update(changed, h, x)) = Items(h)
        /\ Restores(T, changed, h, x, Update(changed, h, x))
    BY <2>1, UpdateFacts
  <2>3. Items(h) \subseteq T
    BY DEF Items, Heaps
  <2>4. Agree(key, changed, Items(h) \ {x})
    BY <1>4, <2>3 DEF Agree, Keys
  <2> QED BY <2>2, <2>4 DEF Restores, Sound
<1> QED BY <1>2, <1>3, <1>4

\* min-heap.ts: what the runs evaluate on small heaps holds of heaps of any size.
LEMMA OperationsRestoreAll == \A n, most \in Nat : AllRestored(n, most)
<1> SUFFICES ASSUME NEW n \in Nat, NEW most \in Nat,
                    NEW key \in [1..n -> 0..most], NEW h \in Arrays(n), NEW x \in 1..n,
                    Ordered(key, h)
             PROVE  /\ Holds(h, x) => Restored(key, Remove(key, h, x), Items(h) \ {x})
                    /\ ~Holds(h, x) => Restored(key, Push(key, h, x), Items(h) \cup {x})
                    /\ \A k \in 0..most :
                         LET changed == [key EXCEPT ![x] = k]
                         IN Restored(changed, Update(changed, h, x), Items(h))
  BY DEF AllRestored
<1> DEFINE T == 1..n
<1>1. key \in Keys(T)
  BY DEF Keys
<1>2. h \in Heaps(T)
  <2>1. PICK m \in 0..n : h \in [1..m -> T] /\ Distinct(h)
    BY DEF Arrays
  <2> QED BY <2>1 DEF Heaps
<1>3. Holds(h, x) <=> x \in Items(h)
  BY DEF Holds, Items
<1>4. \A k, g, items : Sound(T, k, g, items) => Restored(k, g, items)
  BY DEF Sound, Restored, Heaps
<1>5. x \in T \ Items(h) => Sound(T, key, Push(key, h, x), Items(h) \cup {x})
  BY <1>1, <1>2, OperationsRestore
<1>6. x \in Items(h) => Sound(T, key, Remove(key, h, x), Items(h) \ {x})
  BY <1>1, <1>2, OperationsRestore
<1>7. ASSUME NEW k \in 0..most, NEW changed, changed = [key EXCEPT ![x] = k]
      PROVE  Restored(changed, Update(changed, h, x), Items(h))
  <2>1. k \in Nat /\ x \in T
    OBVIOUS
  <2>2. Sound(T, changed, Update(changed, h, x), Items(h))
    BY <1>1, <1>2, <1>7, <2>1, OperationsRestore
  <2> QED BY <1>4, <2>2
<1> QED BY <1>3, <1>4, <1>5, <1>6, <1>7

\* min-heap.ts: push(), remove() and update() restore the heap, for pools of any size and
\* any limit of the clients of a connection.
THEOREM HeapRestoredHolds == Spec => []HeapRestored
<1>1. Slots + 1 \in Nat /\ MaxClients + 1 \in Nat
  BY PoolAssumption
<1>2. AllRestored(Slots + 1, MaxClients + 1)
  BY <1>1, OperationsRestoreAll
<1>3. HeapRestored
  BY <1>2 DEF HeapRestored
<1> QED BY <1>3, PTL

\* The least key of a heap in order is on top.
LEMMA TopIsLeast ==
  ASSUME NEW T, NEW key \in [T -> Nat], NEW h \in Seq(T), Ordered(key, h)
  PROVE  \A i \in 1..Len(h) : key[h[1]] <= key[h[i]]
<1> DEFINE n == Len(h)
           B == {i \in 1..n : ~ (key[h[1]] <= key[h[i]])}
<1> SUFFICES ASSUME B # {} PROVE FALSE
  OBVIOUS
<1>1. B \in SUBSET Nat
  OBVIOUS
<1>2. PICK i \in B : \A j \in B : i <= j
  <2> HIDE DEF B
  <2> QED BY <1>1, LeastNumber
<1>3. n \in Nat /\ \A j \in 1..n : key[h[j]] \in Nat
  OBVIOUS
<1>4. i \in 1..n /\ ~ (key[h[1]] <= key[h[i]]) /\ i \in 2..n
  BY <1>3
<1>5. Parent(i) \in 1..n /\ Parent(i) < i
  BY <1>3, <1>4, ParentFacts
<1>6. Parent(i) \notin B
  BY <1>2, <1>4, <1>5
<1>7. key[h[1]] <= key[h[Parent(i)]] /\ key[h[Parent(i)]] <= key[h[i]]
  BY <1>4, <1>5, <1>6 DEF Ordered
<1>8. 1 \in 1..n
  BY <1>3, <1>4
<1> QED BY <1>3, <1>4, <1>5, <1>7, <1>8

-----------------------------------------------------------------------------
\* The running connections of a pool.
Alive(p) == {c \in Of(p) : c \notin stopped /\ link[c] \notin {"absent", "closed"}}

\* Each heap of a pool not in M is in order by the counters n, but for the connections S,
\* whose counters changed after: it is in order by the ones they had.
InOrder(hs, n, S, M) ==
  \A p \in Pool \ M : \E old \in Keys(Conn) :
    Ordered(old, hs[p]) /\ Agree(old, n, Items(hs[p]) \ S)

\* Heaps of the pools' own connections.
OwnHeaps == {hs \in [Pool -> Heaps(Conn)] : \A p \in Pool : Items(hs[p]) \subseteq Of(p)}

HeapInv ==
  /\ heap \in [Pool -> Heaps(Conn)]
  /\ \A p \in Pool : Items(heap[p]) = Alive(p)
  /\ InOrder(heap, count, stale, mixed)

Shape ==
  /\ link \in [Conn -> {"absent", "connecting", "up", "waiting", "closed"}]
  /\ stopped \subseteq Conn /\ rested \subseteq Conn /\ stale \subseteq Conn
  /\ closed \subseteq Client
  /\ turn \in Nat
  /\ running \in BOOLEAN
  /\ mixed \subseteq Pool

PoolInv == Inv /\ Shape /\ HeapInv /\ SizeInBounds

\* The counters and heaps after a change that touches the connection c only.
KeepsOrder(hs, n, S, M, c, new, key) ==
  InOrder(hs, n, S, M) => InOrder(new, key, S \ {c}, M \cup Mixed(c, S))

\* One connection is sifted, or added.
Touched(hs, key, c) == [hs EXCEPT ![c[1]] = Update(key, @, c)]
Added(hs, key, c) == [hs EXCEPT ![c[1]] = Push(key, @, c)]
\* Only the counter of c changes.
OnlyAt(c, n, key) == \A d \in Conn : d # c => key[d] = n[d]
SameItems(hs, new) ==
  \A p \in Pool : Items(new[p]) = Items(hs[p]) /\ Len(new[p]) = Len(hs[p])
OneMore(hs, c, new) ==
  \A p \in Pool :
    /\ Items(new[p]) = Items(hs[p]) \cup (IF p = c[1] THEN {c} ELSE {})
    /\ Len(new[p]) = Len(hs[p]) + (IF p = c[1] THEN 1 ELSE 0)

LEMMA OwnPool == \A c \in Conn : c[1] \in Pool /\ \A p \in Pool : c \in Of(p) <=> c[1] = p
  BY DEF Conn, Of

\* One connection is sifted because its counter changed.
LEMMA TouchFacts ==
  ASSUME NEW hs \in OwnHeaps, NEW n \in Keys(Conn), NEW key \in Keys(Conn),
         NEW S, NEW M, NEW c \in Conn, OnlyAt(c, n, key), NEW new, new = Touched(hs, key, c)
  PROVE  /\ new \in OwnHeaps
         /\ SameItems(hs, new)
         /\ KeepsOrder(hs, n, S, M, c, new, key)
<1>1. hs \in [Pool -> Heaps(Conn)] /\ \A p \in Pool : Items(hs[p]) \subseteq Of(p)
  BY DEF OwnHeaps
<1>2. c[1] \in Pool /\ \A p \in Pool : c \in Of(p) <=> c[1] = p
  BY OwnPool
<1>3. /\ Update(key, hs[c[1]], c) \in Heaps(Conn)
      /\ Len(Update(key, hs[c[1]], c)) = Len(hs[c[1]])
      /\ Items(Update(key, hs[c[1]], c)) = Items(hs[c[1]])
      /\ Restores(Conn, key, hs[c[1]], c, Update(key, hs[c[1]], c))
  <2>1. PICK h \in Heaps(Conn) : h = hs[c[1]]
    BY <1>1, <1>2
  <2>2. /\ Update(key, h, c) \in Heaps(Conn)
        /\ Len(Update(key, h, c)) = Len(h) /\ Items(Update(key, h, c)) = Items(h)
        /\ Restores(Conn, key, h, c, Update(key, h, c))
    BY UpdateFacts
  <2> QED BY <2>1, <2>2
<1>4. /\ new \in [Pool -> Heaps(Conn)]
      /\ new[c[1]] = Update(key, hs[c[1]], c)
      /\ \A p \in Pool : p # c[1] => new[p] = hs[p]
  BY <1>1, <1>2, <1>3 DEF Touched
<1>5. \A p \in Pool : Items(new[p]) = Items(hs[p]) /\ Len(new[p]) = Len(hs[p])
  BY <1>3, <1>4
<1>6. ASSUME InOrder(hs, n, S, M), NEW p \in Pool \ (M \cup Mixed(c, S))
      PROVE  \E old \in Keys(Conn) :
               Ordered(old, new[p]) /\ Agree(old, key, Items(new[p]) \ (S \ {c}))
  <2>1. PICK old \in Keys(Conn) : Ordered(old, hs[p]) /\ Agree(old, n, Items(hs[p]) \ S)
    BY <1>6 DEF InOrder
  <2>2. \A d \in Items(hs[p]) : d \in Of(p) /\ d \in Conn
    BY <1>1 DEF Of
  <2>3. CASE p = c[1]
    <3>1. (S \cap Of(p)) \ {c} = {}
      BY <1>2, <1>6, <2>3 DEF Mixed
    <3>2. Agree(old, key, Items(hs[p]) \ {c})
      BY <2>1, <2>2, <3>1 DEF Agree, OnlyAt
    <3>3. Ordered(key, new[p])
      BY <1>3, <1>4, <2>1, <2>3, <3>2 DEF Restores
    <3> QED BY <3>3 DEF Agree
  <2>4. CASE p # c[1]
    <3>1. Agree(old, key, Items(hs[p]) \ (S \ {c}))
      BY <1>2, <2>1, <2>2, <2>4 DEF Agree, OnlyAt
    <3> QED BY <1>4, <2>1, <2>4, <3>1
  <2> QED BY <2>3, <2>4
<1>7. KeepsOrder(hs, n, S, M, c, new, key)
  BY <1>6 DEF KeepsOrder, InOrder
<1>8. new \in OwnHeaps
  BY <1>1, <1>4, <1>5 DEF OwnHeaps
<1> QED BY <1>5, <1>7, <1>8 DEF SameItems

\* A connection is added.
LEMMA AddFacts ==
  ASSUME NEW hs \in OwnHeaps, NEW n \in Keys(Conn), NEW key \in Keys(Conn),
         NEW S, NEW M, NEW c \in Conn, c \notin Items(hs[c[1]]),
         OnlyAt(c, n, key), NEW new, new = Added(hs, key, c)
  PROVE  /\ new \in OwnHeaps
         /\ OneMore(hs, c, new)
         /\ KeepsOrder(hs, n, S, M, c, new, key)
<1>1. hs \in [Pool -> Heaps(Conn)] /\ \A p \in Pool : Items(hs[p]) \subseteq Of(p)
  BY DEF OwnHeaps
<1>2. c[1] \in Pool /\ \A p \in Pool : c \in Of(p) <=> c[1] = p
  BY OwnPool
<1>3. /\ Push(key, hs[c[1]], c) \in Heaps(Conn)
      /\ Len(Push(key, hs[c[1]], c)) = Len(hs[c[1]]) + 1
      /\ Items(Push(key, hs[c[1]], c)) = Items(hs[c[1]]) \cup {c}
      /\ Restores(Conn, key, hs[c[1]], c, Push(key, hs[c[1]], c))
  <2>1. PICK h \in Heaps(Conn) : h = hs[c[1]] /\ c \notin Items(h)
    BY <1>1, <1>2
  <2>2. /\ Push(key, h, c) \in Heaps(Conn)
        /\ Len(Push(key, h, c)) = Len(h) + 1 /\ Items(Push(key, h, c)) = Items(h) \cup {c}
        /\ Restores(Conn, key, h, c, Push(key, h, c))
    BY <2>1, PushFacts
  <2> QED BY <2>1, <2>2
<1>4. /\ new \in [Pool -> Heaps(Conn)]
      /\ new[c[1]] = Push(key, hs[c[1]], c)
      /\ \A p \in Pool : p # c[1] => new[p] = hs[p]
  BY <1>1, <1>2, <1>3 DEF Added
<1>5. \A p \in Pool : /\ Items(new[p]) = Items(hs[p]) \cup (IF p = c[1] THEN {c} ELSE {})
                      /\ Len(new[p]) = Len(hs[p]) + (IF p = c[1] THEN 1 ELSE 0)
  <2> TAKE p \in Pool
  <2>1. CASE p = c[1]
    BY <1>3, <1>4, <2>1
  <2>2. CASE p # c[1]
    <3>1. Len(hs[p]) \in Nat
      BY <1>1 DEF Heaps
    <3> QED BY <1>4, <2>2, <3>1
  <2> QED BY <2>1, <2>2
<1>6. ASSUME InOrder(hs, n, S, M), NEW p \in Pool \ (M \cup Mixed(c, S))
      PROVE  \E old \in Keys(Conn) :
               Ordered(old, new[p]) /\ Agree(old, key, Items(new[p]) \ (S \ {c}))
  <2>1. PICK old \in Keys(Conn) : Ordered(old, hs[p]) /\ Agree(old, n, Items(hs[p]) \ S)
    BY <1>6 DEF InOrder
  <2>2. \A d \in Items(hs[p]) : d \in Of(p) /\ d \in Conn
    BY <1>1 DEF Of
  <2>3. CASE p = c[1]
    <3>1. (S \cap Of(p)) \ {c} = {}
      BY <1>2, <1>6, <2>3 DEF Mixed
    <3>2. Agree(old, key, Items(hs[p]) \ {c})
      BY <2>1, <2>2, <2>3, <3>1 DEF Agree, OnlyAt
    <3>3. Ordered(key, new[p])
      BY <1>3, <1>4, <2>1, <2>3, <3>2 DEF Restores
    <3> QED BY <3>3 DEF Agree
  <2>4. CASE p # c[1]
    <3>1. Agree(old, key, Items(hs[p]) \ (S \ {c}))
      BY <1>2, <2>1, <2>2, <2>4 DEF Agree, OnlyAt
    <3> QED BY <1>4, <2>1, <2>4, <3>1
  <2> QED BY <2>3, <2>4
<1>7. KeepsOrder(hs, n, S, M, c, new, key)
  BY <1>6 DEF KeepsOrder, InOrder
<1>8. new \in OwnHeaps
  <2>1. \A p \in Pool : Items(new[p]) \subseteq Of(p)
    BY <1>1, <1>2, <1>5
  <2> QED BY <1>4, <2>1 DEF OwnHeaps
<1> QED BY <1>5, <1>7, <1>8 DEF OneMore
\* start() pushes connections that nobody uses yet, but each counts one when the next one
\* comes.
LEMMA StartFacts ==
  ASSUME NEW p \in Pool
  PROVE  /\ StartHeap(p) \in Heaps(Conn)
         /\ Len(StartHeap(p)) = MinConnections
         /\ Items(StartHeap(p)) = {<<p, k>> : k \in 1..MinConnections}
<1> DEFINE n == MinConnections
           zero(k) == [c \in Conn |-> IF c = <<p, k>> THEN 0 ELSE 1]
           T == Heaps(Conn)
           step == [a \in (1..n) \X T |->
                      IF <<p, a[1]>> \in Items(a[2]) THEN a[2]
                      ELSE Push(zero(a[1]), a[2], <<p, a[1]>>)]
           none == <<>>
           Grown(f) == f = [k \in 0..n |-> IF k = 0 THEN <<>>
                                           ELSE Push(zero(k), f[k - 1], <<p, k>>)]
<1>1. n \in Nat /\ \A k \in 1..n : <<p, k>> \in Conn
  BY PoolAssumption DEF Conn
<1>2. ASSUME NEW k \in 1..n, NEW h \in T, <<p, k>> \notin Items(h)
      PROVE  /\ Push(zero(k), h, <<p, k>>) \in T
             /\ Len(Push(zero(k), h, <<p, k>>)) = Len(h) + 1
             /\ Items(Push(zero(k), h, <<p, k>>)) = Items(h) \cup {<<p, k>>}
  <2>1. zero(k) \in Keys(Conn)
    BY DEF Keys
  <2> HIDE DEF zero
  <2> QED BY <1>1, <1>2, <2>1, PushFacts
<1> HIDE DEF zero, n
<1>3. step \in [(1..n) \X T -> T]
  <2>1. ASSUME NEW a \in (1..n) \X T
        PROVE  (IF <<p, a[1]>> \in Items(a[2]) THEN a[2]
                ELSE Push(zero(a[1]), a[2], <<p, a[1]>>)) \in T
    <3>1. a[1] \in 1..n /\ a[2] \in T
      OBVIOUS
    <3> HIDE DEF T
    <3> QED BY <1>2, <3>1
  <2> HIDE DEF T
  <2> QED BY <2>1
<1>4. none \in T /\ Len(none) = 0 /\ Items(none) = {}
  BY DEF Heaps, Distinct, Items
<1>5. \A k \in 1..n, h \in T :
        step[<<k, h>>] = IF <<p, k>> \in Items(h) THEN h ELSE Push(zero(k), h, <<p, k>>)
  <2> TAKE k \in 1..n, h \in T
  <2> HIDE DEF T
  <2>1. <<k, h>> \in (1..n) \X T
    OBVIOUS
  <2> QED BY <2>1
<1> HIDE DEF T, step, none
<1>6. PICK g \in [0..n -> T] : Recursive(g, n, none, step)
  BY <1>1, <1>3, <1>4, Recursion DEF n
<1> DEFINE Good(k) == Len(g[k]) = k /\ Items(g[k]) = {<<p, j>> : j \in 1..k}
           Q == {k \in 0..n : Good(k)}
<1>7. ASSUME NEW k \in 0..(n - 1), Good(k)
      PROVE  Good(k + 1) /\ g[k + 1] = Push(zero(k + 1), g[k], <<p, k + 1>>)
  <2>1. /\ k + 1 \in 0..n /\ k + 1 \in 1..n /\ (k + 1) - 1 = k /\ k + 1 # 0 /\ k \in 0..n
        /\ k + 1 \notin 1..k
    BY <1>1 DEF n
  <2>2. g[k + 1] = step[<<k + 1, g[k]>>] /\ g[k] \in T
    BY <1>6, <2>1 DEF Recursive
  <2>3. <<p, k + 1>> \notin Items(g[k])
    BY <1>7, <2>1
  <2>4. g[k + 1] = Push(zero(k + 1), g[k], <<p, k + 1>>)
    BY <1>5, <2>1, <2>2, <2>3
  <2>5. Len(g[k + 1]) = k + 1 /\ Items(g[k + 1]) = Items(g[k]) \cup {<<p, k + 1>>}
    BY <1>2, <1>7, <2>1, <2>2, <2>3, <2>4
  <2>6. 1..(k + 1) = (1..k) \cup {k + 1}
    OBVIOUS
  <2>7. {<<p, j>> : j \in 1..(k + 1)} = {<<p, j>> : j \in 1..k} \cup {<<p, k + 1>>}
    BY <2>6
  <2> QED BY <1>7, <2>4, <2>5, <2>7
<1>8. \A k \in 0..n : k \in Q
  <2>1. 0 \in Q
    <3>1. 0 \in 0..n
      BY <1>1 DEF n
    <3>2. g[0] = none
      BY <1>6, <3>1 DEF Recursive
    <3>3. {<<p, j>> : j \in 1..0} = {}
      OBVIOUS
    <3> QED BY <1>4, <3>1, <3>2, <3>3
  <2>2. \A k \in 0..(n - 1) : k \in Q => k + 1 \in Q
    <3> TAKE k \in 0..(n - 1)
    <3> HAVE k \in Q
    <3>1. k + 1 \in 0..n
      BY <1>1 DEF n
    <3>2. Good(k + 1)
      BY <1>7
    <3> QED BY <3>1, <3>2
  <2>3. n \in Nat
    BY <1>1 DEF n
  <2> HIDE DEF Q
  <2> QED BY <2>1, <2>2, <2>3, Induct
<1>9. Grown(g)
  <2>1. ASSUME NEW k \in 0..n
        PROVE  g[k] = IF k = 0 THEN <<>> ELSE Push(zero(k), g[k - 1], <<p, k>>)
    <3>1. CASE k = 0
      BY <1>6, <3>1 DEF Recursive, none
    <3>2. CASE k # 0
      <4>1. k - 1 \in 0..(n - 1) /\ k - 1 \in 0..n /\ (k - 1) + 1 = k
        BY <1>1, <3>2 DEF n
      <4> QED BY <1>7, <1>8, <3>2, <4>1
    <3> QED BY <3>1, <3>2
  <2> QED BY <2>1
<1> DEFINE grown == CHOOSE f : Grown(f)
<1>10. Grown(grown)
  BY <1>9
<1>11. StartHeap(p) = grown[n]
  BY DEF StartHeap, zero, n
<1> HIDE DEF grown
<1> DEFINE R == {k \in 0..n : grown[k] = g[k]}
<1>12. n \in R
  <2>1. 0 \in R
    <3>1. 0 \in 0..n
      BY <1>1 DEF n
    <3> QED BY <1>9, <1>10, <3>1
  <2>2. \A k \in 0..(n - 1) : k \in R => k + 1 \in R
    <3> TAKE k \in 0..(n - 1)
    <3> HAVE k \in R
    <3>1. k + 1 \in 0..n /\ k + 1 # 0 /\ (k + 1) - 1 = k
      BY <1>1 DEF n
    <3>2. grown[k + 1] = Push(zero(k + 1), grown[k], <<p, k + 1>>)
      BY <1>10, <3>1
    <3>3. g[k + 1] = Push(zero(k + 1), g[k], <<p, k + 1>>)
      BY <1>9, <3>1
    <3> QED BY <3>1, <3>2, <3>3
  <2>3. n \in Nat /\ n \in 0..n
    BY <1>1 DEF n
  <2> HIDE DEF R
  <2>4. \A k \in 0..n : k \in R
    BY <2>1, <2>2, <2>3, Induct
  <2> QED BY <2>3, <2>4
<1>13. n \in 0..n /\ n \in Q
  BY <1>8, <1>12
<1> QED BY <1>6, <1>11, <1>12, <1>13 DEF T, n

LEMMA InitPool == Init => PoolInv
<1> SUFFICES ASSUME Init PROVE PoolInv
  OBVIOUS
<1>1. starters \subseteq Conn
  BY PoolAssumption DEF Init, Conn
<1>2. \A p \in Pool : /\ heap[p] \in Heaps(Conn) /\ Len(heap[p]) = MinConnections
                      /\ Items(heap[p]) = {<<p, k>> : k \in 1..MinConnections}
  BY StartFacts DEF Init
<1>3. \A p \in Pool : Items(heap[p]) = Of(p) \cap starters
  <2> TAKE p \in Pool
  <2>1. \A k \in 1..MinConnections : <<p, k>> \in starters /\ <<p, k>>[1] = p
    BY DEF Init
  <2>2. \A c \in starters : c[1] = p => \E k \in 1..MinConnections : c = <<p, k>>
    BY DEF Init
  <2> QED BY <1>1, <1>2, <2>1, <2>2 DEF Of
<1>4. \A p \in Pool : Items(heap[p]) = Alive(p)
  BY <1>3 DEF Init, Alive, Of
<1>5. HeapInv
  <2>1. ASSUME NEW p \in Pool
        PROVE  Ordered(count, heap[p]) /\ Agree(count, count, Items(heap[p]) \ stale)
    <3>1. \A i \in 1..Len(heap[p]) : count[heap[p][i]] = 1
      <4> TAKE i \in 1..Len(heap[p])
      <4>1. heap[p][i] \in starters
        BY <1>3 DEF Items
      <4> QED BY <1>1, <4>1 DEF Init
    <3>2. \A j \in 2..Len(heap[p]) : Parent(j) \in 1..Len(heap[p]) /\ j \in 1..Len(heap[p])
      <4>1. Len(heap[p]) \in Nat
        BY <1>2, PoolAssumption
      <4> QED BY <4>1, ParentFacts
    <3> QED BY <3>1, <3>2 DEF Ordered, Agree
  <2>2. count \in Keys(Conn)
    BY DEF Init, Keys
  <2>3. InOrder(heap, count, stale, mixed)
    BY <2>1, <2>2 DEF InOrder
  <2>4. heap \in [Pool -> Heaps(Conn)]
    BY <1>2 DEF Init
  <2> QED BY <1>4, <2>3, <2>4 DEF HeapInv
<1>6. SizeInBounds
  BY <1>2, PoolAssumption DEF SizeInBounds
<1>7. Shape
  BY DEF Init, Shape
<1> QED BY <1>5, <1>6, <1>7, InitInv DEF PoolInv
-----------------------------------------------------------------------------
LEMMA HeapOwned == HeapInv => heap \in OwnHeaps
  BY DEF HeapInv, OwnHeaps, Alive, Of

\* release(): one connection is sifted, or none.
LEMMA ReleaseHeaps ==
  ASSUME PoolInv, NEW old \in Conn \cup {None}, NEW hs, hs = HeapsAfterRelease(old),
         NEW n, n = Released(old)
  PROVE  /\ hs \in OwnHeaps
         /\ SameItems(heap, hs)
         /\ InOrder(hs, n, stale \ {old}, mixed \cup Mixed(old, stale))
<1>1. heap \in OwnHeaps /\ InOrder(heap, count, stale, mixed)
  BY HeapOwned DEF PoolInv, HeapInv
<1>2. count \in Keys(Conn) /\ stale \subseteq Conn
  BY DEF PoolInv, Inv, Typed, Shape, Keys
<1>3. CASE old = None
  <2>1. hs = heap /\ n = count
    BY <1>3 DEF HeapsAfterRelease, Released
  <2>2. stale \ {old} = stale
    BY <1>2, <1>3, PoolAssumption
  <2>3. Mixed(old, stale) = {}
    BY <1>3, PoolAssumption DEF Mixed, Of
  <2>4. mixed \cup Mixed(old, stale) = mixed
    BY <2>3
  <2> QED BY <1>1, <2>1, <2>2, <2>4 DEF SameItems
<1>4. CASE old \in Conn
  <2>1. old # None
    BY <1>4, PoolAssumption
  <2>2. n \in Keys(Conn)
    BY <1>2, <2>1 DEF Released, Keys
  <2>3. OnlyAt(old, count, n)
    BY <1>2, <2>1 DEF Released, OnlyAt, Keys
  <2>4. hs = Touched(heap, n, old)
    BY <2>1 DEF HeapsAfterRelease, Touched
  <2>5. /\ KeepsOrder(heap, count, stale, mixed, old, hs, n)
        /\ hs \in OwnHeaps /\ SameItems(heap, hs)
    BY <1>1, <1>2, <1>4, <2>2, <2>3, <2>4, TouchFacts
  <2> QED BY <1>1, <2>5 DEF KeepsOrder
<1> QED BY <1>3, <1>4

LEMMA FreshIsFree ==
  ASSUME NEW p \in Pool, Free(p) # {}
  PROVE  Fresh(p) \in Free(p)
<1> DEFINE N == {c[2] : c \in Free(p)}
<1>1. N \in SUBSET Nat /\ N # {}
  BY PoolAssumption DEF Free, Of, Conn
<1>2. PICK x \in N : \A y \in N : x <= y
  <2> HIDE DEF N
  <2> QED BY <1>1, LeastNumber
<1>3. \E c \in Free(p) : \A d \in Free(p) : c[2] <= d[2]
  BY <1>2
<1> QED BY <1>3 DEF Fresh

\* What else a client's arrival changes.
LEMMA ResolveShape ==
  ASSUME Shape, NEW cl \in Client, NEW m \in Method, ResolveUpstream(cl, m)
  PROVE  Shape'
<1> DEFINE n == Released(assigned[cl])
           hs == HeapsAfterRelease(assigned[cl])
           p == Candidates[m][(turn % Len(Candidates[m])) + 1]
<1>1. PICK c \in Of(p) :
        /\ Reuse(p, n, hs, c) \/ Grow(p, n, hs, c)
        /\ rested' = rested \ {assigned[cl], c}
        /\ stale' = stale \ {assigned[cl], c}
        /\ mixed' = mixed \cup Mixed(assigned[cl], stale)
                          \cup Mixed(c, stale \ {assigned[cl]})
  BY DEF ResolveUpstream
<1>2. /\ link' \in [Conn -> {"absent", "connecting", "up", "waiting", "closed"}]
      /\ stopped' \subseteq Conn
  BY <1>1 DEF Reuse, Grow, Shape, Of
<1>3. turn' \in Nat
  <2>1. Candidates[m] \in Seq(Pool) /\ Candidates[m] # <<>>
    BY PoolAssumption DEF ResolveUpstream
  <2>2. PICK k \in Nat \ {0} : k = Len(Candidates[m])
    BY <2>1
  <2>3. turn' = (turn % k) + 1
    BY <2>2 DEF ResolveUpstream
  <2>4. turn \in Nat
    BY DEF Shape
  <2>5. turn % k \in Nat
    BY ONLY <2>4, k \in Nat \ {0}
  <2> QED BY <2>3, <2>5
<1>4. mixed' \subseteq Pool
  BY <1>1 DEF Mixed, Shape
<1>5. UNCHANGED <<closed, running>>
  BY DEF ResolveUpstream
<1> QED BY <1>1, <1>2, <1>3, <1>4, <1>5 DEF Shape

LEMMA ResolvePool ==
  ASSUME PoolInv, NEW cl \in Client, NEW m \in Method, ResolveUpstream(cl, m)
  PROVE  HeapInv' /\ SizeInBounds'
<1> DEFINE old == assigned[cl]
           p == Candidates[m][(turn % Len(Candidates[m])) + 1]
<1>1. PICK n, hs : n = Released(old) /\ hs = HeapsAfterRelease(old)
  OBVIOUS
<1>2. PICK c \in Of(p) :
        /\ Reuse(p, n, hs, c) \/ Grow(p, n, hs, c)
        /\ stale' = stale \ {old, c}
        /\ mixed' = mixed \cup Mixed(old, stale) \cup Mixed(c, stale \ {old})
  BY <1>1 DEF ResolveUpstream
<1>3. /\ hs \in OwnHeaps
      /\ SameItems(heap, hs)
      /\ InOrder(hs, n, stale \ {old}, mixed \cup Mixed(old, stale))
      /\ n \in Keys(Conn)
  <2>1. old \in Conn \cup {None}
    BY DEF PoolInv, Inv, Typed
  <2>2. n \in Keys(Conn)
    BY <1>1, Releasing DEF PoolInv, Keys
  <2> HIDE DEF old
  <2> QED BY <1>1, <2>1, <2>2, ReleaseHeaps
<1>4. c \in Conn /\ c[1] = p /\ p \in Pool
  BY <1>2, OwnPool DEF Of
<1>5. PICK S, M : S = stale \ {old} /\ M = mixed \cup Mixed(old, stale)
  OBVIOUS
<1>6. stale' = S \ {c} /\ mixed' = M \cup Mixed(c, S) /\ InOrder(hs, n, S, M)
  BY <1>2, <1>3, <1>5
<1> HIDE DEF p
<1>7. \A q \in Pool : /\ Len(hs[q]) \in Nat
                      /\ Len(hs[q]) = Len(heap[q])
                      /\ running => Len(hs[q]) \in MinConnections..MaxConnections
  BY <1>3 DEF OwnHeaps, Heaps, SameItems, PoolInv, SizeInBounds
<1>8. CASE Reuse(p, n, hs, c)
  <2>1. PICK key : key = [n EXCEPT ![c] = @ + 1]
    OBVIOUS
  <2>2. key \in Keys(Conn) /\ OnlyAt(c, n, key)
    BY <1>3, <1>4, <2>1 DEF Keys, OnlyAt
  <2>3. count' = key /\ heap' = Touched(hs, key, c)
    BY <1>4, <1>8, <2>1 DEF Reuse, Touched
  <2>4. heap' \in OwnHeaps /\ SameItems(hs, heap') /\ KeepsOrder(hs, n, S, M, c, heap', key)
    BY <1>3, <1>4, <2>2, <2>3, TouchFacts
  <2>5. InOrder(heap', count', stale', mixed')
    BY <1>6, <2>3, <2>4 DEF KeepsOrder
  <2>6. SameItems(heap, heap')
    BY <1>3, <2>4 DEF SameItems
  <2>7. link' = link /\ stopped' = stopped /\ running' = running
    BY <1>8 DEF Reuse, ResolveUpstream
  <2>8. HeapInv'
    <3>1. heap' \in [Pool -> Heaps(Conn)]
      BY <2>4 DEF OwnHeaps
    <3>2. \A q \in Pool : Items(heap'[q]) = Alive(q)'
      BY <2>6, <2>7 DEF PoolInv, HeapInv, Alive, SameItems
    <3> QED BY <2>5, <3>1, <3>2 DEF HeapInv, InOrder
  <2>9. SizeInBounds'
    BY <2>6, <2>7 DEF PoolInv, SizeInBounds, SameItems
  <2> QED BY <2>8, <2>9
<1>9. CASE Grow(p, n, hs, c)
  <2>1. PICK zero, key : zero = [n EXCEPT ![c] = 0] /\ key = [n EXCEPT ![c] = 1]
    OBVIOUS
  <2>2. zero \in Keys(Conn) /\ key \in Keys(Conn)
    BY <1>3, <1>4, <2>1 DEF Keys
  <2>3. OnlyAt(c, n, zero) /\ OnlyAt(c, zero, key)
    BY <1>3, <1>4, <2>1 DEF Keys, OnlyAt
  <2>4. c \in Free(p)
    BY <1>4, <1>9, FreshIsFree DEF Grow
  <2>5. c \notin Items(hs[c[1]])
    <3>1. c \notin Alive(p)
      BY <2>4 DEF Free, Alive
    <3> QED BY <1>3, <1>4, <3>1 DEF PoolInv, HeapInv, SameItems
  <2>6. PICK hs1 : hs1 = Added(hs, zero, c)
    OBVIOUS
  <2>7. hs1 \in OwnHeaps /\ OneMore(hs, c, hs1) /\ KeepsOrder(hs, n, S, M, c, hs1, zero)
    BY <1>3, <1>4, <2>2, <2>3, <2>5, <2>6, AddFacts
  <2>8. count' = key /\ heap' = Touched(hs1, key, c)
    <3>1. heap' = [hs EXCEPT ![p] = Update(key, Push(zero, @, c), c)] /\ count' = key
      BY <1>9, <2>1 DEF Grow
    <3>2. hs \in [Pool -> Heaps(Conn)]
      BY <1>3 DEF OwnHeaps
    <3> QED BY <1>4, <2>6, <3>1, <3>2 DEF Added, Touched
  <2>9. /\ heap' \in OwnHeaps /\ SameItems(hs1, heap')
        /\ KeepsOrder(hs1, zero, S \ {c}, M \cup Mixed(c, S), c, heap', key)
    BY <1>4, <2>2, <2>3, <2>7, <2>8, TouchFacts
  <2>10. InOrder(heap', count', stale', mixed')
    <3>1. (S \ {c}) \ {c} = S \ {c} /\ Mixed(c, S \ {c}) \subseteq Mixed(c, S)
      BY DEF Mixed
    <3>2. (M \cup Mixed(c, S)) \cup Mixed(c, S \ {c}) = M \cup Mixed(c, S)
      BY <3>1
    <3>3. InOrder(hs1, zero, S \ {c}, M \cup Mixed(c, S))
      BY <1>6, <2>7 DEF KeepsOrder
    <3> QED BY <1>6, <2>8, <2>9, <3>1, <3>2, <3>3 DEF KeepsOrder
  <2>11. OneMore(heap, c, heap')
    BY <1>3, <2>7, <2>9 DEF SameItems, OneMore
  <2>12. /\ link' = [link EXCEPT ![c] = "connecting"] /\ stopped' = stopped \ {c}
         /\ running' = running /\ MayGrow(hs[p])
    BY <1>9 DEF Grow, ResolveUpstream
  <2>13. HeapInv'
    <3>1. heap' \in [Pool -> Heaps(Conn)]
      BY <2>9 DEF OwnHeaps
    <3>2. ASSUME NEW q \in Pool PROVE Items(heap'[q]) = Alive(q)'
      <4>1. Alive(q)' = Alive(q) \cup (IF q = c[1] THEN {c} ELSE {})
        BY <1>4, <2>12 DEF PoolInv, Shape, Alive, Of
      <4> QED BY <2>11, <4>1 DEF PoolInv, HeapInv, OneMore
    <3> QED BY <2>10, <3>1, <3>2 DEF HeapInv, InOrder
  <2>14. SizeInBounds'
    <3>1. running /\ Len(hs[p]) < MaxConnections
      BY <2>12 DEF MayGrow, ResolveUpstream
    <3> SUFFICES ASSUME NEW q \in Pool
                 PROVE  Len(heap'[q]) \in MinConnections..MaxConnections
      BY DEF SizeInBounds
    <3>2. Len(hs[q]) = Len(heap[q]) /\ Len(hs[q]) \in MinConnections..MaxConnections
      BY <1>7, <3>1
    <3>3. CASE q = c[1]
      <4>1. Len(heap'[q]) = Len(heap[q]) + 1 /\ Len(heap[q]) < MaxConnections
        BY <1>4, <2>11, <3>1, <3>2, <3>3 DEF OneMore
      <4> QED BY <3>2, <4>1, PoolAssumption
    <3>4. CASE q # c[1]
      <4>1. Len(heap'[q]) = Len(heap[q]) + 0
        BY <2>11, <3>4 DEF OneMore
      <4> QED BY <3>2, <4>1
    <3> QED BY <3>3, <3>4
  <2> QED BY <2>13, <2>14
<1> QED BY <1>2, <1>8, <1>9 DEF p

LEMMA DisconnectPool ==
  ASSUME PoolInv, NEW cl \in Client, Disconnect(cl)
  PROVE  HeapInv' /\ SizeInBounds' /\ Shape'
<1>1. PICK old : old = assigned[cl]
  OBVIOUS
<1>2. /\ count' = Released(old) /\ heap' = HeapsAfterRelease(old)
      /\ stale' = stale \ {old} /\ mixed' = mixed \cup Mixed(old, stale)
      /\ closed' = closed \cup {cl} /\ rested' = rested \ {old}
      /\ UNCHANGED <<link, stopped, turn, running>>
  BY <1>1 DEF Disconnect
<1>3. old \in Conn \cup {None}
  BY <1>1 DEF PoolInv, Inv, Typed
<1>4. /\ heap' \in OwnHeaps
      /\ SameItems(heap, heap')
      /\ InOrder(heap', count', stale', mixed')
  BY <1>2, <1>3, ReleaseHeaps
<1>5. HeapInv'
  <2>1. heap' \in [Pool -> Heaps(Conn)]
    BY <1>4 DEF OwnHeaps
  <2>2. \A q \in Pool : Items(heap'[q]) = Alive(q)'
    BY <1>2, <1>4 DEF PoolInv, HeapInv, Alive, SameItems
  <2> QED BY <1>4, <2>1, <2>2 DEF HeapInv, InOrder
<1>6. SizeInBounds'
  BY <1>2, <1>4 DEF PoolInv, SizeInBounds, SameItems
<1>7. Shape'
  BY <1>2 DEF PoolInv, Shape, Mixed
<1> QED BY <1>5, <1>6, <1>7

LEMMA LinkPool ==
  ASSUME PoolInv, NEW c \in Conn, LinkUp(c) \/ LinkDown(c) \/ Redial(c) \/ Rest(c)
  PROVE  HeapInv' /\ SizeInBounds' /\ Shape'
<1>1. UNCHANGED <<heap, stopped, closed, turn, running, mixed>>
  BY DEF LinkUp, LinkDown, Redial, Rest, history
<1>2. Shape'
  BY <1>1 DEF PoolInv, Shape, LinkUp, LinkDown, Redial, Rest, history
<1>3. \A p \in Pool : Alive(p)' = Alive(p)
  BY <1>1 DEF PoolInv, Shape, Alive, Of, LinkUp, LinkDown, Redial, Rest
<1>4. InOrder(heap, count', stale', mixed)
  <2>1. \/ count' = count /\ stale' = stale
        \/ count' = [count EXCEPT ![c] = 0] /\ stale' = stale \cup {c}
    BY DEF LinkUp, LinkDown, Redial, Rest, history
  <2>2. \A d \in Conn : d \notin stale' => d \notin stale /\ count'[d] = count[d]
    BY <2>1 DEF PoolInv, Inv, Typed
  <2> SUFFICES ASSUME NEW p \in Pool \ mixed
               PROVE  \E old \in Keys(Conn) :
                        Ordered(old, heap[p]) /\ Agree(old, count', Items(heap[p]) \ stale')
    BY DEF InOrder
  <2>3. PICK old \in Keys(Conn) :
          Ordered(old, heap[p]) /\ Agree(old, count, Items(heap[p]) \ stale)
    BY DEF PoolInv, HeapInv, InOrder
  <2>4. Agree(old, count', Items(heap[p]) \ stale')
    <3>1. Items(heap[p]) \subseteq Conn
      BY DEF PoolInv, HeapInv, Alive, Of
    <3> QED BY <2>2, <2>3, <3>1 DEF Agree
  <2> QED BY <2>3, <2>4
<1>5. HeapInv'
  BY <1>1, <1>3, <1>4 DEF PoolInv, HeapInv, InOrder
<1>6. SizeInBounds'
  BY <1>1 DEF PoolInv, SizeInBounds
<1> QED BY <1>2, <1>5, <1>6
\* Some counters order h that are the ones of now where nothing was reset.
Sorted(h) ==
  \E old \in Keys(Conn) : Ordered(old, h) /\ Agree(old, count, Items(h) \ stale)

\* out and h become v: nothing is taken out of h, or one connection.
Visited(out, h, v) ==
  \/ v = <<out, h>>
  \/ \E x \in Items(h), g \in Heaps(Conn) :
       /\ v = <<out \cup {x}, g>>
       /\ Items(g) = Items(h) \ {x} /\ Len(g) = Len(h) - 1
       /\ Len(h) > MinConnections
       /\ Items(h) \cap stale \subseteq {x} /\ Sorted(h) => Sorted(g)

\* One turn of sweep() takes out nothing, or one connection of the heap.
LEMMA VisitFacts ==
  ASSUME count \in Keys(Conn), NEW out \in SUBSET Conn, NEW h \in Heaps(Conn),
         NEW i \in Nat \ {0}, NEW left
  PROVE  Visited(out, h, Visit(i, left)[<<out, h>>])
<1> DEFINE x == h[i]
           sifted == IF x \in left THEN Update(count, h, x) ELSE h
<1>1. h \in Seq(Conn) /\ Len(h) \in Nat /\ <<out, h>> \in (SUBSET Conn) \X Seq(Conn)
  BY DEF Heaps
<1>2. Visit(i, left)[<<out, h>>] = IF i <= Len(h) /\ Idle(x, h)
                             THEN <<out \cup {x}, Remove(count, sifted, x)>>
                             ELSE <<out, h>>
  BY <1>1 DEF Visit
<1>3. CASE ~ (i <= Len(h) /\ Idle(x, h))
  BY <1>2, <1>3 DEF Visited
<1>4. CASE i <= Len(h) /\ Idle(x, h)
  <2>1. i \in 1..Len(h) /\ x \in Items(h) /\ Len(h) > MinConnections
    BY <1>1, <1>4 DEF Items, Idle
  <2>2. PICK key \in Keys(Conn) : key = count
    OBVIOUS
  <2> HIDE DEF x
  <2>3. PICK y \in Items(h) : y = x
    BY <2>1
  <2>4. PICK w : w = sifted
    OBVIOUS
  <2>5. /\ w \in Heaps(Conn) /\ Len(w) = Len(h) /\ Items(w) = Items(h)
        /\ w = h \/ Restores(Conn, key, h, y, w)
    <3>1. /\ Update(key, h, y) \in Heaps(Conn)
          /\ Len(Update(key, h, y)) = Len(h) /\ Items(Update(key, h, y)) = Items(h)
          /\ Restores(Conn, key, h, y, Update(key, h, y))
      BY UpdateFacts
    <3>2. w = h \/ w = Update(key, h, y)
      BY <2>2, <2>3, <2>4
    <3> QED BY <3>1, <3>2
  <2>6. PICK g : g = Remove(key, w, y)
    OBVIOUS
  <2>7. /\ g \in Heaps(Conn) /\ Len(g) = Len(h) - 1 /\ Items(g) = Items(h) \ {y}
        /\ Restores(Conn, key, w, y, g)
    <3>1. PICK z \in Items(w) : z = y
      BY <2>5
    <3>2. /\ Remove(key, w, z) \in Heaps(Conn)
          /\ Len(Remove(key, w, z)) = Len(w) - 1
          /\ Items(Remove(key, w, z)) = Items(w) \ {z}
          /\ Restores(Conn, key, w, z, Remove(key, w, z))
      BY <2>5, RemoveFacts
    <3> QED BY <2>5, <2>6, <3>1, <3>2
  <2>8. ASSUME Items(h) \cap stale \subseteq {y}, Sorted(h) PROVE Sorted(g)
    <3>1. PICK old \in Keys(Conn) :
            Ordered(old, h) /\ Agree(old, count, Items(h) \ stale)
      BY <2>8 DEF Sorted
    <3>2. Agree(old, key, Items(h) \ {y})
      BY <2>2, <2>8, <3>1 DEF Agree
    <3>3. Ordered(count, g)
      <4>1. CASE w = h
        BY <2>2, <2>7, <3>1, <3>2, <4>1 DEF Restores
      <4>2. CASE Restores(Conn, key, h, y, w)
        <5>1. Ordered(key, w)
          BY <3>1, <3>2, <4>2 DEF Restores
        <5>2. Agree(key, key, Items(w) \ {y})
          BY DEF Agree
        <5> QED BY <2>2, <2>7, <5>1, <5>2 DEF Restores
      <4> QED BY <2>5, <4>1, <4>2
    <3> QED BY <3>3 DEF Sorted, Agree
  <2>9. Visit(i, left)[<<out, h>>] = <<out \cup {y}, g>>
    BY <1>2, <1>4, <2>2, <2>3, <2>4, <2>6
  <2> QED BY <2>1, <2>3, <2>7, <2>8, <2>9 DEF Visited
<1> QED BY <1>3, <1>4

\* All of them: what is left in order if no other reset counter was in the heap.
LEMMA SweptFacts ==
  ASSUME count \in Keys(Conn), heap \in [Pool -> Heaps(Conn)], NEW p \in Pool,
         NEW left
  PROVE  /\ Swept(p, left)[2] \in Heaps(Conn)
         /\ Swept(p, left)[1] \subseteq Items(heap[p])
         /\ Items(Swept(p, left)[2]) = Items(heap[p]) \ Swept(p, left)[1]
         /\ Len(Swept(p, left)[2]) <= Len(heap[p])
         /\ Len(heap[p]) >= MinConnections => Len(Swept(p, left)[2]) >= MinConnections
         /\ (\A c \in Swept(p, left)[1] : Items(heap[p]) \cap stale \subseteq {c})
              /\ Sorted(heap[p])
              => Sorted(Swept(p, left)[2])
<1> DEFINE T == (SUBSET Conn) \X Heaps(Conn)
           n == Len(heap[p])
           all == Items(heap[p])
           first == <<{}, heap[p]>>
           step == [a \in (1..n) \X T |-> Visit(a[1], left)[a[2]]]
           Walk(f) == f = [i \in 0..n |-> IF i = 0 THEN <<{}, heap[p]>>
                                          ELSE Visit(i, left)[f[i - 1]]]
           walk == CHOOSE f : Walk(f)
<1>1. /\ heap[p] \in Heaps(Conn) /\ n \in Nat /\ MinConnections \in Nat
      /\ all \subseteq Conn
  BY PoolAssumption DEF Heaps, Items
<1>2. ASSUME NEW i \in 1..n, NEW s \in T PROVE Visit(i, left)[s] \in T
  <2>1. PICK out \in SUBSET Conn, h \in Heaps(Conn) : s = <<out, h>>
    OBVIOUS
  <2>2. \A x \in Items(h) : x \in Conn
    BY DEF Items, Heaps
  <2>3. PICK k \in Nat \ {0} : k = i
    OBVIOUS
  <2>4. Visited(out, h, Visit(k, left)[<<out, h>>])
    BY VisitFacts
  <2>5. ASSUME NEW x \in Items(h), NEW g \in Heaps(Conn)
        PROVE  <<out \cup {x}, g>> \in T
    BY <2>2
  <2> QED BY <2>1, <2>3, <2>4, <2>5 DEF Visited
<1>3. \E f : Walk(f)
  <2>1. step \in [(1..n) \X T -> T]
    <3>1. \A a \in (1..n) \X T : Visit(a[1], left)[a[2]] \in T
      <4> TAKE a \in (1..n) \X T
      <4>1. a[1] \in 1..n /\ a[2] \in T
        OBVIOUS
      <4> HIDE DEF T
      <4> QED BY <1>2, <4>1
    <3> HIDE DEF T
    <3> QED BY <3>1
  <2>2. first \in T
    BY <1>1
  <2>3. \A i \in 1..n, s \in T : step[<<i, s>>] = Visit(i, left)[s]
    <3> TAKE i \in 1..n, s \in T
    <3>1. <<i, s>> \in (1..n) \X T
      OBVIOUS
    <3> HIDE DEF T
    <3> QED BY <3>1
  <2> HIDE DEF step, T, first
  <2>4. PICK f \in [0..n -> T] : Recursive(f, n, first, step)
    BY <1>1, <2>1, <2>2, Recursion
  <2>5. ASSUME NEW i \in 0..n
        PROVE  f[i] = IF i = 0 THEN <<{}, heap[p]>> ELSE Visit(i, left)[f[i - 1]]
    <3>1. CASE i = 0
      BY <2>4, <3>1 DEF Recursive, first
    <3>2. CASE i # 0
      <4>1. i \in 1..n /\ f[i - 1] \in T
        BY <1>1, <3>2
      <4> QED BY <2>3, <2>4, <3>2, <4>1 DEF Recursive
    <3> QED BY <3>1, <3>2
  <2> QED BY <2>4, <2>5
<1>4. Walk(walk)
  BY <1>3
<1>5. Swept(p, left) = walk[n]
  BY DEF Swept
<1> HIDE DEF walk
<1> DEFINE Good(out, h) ==
             /\ out \subseteq all /\ Items(h) = all \ out
             /\ Len(h) <= n
             /\ n >= MinConnections => Len(h) >= MinConnections
             /\ (\A c \in out : all \cap stale \subseteq {c}) /\ Sorted(heap[p]) => Sorted(h)
           Q == {i \in 0..n : \E out \in SUBSET Conn, h \in Heaps(Conn) :
                                walk[i] = <<out, h>> /\ Good(out, h)}
<1>6. 0 \in Q
  <2>1. 0 \in 0..n
    BY <1>1
  <2>2. walk[0] = <<{}, heap[p]>>
    BY <1>4, <2>1
  <2>3. Good({}, heap[p])
    BY <1>1
  <2> HIDE DEF Good
  <2> QED BY <1>1, <2>1, <2>2, <2>3
<1>7. ASSUME NEW i \in 0..(n - 1), i \in Q PROVE i + 1 \in Q
  <2>1. PICK out \in SUBSET Conn, h \in Heaps(Conn) : walk[i] = <<out, h>> /\ Good(out, h)
    BY <1>7
  <2>2. i + 1 \in 0..n /\ i + 1 # 0 /\ (i + 1) - 1 = i /\ i + 1 \in Nat \ {0}
    BY <1>1
  <2>3. walk[i + 1] = Visit(i + 1, left)[<<out, h>>]
    BY <1>4, <2>1, <2>2
  <2>4. CASE Visit(i + 1, left)[<<out, h>>] = <<out, h>>
    <3> HIDE DEF Good
    <3> QED BY <2>1, <2>2, <2>3, <2>4
  <2>5. ASSUME NEW x \in Items(h), NEW g \in Heaps(Conn),
               Visit(i + 1, left)[<<out, h>>] = <<out \cup {x}, g>>,
               Items(g) = Items(h) \ {x}, Len(g) = Len(h) - 1, Len(h) > MinConnections,
               Items(h) \cap stale \subseteq {x} /\ Sorted(h) => Sorted(g)
        PROVE  i + 1 \in Q
    <3>1. /\ out \cup {x} \subseteq all /\ Items(g) = all \ (out \cup {x})
          /\ out \cup {x} \in SUBSET Conn
      BY <1>1, <2>1, <2>5
    <3>2. Len(g) <= n /\ Len(g) >= MinConnections
      <4>1. Len(h) \in Nat
        BY DEF Heaps
      <4> QED BY <1>1, <2>1, <2>5, <4>1
    <3>3. ASSUME \A c \in out \cup {x} : all \cap stale \subseteq {c}, Sorted(heap[p])
          PROVE  Sorted(g)
      BY <2>1, <2>5, <3>3
    <3>4. Good(out \cup {x}, g)
      BY <3>1, <3>2, <3>3
    <3> HIDE DEF Good
    <3> QED BY <2>2, <2>3, <2>5, <3>1, <3>4
  <2>6. Visited(out, h, Visit(i + 1, left)[<<out, h>>])
    BY <2>2, VisitFacts
  <2> HIDE DEF Q
  <2> QED BY <2>4, <2>5, <2>6 DEF Visited
<1>8. n \in Q
  <2> HIDE DEF Q, n
  <2>1. \A i \in 0..n : i \in Q
    BY <1>1, <1>6, <1>7, Induct
  <2> QED BY <1>1, <2>1
<1>9. PICK out \in SUBSET Conn, h \in Heaps(Conn) : walk[n] = <<out, h>> /\ Good(out, h)
  BY <1>8
<1> QED BY <1>5, <1>9
LEMMA SweepPool ==
  ASSUME PoolInv, NEW p \in Pool, Sweep(p)
  PROVE  HeapInv' /\ SizeInBounds' /\ Shape'
<1>0. PICK gone \in SUBSET Client : SweepClosing(p, gone)
  BY DEF Sweep
<1>1. PICK left, out, h : /\ left = {assigned[cl] : cl \in gone}
                          /\ out = Swept(p, left)[1] /\ h = Swept(p, left)[2]
  OBVIOUS
<1>2. /\ count \in Keys(Conn) /\ heap \in [Pool -> Heaps(Conn)]
      /\ \A q \in Pool : Items(heap[q]) = Alive(q) /\ Items(heap[q]) \subseteq Of(q)
  BY DEF PoolInv, Inv, Typed, HeapInv, Keys, Alive
<1>3. /\ h \in Heaps(Conn) /\ out \subseteq Items(heap[p]) /\ Items(h) = Items(heap[p]) \ out
      /\ Len(h) <= Len(heap[p])
      /\ Len(heap[p]) >= MinConnections => Len(h) >= MinConnections
      /\ (\A c \in out : Items(heap[p]) \cap stale \subseteq {c}) /\ Sorted(heap[p])
           => Sorted(h)
  BY <1>1, <1>2, SweptFacts
<1>4. /\ heap' = [heap EXCEPT ![p] = h]
      /\ count' = CountsAfterStop(out)
      /\ link' = LinksAfterStop(out)
      /\ stopped' = stopped \cup out /\ rested' = rested \ out /\ stale' = stale \ out
      /\ mixed' = mixed \cup UNION {Mixed(c, stale) : c \in out}
      /\ UNCHANGED <<turn, running>>
      /\ closed' = closed \cup gone
  BY <1>0, <1>1 DEF SweepClosing
<1>5. out \subseteq Of(p) /\ out \subseteq Conn
  BY <1>2, <1>3 DEF Of
<1>6. /\ heap' \in [Pool -> Heaps(Conn)] /\ heap'[p] = h
      /\ \A q \in Pool : q # p => heap'[q] = heap[q]
  BY <1>2, <1>3, <1>4
<1>7. \A c \in Conn : count'[c] = IF c \in out THEN 0 ELSE count[c]
  BY <1>4 DEF CountsAfterStop
<1>8. InOrder(heap', count', stale', mixed')
  <2> SUFFICES ASSUME NEW q \in Pool \ mixed'
               PROVE  \E old \in Keys(Conn) :
                        Ordered(old, heap'[q]) /\ Agree(old, count', Items(heap'[q]) \ stale')
    BY DEF InOrder
  <2>1. Sorted(heap[q])
    BY <1>4 DEF PoolInv, HeapInv, InOrder, Sorted
  <2>2. Sorted(heap'[q])
    <3>1. CASE q = p
      <4>1. ASSUME NEW c \in out PROVE Items(heap[p]) \cap stale \subseteq {c}
        <5>1. p \notin Mixed(c, stale) /\ c \in Of(p)
          BY <1>4, <1>5, <3>1
        <5> QED BY <1>2, <5>1 DEF Mixed
      <4> QED BY <1>3, <1>6, <2>1, <3>1, <4>1
    <3>2. CASE q # p
      BY <1>6, <2>1, <3>2
    <3> QED BY <3>1, <3>2
  <2>3. PICK old \in Keys(Conn) :
          Ordered(old, heap'[q]) /\ Agree(old, count, Items(heap'[q]) \ stale)
    BY <2>2 DEF Sorted
  <2>4. \A c \in Items(heap'[q]) : c \in Conn /\ c \notin out
    <3>1. CASE q = p
      BY <1>2, <1>3, <1>6, <3>1 DEF Of
    <3>2. CASE q # p
      BY <1>2, <1>5, <1>6, <3>2 DEF Of
    <3> QED BY <3>1, <3>2
  <2>5. Agree(old, count', Items(heap'[q]) \ stale')
    BY <1>4, <1>7, <2>3, <2>4 DEF Agree
  <2> QED BY <2>3, <2>5
<1>9. ASSUME NEW q \in Pool PROVE Items(heap'[q]) = Alive(q)'
  <2>1. Items(heap'[q]) = Items(heap[q]) \ out
    <3>1. CASE q = p
      BY <1>3, <1>6, <3>1
    <3>2. CASE q # p
      BY <1>2, <1>5, <1>6, <3>2 DEF Of
    <3> QED BY <3>1, <3>2
  <2>2. Alive(q)' = Alive(q) \ out
    BY <1>4 DEF Alive, Of, LinksAfterStop
  <2> QED BY <1>2, <2>1, <2>2
<1>10. HeapInv'
  BY <1>6, <1>8, <1>9 DEF HeapInv, InOrder
<1>11. SizeInBounds'
  <2> SUFFICES ASSUME running, NEW q \in Pool
               PROVE  Len(heap'[q]) \in MinConnections..MaxConnections
    BY <1>4 DEF SizeInBounds
  <2>1. Len(heap[q]) \in MinConnections..MaxConnections
    BY DEF PoolInv, SizeInBounds
  <2>2. CASE q = p
    <3>1. Len(h) \in Nat
      BY <1>3 DEF Heaps
    <3> QED BY <1>3, <1>6, <2>1, <2>2, <3>1, PoolAssumption
  <2>3. CASE q # p
    BY <1>6, <2>1, <2>3
  <2> QED BY <2>2, <2>3
<1>12. Shape'
  <2>1. /\ link' \in [Conn -> {"absent", "connecting", "up", "waiting", "closed"}]
        /\ stopped' \subseteq Conn /\ rested' \subseteq Conn /\ stale' \subseteq Conn
    BY <1>4, <1>5 DEF PoolInv, Shape, LinksAfterStop
  <2>2. closed' \subseteq Client /\ turn' \in Nat /\ running' \in BOOLEAN
    BY <1>4 DEF PoolInv, Shape
  <2>3. mixed' \subseteq Pool
    BY <1>4 DEF PoolInv, Shape, Mixed
  <2> QED BY <2>1, <2>2, <2>3 DEF Shape
<1> QED BY <1>10, <1>11, <1>12

LEMMA ShutdownPool ==
  ASSUME PoolInv, Shutdown
  PROVE  HeapInv' /\ SizeInBounds' /\ Shape'
<1> DEFINE all == {c \in Conn : Holds(heap[c[1]], c)}
<1>1. /\ running' = FALSE /\ heap' = [p \in Pool |-> <<>>]
      /\ link' = LinksAfterStop(all) /\ stopped' = stopped \cup all
      /\ rested' = {} /\ stale' = {} /\ closed' = Client
      /\ UNCHANGED <<turn, mixed>>
  BY DEF Shutdown
<1>2. Shape'
  BY <1>1 DEF PoolInv, Shape, LinksAfterStop
<1>3. SizeInBounds'
  BY <1>1 DEF SizeInBounds
<1>4. <<>> \in Heaps(Conn) /\ Len(<<>>) = 0 /\ Items(<<>>) = {}
  BY DEF Heaps, Distinct, Items
<1>5. InOrder(heap', count', stale', mixed')
  <2> SUFFICES ASSUME NEW p \in Pool
               PROVE  \E old \in Keys(Conn) :
                        Ordered(old, heap'[p]) /\ Agree(old, count', Items(heap'[p]) \ stale')
    BY DEF InOrder
  <2>1. count \in Keys(Conn) /\ heap'[p] = <<>>
    BY <1>1 DEF PoolInv, Inv, Typed, Keys
  <2>2. Ordered(count, <<>>) /\ Agree(count, count', Items(<<>>) \ stale')
    BY <1>4 DEF Ordered, Agree
  <2> QED BY <2>1, <2>2
<1>6. ASSUME NEW p \in Pool PROVE Items(heap'[p]) = Alive(p)'
  <2>1. \A c \in Alive(p) : c \in all
    <3> TAKE c \in Alive(p)
    <3>1. c \in Items(heap[p]) /\ c \in Conn /\ c[1] = p
      BY DEF PoolInv, HeapInv, Alive, Of
    <3> QED BY <3>1, IndexFacts
  <2>2. Alive(p)' \subseteq Alive(p) \ all
    <3> HIDE DEF all
    <3> QED BY <1>1 DEF Alive, Of, LinksAfterStop
  <2> QED BY <1>1, <1>4, <2>1, <2>2
<1>7. HeapInv'
  BY <1>1, <1>4, <1>5, <1>6 DEF HeapInv, InOrder
<1> QED BY <1>2, <1>3, <1>7

LEMMA NextPool == PoolInv /\ [Next]_vars => PoolInv'
<1> SUFFICES ASSUME PoolInv, [Next]_vars PROVE PoolInv'
  OBVIOUS
<1>1. Inv'
  BY NextInv DEF PoolInv
<1>2. CASE UNCHANGED vars
  <2>1. HeapInv' /\ SizeInBounds' /\ Shape'
    BY <1>2 DEF PoolInv, HeapInv, InOrder, SizeInBounds, Shape, Alive, vars, conns, history
  <2> QED BY <1>1, <2>1 DEF PoolInv
<1>3. ASSUME NEW cl \in Client, NEW m \in Method, ResolveUpstream(cl, m)
      PROVE  HeapInv' /\ SizeInBounds' /\ Shape'
  BY <1>3, ResolvePool, ResolveShape DEF PoolInv
<1>4. CASE Next
  <2>1. HeapInv' /\ SizeInBounds' /\ Shape'
    BY <1>3, <1>4, DisconnectPool, LinkPool, SweepPool, ShutdownPool DEF Next, Unavailable
  <2> QED BY <1>1, <2>1 DEF PoolInv
<1> QED BY <1>2, <1>4

\* The heaps stay sound through every way of coming and leaving, and through sweeps.
THEOREM PoolInvariance == Spec => []PoolInv
  BY InitPool, NextPool, PTL DEF Spec

\* What the invariant means for the heaps of now.
LEMMA PoolIsSound == PoolInv => PoolSound
<1> SUFFICES ASSUME PoolInv PROVE PoolSound
  OBVIOUS
<1>1. heap \in [Pool -> Heaps(Conn)] /\ \A p \in Pool : Items(heap[p]) = Alive(p)
  BY DEF PoolInv, HeapInv
<1>2. TypeOK
  <2>1. heap \in [Pool -> Seq(Conn)]
    BY <1>1 DEF Heaps
  <2>2. ASSUME NEW c \in Conn PROVE count[c] \in 0..(Cardinality(Client) + 1)
    <3>1. Cardinality(Holders(c)) \in Nat /\ Cardinality(Client) \in Nat
      BY HoldersSize, PoolAssumption, FS_CardinalityType
    <3>2. Cardinality(Holders(c)) <= Cardinality(Client)
      <4>1. Holders(c) \in SUBSET Client /\ Client \in SUBSET Client
        BY DEF Holders
      <4> QED BY <4>1, HoldersSize
    <3>3. count[c] \in Nat
          /\ count[c] <= Cardinality(Holders(c)) + (IF c \in starters THEN 1 ELSE 0)
      BY DEF PoolInv, Inv, Typed, NeverOvercounted
    <3> QED BY <3>1, <3>2, <3>3
  <2>3. count \in [Conn -> 0..(Cardinality(Client) + 1)]
    BY <2>2 DEF PoolInv, Inv, Typed
  <2> QED BY <2>1, <2>3 DEF TypeOK, PoolInv, Inv, Typed, Shape
<1>3. HeapIsPool
  <2>1. ASSUME NEW p \in Pool
        PROVE  \A i, j \in 1..Len(heap[p]) : heap[p][i] = heap[p][j] => i = j
    BY <1>1 DEF Heaps, Distinct
  <2>2. ASSUME NEW p \in Pool, NEW c \in Of(p)
        PROVE  Holds(heap[p], c) <=> c \notin stopped /\ link[c] \notin {"absent", "closed"}
    BY <1>1, IndexFacts DEF Alive
  <2> QED BY <2>1, <2>2 DEF HeapIsPool
<1>4. LeastOnTop
  <2> SUFFICES ASSUME NEW p \in Pool \ mixed, stale \cap Of(p) = {}
               PROVE  Ordered(count, heap[p])
    BY DEF LeastOnTop
  <2>1. PICK old \in Keys(Conn) :
          Ordered(old, heap[p]) /\ Agree(old, count, Items(heap[p]) \ stale)
    BY DEF PoolInv, HeapInv, InOrder
  <2>2. \A i \in 1..Len(heap[p]) : old[heap[p][i]] = count[heap[p][i]]
    <3>1. Items(heap[p]) \cap stale = {}
      BY <1>1 DEF Alive
    <3> QED BY <2>1, <3>1 DEF Agree, Items
  <2>3. \A j \in 2..Len(heap[p]) : Parent(j) \in 1..Len(heap[p]) /\ j \in 1..Len(heap[p])
    <3>1. Len(heap[p]) \in Nat
      BY <1>1 DEF Heaps
    <3> QED BY <3>1, ParentFacts
  <2> QED BY <2>1, <2>2, <2>3 DEF Ordered
<1> QED BY <1>2, <1>3, <1>4 DEF PoolSound, PoolInv

\* pool.ts, min-heap.ts: the heap of a pool holds its running connections, as many as there
\* may be, with the least loaded on top, also once a lost link reset a counter, unless
\* another connection was sifted before that one.
THEOREM PoolSoundHolds == Spec => []PoolSound
  BY PoolInvariance, PoolIsSound, PTL
\* acquireServerConnection() overloads a connection only when it must.
LEMMA OverloadStep ==
  ASSUME PoolInv, [Next]_vars, NEW cl \in Client, NEW c, c = assigned'[cl],
         c # assigned[cl], c # None, count'[c] > MaxClients
  PROVE  /\ Len(heap[c[1]]) = MaxConnections
         /\ \/ stale \cap Of(c[1]) # {} \/ c[1] \in mixed'
            \/ \A d \in Of(c[1]) : Holds(heap[c[1]], d) => count'[d] >= MaxClients
<1>1. \E d \in Client, m \in Method : ResolveUpstream(d, m)
  <2>1. assigned' # assigned
    OBVIOUS
  <2>2. ASSUME NEW d \in Client, Disconnect(d) PROVE FALSE
    BY <2>2 DEF Disconnect, PoolInv, Inv, Typed
  <2>3. ASSUME NEW p \in Pool, Sweep(p) PROVE FALSE
    BY <2>3 DEF Sweep, SweepClosing
  <2>4. ASSUME Shutdown PROVE FALSE
    BY <2>4 DEF Shutdown
  <2> QED BY <2>1, <2>2, <2>3, <2>4
          DEF Next, Unavailable, LinkUp, LinkDown, Redial, Rest, vars
<1>2. PICK e \in Client, m \in Method : ResolveUpstream(e, m)
  BY <1>1
<1> DEFINE p == Candidates[m][(turn % Len(Candidates[m])) + 1]
<1>3. PICK old, n, hs : old = assigned[e] /\ n = Released(old) /\ hs = HeapsAfterRelease(old)
  OBVIOUS
<1>4. PICK x \in Of(p) : /\ Reuse(p, n, hs, x) \/ Grow(p, n, hs, x)
                         /\ assigned' = [assigned EXCEPT ![e] = x]
                         /\ mixed' = mixed \cup Mixed(old, stale) \cup Mixed(x, stale \ {old})
  BY <1>2, <1>3 DEF ResolveUpstream
<1>5. x = c /\ running
  BY <1>2, <1>4 DEF PoolInv, Inv, Typed, ResolveUpstream
<1>6. c \in Conn /\ c[1] = p /\ p \in Pool
  BY <1>4, <1>5, OwnPool DEF Of
<1>7. /\ hs \in OwnHeaps /\ SameItems(heap, hs)
      /\ InOrder(hs, n, stale \ {old}, mixed \cup Mixed(old, stale))
      /\ n \in Keys(Conn)
  <2>1. old \in Conn \cup {None}
    BY <1>3 DEF PoolInv, Inv, Typed
  <2>2. n \in Keys(Conn)
    BY <1>3, Releasing DEF PoolInv, Keys
  <2> QED BY <1>3, <2>1, <2>2, ReleaseHeaps
<1> HIDE DEF p
<1>8. Reuse(p, n, hs, c)
  <2> SUFFICES ASSUME Grow(p, n, hs, c) PROVE FALSE
    BY <1>4, <1>5
  <2>1. count'[c] = 1
    BY <1>6, <1>7 DEF Grow, Keys
  <2> QED BY <2>1, PoolAssumption
<1>9. /\ hs[p] # <<>> /\ c = hs[p][1]
      /\ ~ (Wants(n, hs[p]) /\ MayGrow(hs[p]))
      /\ count' = [n EXCEPT ![c] = @ + 1]
  BY <1>8 DEF Reuse
<1>10. /\ n[c] \in Nat /\ count'[c] = n[c] + 1 /\ n[c] >= MaxClients
       /\ \A d \in Conn : n[d] \in Nat /\ count'[d] >= n[d]
  <2>1. \A d \in Conn : n[d] \in Nat
    BY <1>7 DEF Keys
  <2>2. count'[c] = n[c] + 1 /\ \A d \in Conn : d # c => count'[d] = n[d]
    BY <1>6, <1>7, <1>9 DEF Keys
  <2>3. n[c] \in Nat /\ MaxClients \in Nat /\ count'[c] > MaxClients
    BY <1>6, <2>1, PoolAssumption
  <2>4. n[c] >= MaxClients
    BY ONLY <2>2, <2>3
  <2>5. \A d \in Conn : count'[d] >= n[d]
    <3> TAKE d \in Conn
    <3>1. n[d] \in Nat /\ n[c] \in Nat
      BY <2>1, <2>3
    <3>2. CASE d = c
      BY ONLY <2>2, <3>1, <3>2
    <3>3. CASE d # c
      BY ONLY <2>2, <3>1, <3>3
    <3> QED BY <3>2, <3>3
  <2> QED BY <2>1, <2>2, <2>3, <2>4, <2>5
<1>11. Len(heap[p]) = MaxConnections
  <2>1. ~ MayGrow(hs[p])
    BY <1>9, <1>10 DEF Wants
  <2>2. Len(hs[p]) = Len(heap[p]) /\ Len(heap[p]) \in MinConnections..MaxConnections
    BY <1>5, <1>6, <1>7 DEF SameItems, PoolInv, SizeInBounds
  <2> QED BY <2>1, <2>2, PoolAssumption DEF MayGrow
<1>12. ASSUME stale \cap Of(p) = {}, p \notin mixed', NEW d \in Of(p), Holds(heap[p], d)
       PROVE  count'[d] >= MaxClients
  <2>1. hs[p] \in Heaps(Conn) /\ Items(hs[p]) = Items(heap[p]) /\ Items(hs[p]) \subseteq Of(p)
    BY <1>6, <1>7 DEF OwnHeaps, SameItems
  <2>2. PICK q \in Keys(Conn) : Ordered(q, hs[p]) /\ Agree(q, n, Items(hs[p]) \ (stale \ {old}))
    BY <1>4, <1>6, <1>7, <1>12 DEF InOrder
  <2>3. \A y \in Items(hs[p]) : q[y] = n[y]
    BY <1>12, <2>1, <2>2 DEF Agree
  <2>4. PICK i \in 1..Len(hs[p]) : d = hs[p][i]
    BY <1>12, <2>1, IndexFacts DEF Items
  <2>5. q[hs[p][1]] <= q[hs[p][i]]
    <3>1. hs[p] \in Seq(Conn) /\ q \in [Conn -> Nat]
      BY <2>1 DEF Heaps, Keys
    <3> QED BY <2>2, <3>1, TopIsLeast
  <2>6. 1 \in 1..Len(hs[p])
    BY <2>1, <2>4 DEF Heaps
  <2>7. c \in Items(hs[p]) /\ d \in Items(hs[p])
    BY <1>9, <2>4, <2>6 DEF Items
  <2>8. n[c] <= n[d] /\ d \in Conn
    BY <1>9, <2>1, <2>3, <2>4, <2>5, <2>7 DEF Of
  <2>9. n[d] \in Nat /\ count'[d] >= n[d] /\ MaxClients \in Nat /\ count'[d] \in Nat
    <3>1. n[d] \in Nat /\ count'[d] >= n[d]
      BY <1>10, <2>8
    <3>2. count'[d] \in Nat
      BY NextInv, <2>8 DEF PoolInv, Inv, Typed
    <3> QED BY <3>1, <3>2, PoolAssumption
  <2>10. n[c] \in Nat /\ n[c] >= MaxClients
    BY <1>10
  <2> QED BY <2>8, <2>9, <2>10
<1> QED BY <1>6, <1>11, <1>12

\* pool.ts: a connection at its limit gets another client only when no connection may be
\* added and no other one has room, but for the heaps that a lost link left out of order.
THEOREM OverloadIsLastHolds == Spec => OverloadIsLast
<1>1. PoolInv /\ [Next]_vars =>
        [\A cl \in Client : LET c == assigned'[cl] IN
           c # assigned[cl] /\ c # None /\ count'[c] > MaxClients =>
             /\ Len(heap[c[1]]) = MaxConnections
             /\ \/ stale \cap Of(c[1]) # {} \/ c[1] \in mixed'
                \/ \A d \in Of(c[1]) : Holds(heap[c[1]], d) => count'[d] >= MaxClients]_vars
  <2> SUFFICES ASSUME PoolInv, [Next]_vars, NEW cl \in Client,
                      assigned'[cl] # assigned[cl], assigned'[cl] # None,
                      count'[assigned'[cl]] > MaxClients
               PROVE  /\ Len(heap[assigned'[cl][1]]) = MaxConnections
                      /\ \/ stale \cap Of(assigned'[cl][1]) # {}
                         \/ assigned'[cl][1] \in mixed'
                         \/ \A d \in Of(assigned'[cl][1]) :
                              Holds(heap[assigned'[cl][1]], d) => count'[d] >= MaxClients
    OBVIOUS
  <2> QED BY OverloadStep
<1> QED BY <1>1, PoolInvariance, PTL DEF Spec, OverloadIsLast
=============================================================================
