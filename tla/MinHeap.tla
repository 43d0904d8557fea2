------------------------------- MODULE MinHeap -------------------------------
(* The array heap of util/min-heap.ts as operators on sequences.  The key of  *)
(* an item is read when it is compared, so a heap whose keys changed since is *)
(* a legal argument.  indexMap is the inverse of the sequence.               *)
EXTENDS Naturals, Sequences

Parent(i) == i \div 2
Swap(h, i, j) == [h EXCEPT ![i] = h[j], ![j] = h[i]]

\* Bug: the right child is forgotten.
Smallest_LeftOnly(key, h, i) ==
  IF 2 * i <= Len(h) /\ key[h[2 * i]] < key[h[i]] THEN 2 * i ELSE i

\* The position of the smallest key among i and its children; the left child wins
\* over the parent, and the right one over both, only by being smaller.
Smallest(key, h, i) ==
  LET l == IF 2 * i <= Len(h) /\ key[h[2 * i]] < key[h[i]] THEN 2 * i ELSE i
  IN IF 2 * i + 1 <= Len(h) /\ key[h[2 * i + 1]] < key[h[l]] THEN 2 * i + 1 ELSE l

\* One turn of the loops in siftUp() and in siftDown(), which take a heap and a position
\* to the next ones, and nowhere once the loop has ended.
State(key) == Seq(DOMAIN key) \X Nat
UpTurn(key) ==
  [s \in State(key) |->
     LET h == s[1]
         i == s[2]
     IN IF i > 1 /\ key[h[i]] < key[h[Parent(i)]] THEN <<Swap(h, i, Parent(i)), Parent(i)>>
        ELSE s]
DownTurn(key) ==
  [s \in State(key) |->
     LET i == Smallest(key, s[1], s[2])
     IN IF i # s[2] THEN <<Swap(s[1], s[2], i), i>> ELSE s]

\* Neither loop takes more turns than the heap has items.
SiftUp(key, h, i) ==
  LET turns[n \in 0..Len(h)] == IF n = 0 THEN <<h, i>> ELSE UpTurn(key)[turns[n - 1]]
  IN turns[Len(h)][1]
SiftDown(key, h, i) ==
  LET turns[n \in 0..Len(h)] == IF n = 0 THEN <<h, i>> ELSE DownTurn(key)[turns[n - 1]]
  IN turns[Len(h)][1]

\* Both sifts start at the same place, as in update() and remove().
Sift(key, h, i) == SiftUp(key, SiftDown(key, h, i), i)

Holds(h, item) == \E i \in 1..Len(h) : h[i] = item
IndexOf(h, item) == CHOOSE i \in 1..Len(h) : h[i] = item

Push(key, h, item) == SiftUp(key, Append(h, item), Len(h) + 1)

\* update(): the key of the item has changed; nothing if it is not in the heap.
Update(key, h, item) ==
  IF Holds(h, item) THEN Sift(key, h, IndexOf(h, item)) ELSE h

\* remove(): the last item takes the place of the one removed.
Remove(key, h, item) ==
  LET i == IndexOf(h, item)
      rest == SubSeq(h, 1, Len(h) - 1)
  IN IF ~Holds(h, item) THEN h
     ELSE IF i = Len(h) THEN rest
     ELSE Sift(key, [rest EXCEPT ![i] = h[Len(h)]], i)

Ordered(key, h) == \A i \in 2..Len(h) : key[h[Parent(i)]] <= key[h[i]]

\* What a heap holds, each item once.
Items(h) == {h[i] : i \in 1..Len(h)}
Distinct(h) == \A i, j \in 1..Len(h) : h[i] = h[j] => i = j

\* On every heap of some of n items and for every change of one of their keys, which are up
\* to `most`, an operation leaves a heap in order that holds the right items.
Arrays(n) == UNION {{h \in [1..m -> 1..n] : Distinct(h)} : m \in 0..n}
Restored(key, h, items) == Distinct(h) /\ Items(h) = items /\ Ordered(key, h)
AllRestored(n, most) ==
  \A key \in [1..n -> 0..most], h \in Arrays(n), x \in 1..n : Ordered(key, h) =>
    /\ Holds(h, x) => Restored(key, Remove(key, h, x), Items(h) \ {x})
    /\ ~Holds(h, x) => Restored(key, Push(key, h, x), Items(h) \cup {x})
    /\ \A k \in 0..most :
         LET changed == [key EXCEPT ![x] = k]
         IN Restored(changed, Update(changed, h, x), Items(h))
=============================================================================
