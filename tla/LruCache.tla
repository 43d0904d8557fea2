------------------------------- MODULE LruCache -------------------------------
(***************************************************************************)
(* The linked list of util/cache/lru.ts.  A node is named by its key; what a *)
(* node that left the list still points to is out of reach and is reset.     *)
(* Statements that assign one after the other are nested LETs.               *)
(***************************************************************************)
EXTENDS Naturals, Sequences, FiniteSets

CONSTANTS Key, Value, MaxSize, None

ASSUME LruAssumption ==
  MaxSize \in Nat /\ None \notin Key /\ None \notin Value /\ IsFiniteSet(Key)

VARIABLES list,   \* the keys of `map`, head, tail, _size, and the links of the nodes
          val,    \* their values
          result  \* of the last get()

vars == <<list, val, result>>

Node == Key \cup {None}
TypeOK ==
  /\ list \in [map : SUBSET Key, head : Node, tail : Node, size : 0..MaxSize,
               prev : [Key -> Node], next : [Key -> Node]]
  /\ val \in [Key -> Value \cup {None}]
  /\ result \in Value \cup {None}

NoLinks == [k \in Key |-> None]
Empty == [map |-> {}, head |-> None, tail |-> None, size |-> 0,
          prev |-> NoLinks, next |-> NoLinks]
Init ==
  /\ list = Empty
  /\ val = NoLinks
  /\ result = None

-----------------------------------------------------------------------------
\* `node.next = to` and `node.prev = to` when there is a node.
LinkNext(links, k, to) == IF k = None THEN links ELSE [links EXCEPT ![k] = to]

\* The neighbours of k point at each other.
Unlinked(l, k) ==
  [l EXCEPT !.next = LinkNext(@, l.prev[k], l.next[k]),
            !.prev = LinkNext(@, l.next[k], l.prev[k])]

\* k goes in front of the head.
AtHead(l, k) ==
  [l EXCEPT !.prev = LinkNext([@ EXCEPT ![k] = None], l.head, k),
            !.next = [@ EXCEPT ![k] = l.head],
            !.head = k,
            !.tail = IF @ = None THEN k ELSE @]

\* Bug: the tail stays where it was.
MoveToHead_KeepsTail(l, k) == IF k = l.head THEN l ELSE AtHead(Unlinked(l, k), k)

MoveToHead(l, k) ==
  IF k = l.head THEN l
  ELSE AtHead([Unlinked(l, k) EXCEPT !.tail = IF @ = k THEN l.prev[k] ELSE @], k)

\* Bug: the new tail still points at the node that left.
RemoveTail_Dangling(l) ==
  [l EXCEPT !.map = @ \ {l.tail},
            !.size = @ - 1,
            !.tail = l.prev[@],
            !.head = IF l.prev[l.tail] = None THEN None ELSE @]

RemoveTail(l) ==
  IF l.tail = None THEN l
  ELSE LET p == l.prev[l.tail]
       IN [l EXCEPT !.map = @ \ {l.tail},
                    !.size = @ - 1,
                    !.next = LinkNext(@, p, None),
                    !.prev = [@ EXCEPT ![l.tail] = None],
                    !.tail = p,
                    !.head = IF p = None THEN None ELSE @]

Get(k) ==
  /\ list' = IF k \in list.map THEN MoveToHead(list, k) ELSE list
  /\ result' = val[k]
  /\ UNCHANGED val

\* set() of a key that is not in the map.
SetNew(l, k) ==
  LET added == [AtHead(l, k) EXCEPT !.map = @ \cup {k}, !.size = @ + 1]
  IN IF added.size > MaxSize THEN RemoveTail(added) ELSE added

Set(k, v) ==
  /\ list' = IF k \in list.map THEN MoveToHead(list, k) ELSE SetNew(list, k)
  /\ val' = [l \in Key |-> IF l \notin list'.map THEN None
                           ELSE IF l = k THEN v ELSE val[l]]
  /\ UNCHANGED result

RemoveKey(k) ==
  /\ list' = IF k \notin list.map THEN list
             ELSE [Unlinked(list, k) EXCEPT
                     !.head = IF @ = k THEN list.next[k] ELSE @,
                     !.tail = IF @ = k THEN list.prev[k] ELSE @,
                     !.prev[k] = None, !.next[k] = None,
                     !.map = @ \ {k},
                     !.size = @ - 1]
  /\ val' = [val EXCEPT ![k] = None]
  /\ UNCHANGED result

Clear ==
  /\ list' = Empty
  /\ val' = NoLinks
  /\ UNCHANGED result

Next == Clear \/ \E k \in Key : Get(k) \/ RemoveKey(k) \/ \E v \in Value : Set(k, v)

Spec == Init /\ [][Next]_vars

-----------------------------------------------------------------------------
\* The keys met from a node along links; a walk that goes round in a circle is cut
\* off after one step more than there are keys.
Walk(links, start) ==
  LET met[n \in 0..Cardinality(Key)] ==
        IF start = None THEN <<>>
        ELSE IF n = 0 THEN <<start>>
        ELSE LET on == links[met[n - 1][Len(met[n - 1])]]
             IN IF on = None THEN met[n - 1] ELSE Append(met[n - 1], on)
  IN met[Cardinality(Key)]

\* The list read backwards is the list read forwards, it holds every key of the map
\* once, and as many as _size says: nothing is lost, kept or evicted twice.
ListSound ==
  LET f == Walk(list.next, list.head)
      b == Walk(list.prev, list.tail)
  IN /\ TypeOK
     /\ Len(f) = list.size /\ Len(b) = list.size
     /\ \A i \in 1..Len(f) : f[i] = b[Len(b) + 1 - i]
     /\ {f[i] : i \in 1..Len(f)} = list.map
     /\ Cardinality(list.map) = list.size

\* The list is in order of use, and what goes is what was used longest ago.
Abstract == INSTANCE Recency WITH
  order <- Walk(list.next, list.head), value <- val
EvictsLeastRecent == Abstract!Spec
=============================================================================
