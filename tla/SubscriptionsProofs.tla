------------------------- MODULE SubscriptionsProofs -------------------------
(* Safety of the subscriptions that are not shared, for any number of clients, *)
(* requests and connections, and any limits.                                   *)
EXTENDS Subscriptions, FiniteSetTheorems, TLAPS

USE SubscriptionsAssumption DEF Kind

-----------------------------------------------------------------------------
(* The inductive invariant.                                                  *)

\* The subscriptions of a client of one kind that listen, and its watched transactions
\* with those it asked for.
Listening(k, c) == Active \cap Of(c) \cap Are(k)
Asked(c) == (Active \cup Pending) \cap Of(c) \cap Are("watch")

\* TypeOK without the bound on the counts, which follows from what they count.
Typed ==
  /\ open \subseteq Client
  /\ home \in [Client -> Conn \cup {None}]
  /\ link \in [Conn -> {"open", "closing", "down", "stopped", "ended"}]
  /\ status \in [Request -> {"asking", "deaf", "active", "over"}]
  /\ sub \in [Request -> Sub]
  /\ count \in [Kind -> [Client -> Nat]]
  /\ unsubs \subseteq Request /\ closeFns \subseteq Request /\ live \subseteq Request
  /\ late \subseteq Request /\ orphans \subseteq Request /\ raced \subseteq Client

\* An answer comes only over a connection that has not closed, and whoever listens is found
\* when that ends.
Linked ==
  /\ \A r \in Request : status[r] = "asking" => link[sub[r].conn] \in {"open", "closing"}
  /\ \A r \in Active : \/ r \in unsubs /\ link[sub[r].conn] \in {"open", "closing"}
                       \/ link[sub[r].conn] = "stopped"

\* A client leaves what it is subscribed to when it closes, unless it closed before.
Leavable == \A r \in Active : sub[r].client \in open => r \in closeFns \cup late

\* What a legacy request read is below the limit, and so is what it writes.
Below ==
  /\ \A r \in Request : sub[r].seen <= MaxPerClient - 1
  /\ \A c \in Client : count["legacy"][c] <= MaxPerClient

Counts ==
  \A c \in Client :
    /\ count["watch"][c] = Cardinality(Listening("watch", c))
    /\ c \notin raced => count["legacy"][c] = Cardinality(Listening("legacy", c))

Few == \A c \in Client : Cardinality(Asked(c)) < MaxPerClient + MaxPending

Inv == Typed /\ Linked /\ Leavable /\ GivenBack /\ Below /\ Counts /\ Few

-----------------------------------------------------------------------------
(* What the parts of steps do.                                               *)

LEMMA FiniteRequests == \A S \in SUBSET Request : IsFiniteSet(S) /\ Cardinality(S) \in Nat
  BY FS_Subset, FS_CardinalityType

\* Every cleanup takes one off the count of its client, and ends nothing else.
LEMMA CleanupEffect ==
  ASSUME Typed, NEW R \in SUBSET Request, NEW D \in SUBSET Request, Cleanup(R, D)
  PROVE  /\ status' \in [Request -> {"asking", "deaf", "active", "over"}]
         /\ count' \in [Kind -> [Client -> Nat]]
         /\ Active' = Active \ R /\ Pending' = Pending
         /\ \A r \in Request : status'[r] = "asking" => status[r] = "asking" /\ r \notin D
         /\ \A k \in Kind, c \in Client :
              /\ count'[k][c] <= count[k][c]
              /\ count[k][c] = Cardinality(Listening(k, c))
                   => count'[k][c] = Cardinality(Listening(k, c) \ R)
<1>1. /\ status' \in [Request -> {"asking", "deaf", "active", "over"}]
      /\ Active' = Active \ R /\ Pending' = Pending
      /\ \A r \in Request : status'[r] = "asking" => status[r] = "asking" /\ r \notin D
  BY DEF Cleanup, Typed, Active, Pending
<1> DEFINE n(k, c) == Cardinality(Counted(R) \cap Are(k) \cap Of(c))
<1>2. ASSUME NEW k \in Kind, NEW c \in Client
      PROVE  n(k, c) \in Nat
  BY FiniteRequests DEF Are
<1>3. count' = [k \in Kind |-> [c \in Client |->
                 IF n(k, c) < count[k][c] THEN count[k][c] - n(k, c) ELSE 0]]
  BY Zenon DEF Cleanup
<1>4. ASSUME NEW k \in Kind, NEW c \in Client
      PROVE  /\ count'[k][c] = IF n(k, c) < count[k][c] THEN count[k][c] - n(k, c) ELSE 0
             /\ count[k][c] \in Nat
  BY <1>3 DEF Typed
<1>5. ASSUME NEW k \in Kind, NEW c \in Client,
             count[k][c] = Cardinality(Listening(k, c))
      PROVE  count'[k][c] = Cardinality(Listening(k, c) \ R)
  <2> DEFINE S == Listening(k, c)
  <2>1. Counted(R) \cap Are(k) \cap Of(c) = S \cap R
    BY DEF Counted, Listening
  <2>2. S \in SUBSET Request
    BY DEF Listening, Active
  <2>3. /\ IsFiniteSet(S) /\ Cardinality(S) \in Nat
        /\ Cardinality(S \cap R) \in Nat
    BY <2>2, FiniteRequests
  <2>4. Cardinality(S \ R) = Cardinality(S) - Cardinality(S \cap R)
    BY <2>3, FS_Difference
  <2>5. Cardinality(S \ R) \in Nat
    BY <2>2, FiniteRequests
  <2>6. n(k, c) = Cardinality(S \cap R) /\ count[k][c] = Cardinality(S)
    BY <2>1, <1>5
  <2> HIDE DEF n, S
  <2>7. count'[k][c] = Cardinality(S \ R)
    BY <2>3, <2>4, <2>5, <2>6, <1>4
  <2> QED BY <2>7 DEF S
<1>6. count' \in [Kind -> [Client -> Nat]]
  <2> HIDE DEF n
  <2>1. \A k \in Kind, c \in Client :
          (IF n(k, c) < count[k][c] THEN count[k][c] - n(k, c) ELSE 0) \in Nat
    BY <1>2, <1>4
  <2> QED BY <1>3, <2>1
<1>7. \A k \in Kind, c \in Client : count'[k][c] <= count[k][c]
  <2> HIDE DEF n
  <2> QED BY <1>2, <1>4
<1> QED BY <1>1, <1>5, <1>6, <1>7

LEMMA InitInv == Init => Inv
<1> SUFFICES ASSUME Init PROVE Inv
  OBVIOUS
<1>1. PICK c0 \in Client, n0 \in Conn :
        sub = [r \in Request |-> [client |-> c0, kind |-> "watch", conn |-> n0, seen |-> 0]]
  BY DEF Init
<1>2. Typed
  BY <1>1 DEF Init, Typed, Sub
<1>3. Active = {} /\ Pending = {} /\ late = {}
  BY DEF Init, Active, Pending
<1>4. Linked /\ Leavable /\ GivenBack
  BY <1>3 DEF Linked, Leavable, GivenBack, Init
<1>5. Below
  BY <1>1 DEF Init, Below
<1>6. \A c \in Client, k \in Kind : Listening(k, c) = {} /\ Asked(c) = {}
  BY <1>3 DEF Listening, Asked
<1>7. \A c \in Client, k \in Kind : count[k][c] = 0
  BY DEF Init
<1>8. \A c \in Client, k \in Kind :
        Cardinality(Listening(k, c)) = 0 /\ Cardinality(Asked(c)) = 0
  BY <1>6, FS_EmptySet
<1>9. MaxPerClient + MaxPending > 0
  OBVIOUS
<1>10. Counts
  BY <1>7, <1>8 DEF Counts
<1>11. Few
  BY <1>8, <1>9 DEF Few
<1> QED BY <1>2, <1>4, <1>5, <1>10, <1>11 DEF Inv

\* A step that is a cleanup keeps all that is counted, whoever it ends.
LEMMA CleanupCounts ==
  ASSUME Inv, NEW R \in SUBSET Request, NEW D \in SUBSET Request, Cleanup(R, D),
         UNCHANGED <<sub, raced>>
  PROVE  Below' /\ Counts' /\ Few'
<1>1. Typed /\ Below /\ Counts /\ Few
  BY DEF Inv
<1>2. /\ Active' = Active \ R /\ Pending' = Pending
      /\ count' \in [Kind -> [Client -> Nat]]
      /\ \A k \in Kind, c \in Client :
           /\ count'[k][c] <= count[k][c]
           /\ count[k][c] = Cardinality(Listening(k, c))
                => count'[k][c] = Cardinality(Listening(k, c) \ R)
  BY <1>1, CleanupEffect
<1>3. \A k \in Kind, c \in Client : Listening(k, c)' = Listening(k, c) \ R
  BY <1>2 DEF Listening, Of, Are
<1>4. Counts'
  BY <1>1, <1>2, <1>3 DEF Counts
<1>5. Below'
  <2>1. \A c \in Client : /\ count["legacy"][c] \in Nat /\ count'["legacy"][c] \in Nat
                          /\ count'["legacy"][c] <= count["legacy"][c]
    BY <1>1, <1>2 DEF Typed
  <2> QED BY <1>1, <2>1 DEF Below
<1>6. ASSUME NEW c \in Client PROVE Cardinality(Asked(c))' < MaxPerClient + MaxPending
  <2>1. Asked(c)' \subseteq Asked(c)
    BY <1>2 DEF Asked, Of, Are
  <2>2. Asked(c) \in SUBSET Request /\ Asked(c)' \in SUBSET Request
    BY <2>1 DEF Asked, Of
  <2>3. IsFiniteSet(Asked(c)) /\ Cardinality(Asked(c)) \in Nat /\ Cardinality(Asked(c)') \in Nat
    BY <2>2, FiniteRequests
  <2>4. Cardinality(Asked(c)') <= Cardinality(Asked(c))
    BY <2>1, <2>3, FS_Subset
  <2> QED BY <1>1, <2>3, <2>4 DEF Few
<1> QED BY <1>4, <1>5, <1>6 DEF Few

\* A step that changes no subscription and no count.
LEMMA SameCounts ==
  ASSUME Inv, UNCHANGED <<status, sub, count, raced>>
  PROVE  Below' /\ Counts' /\ Few'
  BY DEF Inv, Below, Counts, Few, Listening, Asked, Active, Pending, Of, Are

-----------------------------------------------------------------------------
(* Requests.                                                                 *)

LEMMA SubscribeInv ==
  ASSUME Inv, NEW r \in Request, NEW c \in Client, NEW k \in Kind, NEW n \in Conn,
         Subscribe(r, c, k, n)
  PROVE  Inv'
<1>1. /\ Typed /\ Linked /\ Leavable /\ GivenBack /\ Below /\ Counts /\ Few
      /\ Free(r) /\ link[n] = "open" /\ home' = [home EXCEPT ![c] = n]
      /\ UNCHANGED <<open, link, registries, live, raced>>
  BY DEF Inv, Subscribe, Resolves
<1>2. CASE count[k][c] < MaxPerClient
  <2> DEFINE s == [client |-> c, kind |-> k, conn |-> n,
                   seen |-> IF k = "legacy" THEN count[k][c] ELSE 0]
  <2>1. /\ status' = [status EXCEPT ![r] = "asking"] /\ sub' = [sub EXCEPT ![r] = s]
        /\ late' = late \ {r} /\ orphans' = orphans \ {r}
    BY <1>2 DEF Subscribe
  <2>2. s \in Sub /\ s.client = c /\ s.kind = k /\ s.conn = n /\ s.seen <= MaxPerClient - 1
    BY <1>1, <1>2 DEF Typed, Sub
  <2> HIDE DEF s
  <2>3. Typed'
    BY <1>1, <2>1, <2>2 DEF Typed, registries
  <2>4. /\ Active' = Active /\ Pending' = Pending \cup {r}
        /\ r \notin Active \cup Pending \cup live \cup unsubs \cup closeFns
        /\ \A q \in Request \ {r} : sub'[q] = sub[q] /\ status'[q] = status[q]
        /\ sub'[r] = s /\ status'[r] = "asking"
    BY <1>1, <2>1 DEF Typed, Free, Active, Pending
  <2>5. Linked'
    BY <1>1, <2>2, <2>4 DEF Linked, Typed, Active, registries
  <2>6. Leavable'
    BY <1>1, <2>1, <2>4 DEF Leavable, Active, registries
  <2>7. GivenBack'
    BY <1>1, <2>1, <2>4 DEF GivenBack, Are, Typed
  <2>8. Below'
    BY <1>1, <2>2, <2>4 DEF Below, registries
  <2>9. \A d \in Client, j \in Kind : Listening(j, d)' = Listening(j, d)
    BY <2>4 DEF Listening, Of, Are, Active
  <2>10. Counts'
    BY <1>1, <2>9 DEF Counts, registries
  <2>11. ASSUME NEW d \in Client PROVE Cardinality(Asked(d))' < MaxPerClient + MaxPending
    <3>1. CASE d = c /\ k = "watch"
      <4> DEFINE A == Listening("watch", c)
                 P == Pending \cap Of(c)
                 W == P \cap Are("watch")
      <4>1. A \in SUBSET Request /\ P \in SUBSET Request /\ W \in SUBSET Request
            /\ (A \cup W) \in SUBSET Request
        BY DEF Listening, Of
      <4>2. /\ IsFiniteSet(A) /\ IsFiniteSet(W) /\ IsFiniteSet(P) /\ IsFiniteSet(A \cup W)
            /\ Cardinality(A) \in Nat /\ Cardinality(W) \in Nat /\ Cardinality(P) \in Nat
            /\ Cardinality(A \cup W) \in Nat
        BY <4>1, FiniteRequests
      <4>3. A \cap W = {}
        BY DEF Listening, Active, Pending
      <4>4. Cardinality(A \cup W) = Cardinality(A) + Cardinality(W)
        <5> HIDE DEF A, P, W
        <5>1. Cardinality(A \cup W) = Cardinality(A) + Cardinality(W) - Cardinality(A \cap W)
          BY <4>2, FS_Union
        <5> QED BY <4>2, <4>3, <5>1, FS_EmptySet
      <4>5. Cardinality(W) <= Cardinality(P)
        BY <4>2, FS_Subset
      <4>6. Cardinality(P) < MaxPending /\ Cardinality(A) < MaxPerClient
        BY <1>1, <1>2, <3>1 DEF Subscribe, MayAsk, Counts
      <4>7. Asked(d)' = (A \cup W) \cup {r} /\ r \notin A \cup W
        BY <2>2, <2>4, <3>1 DEF Asked, Listening, Of, Are
      <4>8. Cardinality(Asked(d)') = Cardinality(A \cup W) + 1
        BY <4>2, <4>7, FS_AddElement
      <4> HIDE DEF A, P, W
      <4> QED BY <4>2, <4>4, <4>5, <4>6, <4>8
    <3>2. CASE ~(d = c /\ k = "watch")
      <4>1. Asked(d)' = Asked(d)
        BY <2>2, <2>4, <3>2 DEF Asked, Of, Are
      <4> QED BY <1>1, <4>1 DEF Few
    <3> QED BY <3>1, <3>2
  <2> QED BY <2>3, <2>5, <2>6, <2>7, <2>8, <2>10, <2>11 DEF Inv, Few
<1>3. CASE ~(count[k][c] < MaxPerClient)
  <2>1. UNCHANGED <<status, sub, late, orphans>>
    BY <1>3 DEF Subscribe
  <2>2. Below' /\ Counts' /\ Few'
    BY <1>1, <2>1, SameCounts DEF registries
  <2>3. Typed'
    BY <1>1, <2>1 DEF Typed, registries
  <2>4. Linked' /\ Leavable' /\ GivenBack'
    BY <1>1, <2>1 DEF Linked, Leavable, GivenBack, registries, Active, Are
  <2> QED BY <2>2, <2>3, <2>4 DEF Inv
<1> QED BY <1>2, <1>3

LEMMA SubscribedInv ==
  ASSUME Inv, NEW r \in Request, Subscribed(r)
  PROVE  Inv'
<1> DEFINE c == sub[r].client
           k == sub[r].kind
<1>1. /\ Typed /\ Linked /\ Leavable /\ GivenBack /\ Below /\ Counts /\ Few
      /\ status[r] = "asking"
      /\ status' = [status EXCEPT ![r] = "active"]
      /\ count' = [count EXCEPT ![k][c] = CountAfter(r)]
      /\ unsubs' = unsubs \cup {r} /\ live' = live \cup {r}
      /\ sub' = [sub EXCEPT ![r].seen = 0]
      /\ UNCHANGED <<open, home, link, orphans>>
  BY DEF Inv, Subscribed, clients
<1>2. /\ c \in open => closeFns' = closeFns \cup {r} /\ late' = late
      /\ c \notin open => late' = late \cup {r} /\ closeFns' = closeFns
  BY DEF Subscribed
<1>3. raced' = IF k = "legacy" /\ count[k][c] # sub[r].seen THEN raced \cup {c} ELSE raced
  BY DEF Subscribed
<1>4. /\ c \in Client /\ k \in Kind /\ sub[r].seen \in Nat /\ sub[r].conn \in Conn
      /\ \A d \in Client, j \in Kind : count[j][d] \in Nat
      /\ raced' \subseteq Client
  BY <1>1, <1>3 DEF Typed, Sub
<1>5. CountAfter(r) \in Nat
  BY <1>4 DEF CountAfter
<1>6. /\ sub' \in [Request -> Sub]
      /\ \A q \in Request : /\ sub'[q].client = sub[q].client /\ sub'[q].kind = sub[q].kind
                            /\ sub'[q].conn = sub[q].conn
                            /\ sub'[q].seen <= MaxPerClient - 1
  BY <1>1, <1>4 DEF Typed, Sub, Below
<1>7. /\ \A d \in Client, j \in Kind :
           count'[j][d] = IF j = k /\ d = c THEN CountAfter(r) ELSE count[j][d]
      /\ count' \in [Kind -> [Client -> Nat]]
  BY <1>1, <1>4, <1>5 DEF Typed
<1>8. /\ Active' = Active \cup {r} /\ Pending' = Pending \ {r}
      /\ r \in Pending /\ r \notin Active
      /\ \A q \in Request \ {r} : status'[q] = status[q]
      /\ status'[r] = "active"
  BY <1>1 DEF Typed, Active, Pending
<1>9. Typed'
  <2>1. status' \in [Request -> {"asking", "deaf", "active", "over"}]
    BY <1>1 DEF Typed
  <2>2. closeFns' \subseteq Request /\ late' \subseteq Request
    BY <1>1, <1>2 DEF Typed
  <2> QED BY <1>1, <1>4, <1>6, <1>7, <2>1, <2>2 DEF Typed
<1>10. Linked'
  BY <1>1, <1>6, <1>8 DEF Linked, Active
<1>11. Leavable'
  BY <1>1, <1>2, <1>6, <1>8 DEF Leavable, Active
<1>12. GivenBack'
  BY <1>1, <1>2, <1>6, <1>8 DEF GivenBack, Are
<1>13. Below'
  <2>1. k = "legacy" => CountAfter(r) <= MaxPerClient
    BY <1>1, <1>4 DEF CountAfter, Below
  <2> QED BY <1>1, <1>4, <1>6, <1>7, <2>1 DEF Below
<1>14. \A d \in Client, j \in Kind :
         Listening(j, d)' = IF j = k /\ d = c THEN Listening(j, d) \cup {r} ELSE Listening(j, d)
  BY <1>6, <1>8, <1>4 DEF Listening, Of, Are, Active
<1>15. \A j \in Kind : r \notin Listening(j, c) /\ IsFiniteSet(Listening(j, c))
                       /\ Cardinality(Listening(j, c)) \in Nat
  <2>1. \A j \in Kind : Listening(j, c) \in SUBSET Request
    BY DEF Listening, Of
  <2> QED BY <1>8, <2>1, FiniteRequests DEF Listening
<1>16. Cardinality(Listening(k, c) \cup {r}) = Cardinality(Listening(k, c)) + 1
  BY <1>4, <1>15, FS_AddElement
<1>17. Counts'
  <2>1. ASSUME NEW d \in Client
        PROVE  count'["watch"][d] = Cardinality(Listening("watch", d)')
    <3>1. CASE k = "watch" /\ d = c
      <4>1. count'["watch"][d] = count["watch"][c] + 1
        BY <1>7, <3>1 DEF CountAfter
      <4> QED BY <1>1, <1>4, <1>14, <1>16, <3>1, <4>1 DEF Counts
    <3>2. CASE ~(k = "watch" /\ d = c)
      BY <1>1, <1>7, <1>14, <3>2 DEF Counts
    <3> QED BY <3>1, <3>2
  <2>2. ASSUME NEW d \in Client, d \notin raced'
        PROVE  count'["legacy"][d] = Cardinality(Listening("legacy", d)')
    <3>1. CASE k = "legacy" /\ d = c
      <4>1. count["legacy"][c] = sub[r].seen /\ c \notin raced
        BY <1>3, <2>2, <3>1
      <4>2. count'["legacy"][d] = count["legacy"][c] + 1
        BY <1>7, <3>1, <4>1 DEF CountAfter
      <4> QED BY <1>1, <1>4, <1>14, <1>16, <3>1, <4>1, <4>2 DEF Counts
    <3>2. CASE ~(k = "legacy" /\ d = c)
      <4>1. d \notin raced
        BY <1>3, <2>2
      <4> QED BY <1>1, <1>7, <1>14, <3>2, <4>1 DEF Counts
    <3> QED BY <3>1, <3>2
  <2> QED BY <2>1, <2>2 DEF Counts
<1>18. Few'
  <2>1. \A d \in Client : Asked(d)' = Asked(d)
    BY <1>6, <1>8 DEF Asked, Of, Are
  <2> QED BY <1>1, <2>1 DEF Few
<1> QED BY <1>9, <1>10, <1>11, <1>12, <1>13, <1>17, <1>18 DEF Inv

LEMMA FailedInv ==
  ASSUME Inv, NEW r \in Request, Failed(r)
  PROVE  Inv'
<1>1. /\ Typed /\ Linked /\ Leavable /\ GivenBack /\ Below /\ Counts /\ Few
      /\ r \in Pending
      /\ status' = [status EXCEPT ![r] = "over"]
      /\ sub' = [sub EXCEPT ![r].seen = 0]
      /\ UNCHANGED <<open, home, link, count, unsubs, closeFns, late, raced>>
  BY DEF Inv, Failed, clients, registries
<1>2. /\ live' \subseteq live \cup {r} /\ orphans \subseteq orphans'
      /\ orphans' \subseteq orphans \cup {r}
      /\ live' = live \/ r \in orphans'
  BY DEF Failed
<1>3. /\ sub' \in [Request -> Sub]
      /\ \A q \in Request : /\ sub'[q].client = sub[q].client /\ sub'[q].kind = sub[q].kind
                            /\ sub'[q].conn = sub[q].conn
                            /\ sub'[q].seen <= MaxPerClient - 1
  BY <1>1 DEF Typed, Sub, Below
<1>4. /\ Active' = Active /\ Pending' = Pending \ {r} /\ r \notin Active
      /\ \A q \in Request \ {r} : status'[q] = status[q]
      /\ status'[r] = "over"
  BY <1>1 DEF Typed, Active, Pending
<1>5. Typed'
  BY <1>1, <1>2, <1>3 DEF Typed
<1>6. Linked'
  BY <1>1, <1>3, <1>4 DEF Linked, Active
<1>7. Leavable'
  BY <1>1, <1>3, <1>4 DEF Leavable, Active
<1>8. GivenBack'
  BY <1>1, <1>2, <1>3, <1>4 DEF GivenBack, Are, Active
<1>9. Below'
  BY <1>1, <1>3 DEF Below
<1>10. \A d \in Client, j \in Kind : Listening(j, d)' = Listening(j, d)
  BY <1>3, <1>4 DEF Listening, Of, Are, Active
<1>11. Counts'
  BY <1>1, <1>10 DEF Counts
<1>12. ASSUME NEW d \in Client PROVE Cardinality(Asked(d))' < MaxPerClient + MaxPending
  <2>1. Asked(d)' \subseteq Asked(d)
    BY <1>3, <1>4 DEF Asked, Of, Are
  <2>2. Asked(d) \in SUBSET Request /\ Asked(d)' \in SUBSET Request
    BY <2>1 DEF Asked, Of
  <2>3. IsFiniteSet(Asked(d)) /\ Cardinality(Asked(d)) \in Nat /\ Cardinality(Asked(d)') \in Nat
    BY <2>2, FiniteRequests
  <2>4. Cardinality(Asked(d)') <= Cardinality(Asked(d))
    BY <2>1, <2>3, FS_Subset
  <2> QED BY <1>1, <2>3, <2>4 DEF Few
<1> QED BY <1>5, <1>6, <1>7, <1>8, <1>9, <1>11, <1>12 DEF Inv, Few

-----------------------------------------------------------------------------
(* Events, clients and connections.                                          *)

LEMMA TerminalInv ==
  ASSUME Inv, NEW r \in Request, Terminal(r)
  PROVE  Inv'
<1>1. /\ Typed /\ Linked /\ Leavable /\ GivenBack
      /\ r \in Are("watch") /\ live' = live \ {r} /\ Cleanup({r}, {})
      /\ UNCHANGED <<open, home, link, sub, unsubs, closeFns, late, orphans, raced>>
  BY DEF Inv, Terminal, clients, history
<1>2. /\ status' \in [Request -> {"asking", "deaf", "active", "over"}]
      /\ count' \in [Kind -> [Client -> Nat]]
      /\ Active' = Active \ {r}
      /\ \A q \in Request : status'[q] = "asking" => status[q] = "asking"
  BY <1>1, CleanupEffect
<1>3. Below' /\ Counts' /\ Few'
  BY <1>1, CleanupCounts
<1>4. Typed'
  BY <1>1, <1>2 DEF Typed
<1>5. Linked' /\ Leavable'
  BY <1>1, <1>2 DEF Linked, Leavable
<1>6. \A q \in live' \cap Are("legacy") : status[q] = "active" => status'[q] = "active"
  BY <1>1, <1>2 DEF Active, Are
<1>7. GivenBack'
  BY <1>1, <1>6 DEF GivenBack, Are
<1> QED BY <1>3, <1>4, <1>5, <1>7 DEF Inv

\* The id that is looked up is a local id of a local id: there is none.
LEMMA NothingFound ==
  ASSUME NEW c \in Client, NEW r \in Request, NEW n \in Conn, Typed
  PROVE  {q \in On(n) : LocalId(sub[q].client, q) = Key(c, LocalId(c, r))} = {}
<1> SUFFICES ASSUME NEW q \in Request, <<sub[q].client, q>> = <<c, <<c, r>>>> PROVE FALSE
  BY DEF On, LocalId, Key
<1>1. q = <<c, r>> /\ <<c, r>> \notin Request
  BY DEF LocalId
<1> QED BY <1>1

\* A cleanup of nobody changes nothing.
LEMMA CleanupNobody ==
  ASSUME Typed
  PROVE  Cleanup({}, {}) <=> UNCHANGED <<status, count>>
<1> DEFINE n(k, c) == Cardinality(Counted({}) \cap Are(k) \cap Of(c))
           rest(k, c) == IF n(k, c) < count[k][c] THEN count[k][c] - n(k, c) ELSE 0
           after == [r \in Request |-> IF r \in {} \cap Active THEN "over"
                                       ELSE IF r \in {} \cap Pending THEN "deaf"
                                       ELSE status[r]]
<1>1. after = status
  BY DEF Typed
<1>2. \A k \in Kind, c \in Client : rest(k, c) = count[k][c]
  <2>1. \A k \in Kind, c \in Client : Counted({}) \cap Are(k) \cap Of(c) = {}
    BY DEF Counted
  <2>2. \A k \in Kind, c \in Client : n(k, c) = 0 /\ count[k][c] \in Nat
    BY <2>1, FS_EmptySet DEF Typed
  <2> HIDE DEF n
  <2> QED BY <2>2
<1>3. Cleanup({}, {}) <=> /\ status' = after
                          /\ count' = [k \in Kind |-> [c \in Client |-> rest(k, c)]]
  BY Zenon DEF Cleanup
<1> HIDE DEF rest, after
<1>4. [k \in Kind |-> [c \in Client |-> rest(k, c)]] = count
  BY <1>2 DEF Typed
<1> QED BY <1>1, <1>3, <1>4

LEMMA UnsubscribeNobody ==
  ASSUME Typed, Unsubscribe({})
  PROVE  UNCHANGED <<status, count, unsubs, live>>
<1>1. Cleanup({} \cap unsubs, {}) /\ unsubs' = unsubs /\ live' = live
  BY DEF Unsubscribe
<1>2. Cleanup({}, {})
  BY <1>1
<1> QED BY <1>1, <1>2, CleanupNobody

LEMMA LegacyUnsubscribeInv ==
  ASSUME Inv, NEW c \in Client, NEW r \in Request, NEW n \in Conn, LegacyUnsubscribe(c, r, n)
  PROVE  Inv'
<1>1. /\ Typed /\ Linked /\ Leavable /\ GivenBack
      /\ home' = [home EXCEPT ![c] = n]
      /\ Unsubscribe({})
      /\ UNCHANGED <<open, link, sub, closeFns, late, orphans, raced>>
  BY NothingFound DEF Inv, LegacyUnsubscribe, Resolves, history
<1>2. UNCHANGED <<status, count, unsubs, live>>
  BY <1>1, UnsubscribeNobody
<1>3. Below' /\ Counts' /\ Few'
  BY <1>1, <1>2, SameCounts
<1>4. Typed'
  BY <1>1, <1>2 DEF Typed
<1>5. Linked' /\ Leavable' /\ GivenBack'
  BY <1>1, <1>2 DEF Linked, Leavable, GivenBack, Active, Are
<1> QED BY <1>2, <1>3, <1>4, <1>5 DEF Inv

\* What ends is given back, for the client is on a connection that is open.
LEMMA UnfollowInv ==
  ASSUME Inv, NEW c \in Client, NEW r \in Request, NEW n \in Conn, Unfollow(c, r, n)
  PROVE  Inv'
<1> DEFINE R == ({r} \cap On(n)) \cap unsubs
<1>1. /\ Typed /\ Linked /\ Leavable /\ GivenBack
      /\ home' = [home EXCEPT ![c] = n] /\ link[n] = "open"
      /\ Cleanup(R, {}) /\ unsubs' = unsubs \ R
      /\ live' = live \ {q \in R \cap Active \cap Are("legacy") : link[sub[q].conn] = "open"}
      /\ UNCHANGED <<open, link, sub, closeFns, late, orphans, raced>>
  BY DEF Inv, Unfollow, Resolves, Unsubscribe, history
<1>2. R \in SUBSET Request /\ \A q \in R : sub[q].conn = n
  BY DEF On
<1>3. /\ status' \in [Request -> {"asking", "deaf", "active", "over"}]
      /\ count' \in [Kind -> [Client -> Nat]]
      /\ Active' = Active \ R
      /\ \A q \in Request : status'[q] = "asking" => status[q] = "asking"
  <2> HIDE DEF R
  <2>1. {} \in SUBSET Request
    OBVIOUS
  <2> QED BY <1>1, <1>2, <2>1, CleanupEffect
<1>4. Below' /\ Counts' /\ Few'
  <2> HIDE DEF R
  <2> QED BY <1>1, <1>2, CleanupCounts
<1>5. Typed'
  BY <1>1, <1>3 DEF Typed
<1>6. Linked'
  BY <1>1, <1>3 DEF Linked
<1>7. Leavable'
  BY <1>1, <1>3 DEF Leavable, Active
<1>8. GivenBack'
  <2> SUFFICES ASSUME NEW q \in live' \cap Are("legacy"),
                      q \notin late \cup orphans,
                      link[sub[q].conn] \notin {"closing", "stopped"}
               PROVE  status'[q] = "active" /\ sub[q].client \in open
    BY <1>1 DEF GivenBack, Are
  <2>1. q \in Request /\ q \in live /\ status[q] = "active" /\ sub[q].client \in open
    BY <1>1 DEF GivenBack, Are
  <2>2. q \notin R
    BY <1>1, <1>2, <2>1 DEF Active
  <2> QED BY <1>3, <2>1, <2>2 DEF Active
<1> QED BY <1>3, <1>4, <1>5, <1>6, <1>7, <1>8 DEF Inv

LEMMA CloseInv ==
  ASSUME Inv, NEW c \in Client, Close(c)
  PROVE  Inv'
<1> DEFINE R == (closeFns \cap Of(c)) \cap unsubs
<1>1. /\ Typed /\ Linked /\ Leavable /\ GivenBack
      /\ open' = open \ {c} /\ home' = [home EXCEPT ![c] = None]
      /\ Cleanup(R, {}) /\ unsubs' = unsubs \ R
      /\ live' = live \ {r \in R \cap Active \cap Are("legacy") : link[sub[r].conn] = "open"}
      /\ closeFns' = closeFns \ Of(c)
      /\ UNCHANGED <<link, sub, late, orphans, raced>>
  BY DEF Inv, Close, Leaving, Unsubscribe, history
<1>2. R \in SUBSET Request /\ \A r \in R : sub[r].client = c
  BY DEF Of
<1>3. /\ status' \in [Request -> {"asking", "deaf", "active", "over"}]
      /\ count' \in [Kind -> [Client -> Nat]]
      /\ Active' = Active \ R
      /\ \A q \in Request : status'[q] = "asking" => status[q] = "asking"
  <2> HIDE DEF R
  <2>1. {} \in SUBSET Request
    OBVIOUS
  <2> QED BY <1>1, <1>2, <2>1, CleanupEffect
<1>4. Below' /\ Counts' /\ Few'
  BY <1>1, <1>2, CleanupCounts
<1>5. Typed'
  BY <1>1, <1>3 DEF Typed
<1>6. Linked'
  BY <1>1, <1>3 DEF Linked
<1>7. Leavable'
  BY <1>1, <1>3 DEF Leavable, Of, Active
<1>8. GivenBack'
  <2> SUFFICES ASSUME NEW q \in live' \cap Are("legacy"),
                      q \notin late \cup orphans,
                      link[sub[q].conn] \notin {"closing", "stopped"}
               PROVE  status'[q] = "active" /\ sub[q].client \in open'
    BY <1>1 DEF GivenBack, Are
  <2>1. q \in Request /\ q \in live /\ status[q] = "active" /\ sub[q].client \in open
    BY <1>1 DEF GivenBack, Are
  <2>2. q \in Active /\ q \in closeFns /\ q \in unsubs
    BY <1>1, <2>1 DEF Active, Leavable, Linked
  <2>3. link[sub[q].conn] = "open"
    BY <1>1, <2>2 DEF Linked
  <2>4. q \notin R
    BY <1>1, <2>2, <2>3
  <2> QED BY <1>1, <1>3, <2>1, <2>2, <2>4 DEF Of, Active
<1> QED BY <1>2, <1>3, <1>4, <1>5, <1>6, <1>7, <1>8 DEF Inv

LEMMA ConnectInv ==
  ASSUME Inv, NEW c \in Client, Connect(c)
  PROVE  Inv'
<1>1. /\ Typed /\ Linked /\ Leavable /\ GivenBack /\ Below /\ Counts /\ Few
      /\ Of(c) \cap Active = {} /\ open' = open \cup {c}
      /\ count' = [k \in Kind |-> [count[k] EXCEPT ![c] = 0]]
      /\ raced' = raced \ {c}
      /\ UNCHANGED <<home, link, status, sub, unsubs, closeFns, live, late, orphans>>
  BY DEF Inv, Connect
<1>2. /\ count' \in [Kind -> [Client -> Nat]]
      /\ \A k \in Kind, d \in Client : count'[k][d] = IF d = c THEN 0 ELSE count[k][d]
  BY <1>1 DEF Typed
<1>3. \A k \in Kind, d \in Client : /\ Listening(k, d)' = Listening(k, d)
                                    /\ Asked(d)' = Asked(d)
  BY <1>1 DEF Listening, Asked, Active, Pending, Of, Are
<1>4. \A k \in Kind : Cardinality(Listening(k, c)) = 0
  <2>1. \A k \in Kind : Listening(k, c) = {}
    BY <1>1 DEF Listening
  <2> QED BY <2>1, FS_EmptySet
<1>5. Counts'
  <2>1. ASSUME NEW d \in Client
        PROVE  /\ count'["watch"][d] = Cardinality(Listening("watch", d)')
               /\ d \notin raced' =>
                    count'["legacy"][d] = Cardinality(Listening("legacy", d)')
    <3>1. CASE d = c
      BY <1>2, <1>3, <1>4, <3>1
    <3>2. CASE d # c
      <4>1. d \notin raced' => d \notin raced
        BY <1>1, <3>2
      <4> QED BY <1>1, <1>2, <1>3, <3>2, <4>1 DEF Counts
    <3> QED BY <3>1, <3>2
  <2> QED BY <2>1 DEF Counts
<1>6. Few'
  BY <1>1, <1>3 DEF Few
<1>7. Below'
  BY <1>1, <1>2 DEF Below
<1>8. Typed'
  BY <1>1, <1>2 DEF Typed
<1>9. Linked' /\ GivenBack'
  BY <1>1 DEF Linked, GivenBack, Active, Are
<1>10. Leavable'
  BY <1>1 DEF Leavable, Active, Of
<1> QED BY <1>5, <1>6, <1>7, <1>8, <1>9, <1>10 DEF Inv

\* The steps of a connection n; R are the subscriptions that end with it.
LEMMA ConnectionInv ==
  ASSUME Inv, NEW n \in Conn, NEW R \in SUBSET On(n), NEW D \in SUBSET On(n),
         NEW state \in {"open", "closing", "down", "stopped", "ended"},
         link' = [link EXCEPT ![n] = state],
         Cleanup(R, D),
         unsubs' = unsubs \/ unsubs' = unsubs \ On(n),
         live' = live \/ live' = live \ On(n),
         UNCHANGED <<clients, sub, closeFns, history>>,
         \A r \in On(n) :
           /\ r \notin D /\ status[r] = "asking" => state \in {"open", "closing"}
           /\ r \in Active \ R =>
                state = "stopped" \/ (r \in unsubs' /\ state \in {"open", "closing"}),
         \/ state \in {"closing", "stopped"}
         \/ live' = live \ On(n)
         \/ link[n] \notin {"closing", "stopped"} /\ R = {}
  PROVE  Inv'
<1>1. /\ Typed /\ Linked /\ Leavable /\ GivenBack
      /\ UNCHANGED <<open, home, sub, closeFns, late, orphans, raced>>
  BY DEF Inv, clients, history
<1>2. R \in SUBSET Request /\ D \in SUBSET Request
  BY DEF On
<1>3. /\ status' \in [Request -> {"asking", "deaf", "active", "over"}]
      /\ count' \in [Kind -> [Client -> Nat]]
      /\ Active' = Active \ R
      /\ \A q \in Request : status'[q] = "asking" => status[q] = "asking" /\ q \notin D
  BY <1>1, <1>2, CleanupEffect
<1>4. Below' /\ Counts' /\ Few'
  BY <1>1, <1>2, CleanupCounts
<1>5. \A q \in Request : /\ q \in On(n) => link'[sub[q].conn] = state
                         /\ q \notin On(n) => link'[sub[q].conn] = link[sub[q].conn]
                         /\ sub[q].conn \in Conn
  BY <1>1 DEF Typed, Sub, On
<1>6. Typed'
  BY <1>1, <1>3 DEF Typed
<1>7. Linked'
  <2>1. \A q \in Request : status'[q] = "asking" => link'[sub[q].conn] \in {"open", "closing"}
    BY <1>1, <1>3, <1>5 DEF Linked
  <2>2. ASSUME NEW q \in Active'
        PROVE  \/ q \in unsubs' /\ link'[sub[q].conn] \in {"open", "closing"}
               \/ link'[sub[q].conn] = "stopped"
    <3>1. q \in Active \ R /\ q \in Request
      BY <1>3 DEF Active
    <3> QED BY <1>1, <1>5, <3>1 DEF Linked
  <2> QED BY <1>1, <2>1, <2>2 DEF Linked
<1>8. Leavable'
  BY <1>1, <1>3 DEF Leavable
<1>9. GivenBack'
  <2> SUFFICES ASSUME NEW q \in live' \cap Are("legacy"),
                      q \notin late \cup orphans,
                      link'[sub[q].conn] \notin {"closing", "stopped"}
               PROVE  status'[q] = "active" /\ sub[q].client \in open
    BY <1>1 DEF GivenBack, Are
  <2>1. q \in Request /\ q \in live
    BY DEF Are
  <2>2. link[sub[q].conn] \notin {"closing", "stopped"} /\ q \notin R
    <3>1. CASE q \in On(n)
      BY <1>5, <2>1, <3>1 DEF On
    <3>2. CASE q \notin On(n)
      BY <1>5, <2>1, <3>2
    <3> QED BY <3>1, <3>2
  <2>3. status[q] = "active" /\ sub[q].client \in open
    BY <1>1, <2>1, <2>2 DEF GivenBack, Are
  <2> QED BY <1>3, <2>1, <2>2, <2>3 DEF Active
<1> QED BY <1>4, <1>6, <1>7, <1>8, <1>9 DEF Inv

LEMMA LinksInv ==
  ASSUME Inv, NEW n \in Conn,
         Closing(n) \/ OnClose(n) \/ Reconnect(n) \/ Stop(n) \/ StopDone(n)
  PROVE  Inv'
<1>1. Typed /\ Linked
  BY DEF Inv
<1>2. \A r \in On(n) : /\ r \in Request /\ sub[r].conn = n
                       /\ status[r] = "asking" => link[n] \in {"open", "closing"}
                       /\ r \in Active => link[n] \in {"open", "closing", "stopped"}
                       /\ r \in Active /\ link[n] # "stopped" => r \in unsubs
                       /\ r \in Active => status[r] = "active"
  BY <1>1 DEF On, Linked, Active
<1>3. UNCHANGED <<status, count>> => Cleanup({}, {})
  BY <1>1, CleanupNobody
<1>4. {} \in SUBSET On(n) /\ On(n) \in SUBSET On(n) /\ Lost(n) \in SUBSET On(n)
  BY DEF Lost
<1>5. CASE Closing(n)
  <2>1. /\ link[n] = "open" /\ link' = [link EXCEPT ![n] = "closing"]
        /\ Cleanup({}, {}) /\ unsubs' = unsubs /\ live' = live
        /\ UNCHANGED <<clients, sub, closeFns, history>>
    BY <1>3, <1>5 DEF Closing, registries
  <2> QED BY <1>2, <1>4, <2>1, ConnectionInv
<1>6. CASE OnClose(n)
  <2>1. /\ link[n] = "closing" /\ link' = [link EXCEPT ![n] = "down"]
        /\ Cleanup(Lost(n), On(n)) /\ unsubs' = unsubs \ On(n) /\ live' = live \ On(n)
        /\ UNCHANGED <<clients, sub, closeFns, history>>
    BY <1>6 DEF OnClose
  <2>2. \A r \in On(n) : r \in Active => r \in Lost(n)
    BY <1>2, <2>1 DEF Lost
  <2> QED BY <1>2, <1>4, <2>1, <2>2, ConnectionInv
<1>7. CASE Reconnect(n)
  <2>1. /\ link[n] \in {"down", "ended"} /\ link' = [link EXCEPT ![n] = "open"]
        /\ Cleanup({}, {}) /\ unsubs' = unsubs /\ live' = live
        /\ UNCHANGED <<clients, sub, closeFns, history>>
    BY <1>3, <1>7 DEF Reconnect, registries
  <2> QED BY <1>2, <1>4, <2>1, ConnectionInv
<1>8. CASE Stop(n)
  <2> DEFINE state == IF link[n] = "down" THEN "ended" ELSE "stopped"
  <2>1. /\ link[n] \in {"open", "closing", "down"} /\ link' = [link EXCEPT ![n] = state]
        /\ Cleanup({}, On(n)) /\ unsubs' = unsubs \ On(n) /\ live' = live
        /\ UNCHANGED <<clients, sub, closeFns, history>>
    BY <1>8 DEF Stop
  <2>2. \/ state = "stopped" /\ link[n] # "down"
        \/ state = "ended" /\ link[n] = "down"
    OBVIOUS
  <2> HIDE DEF state
  <2> QED BY <1>2, <1>4, <2>1, <2>2, ConnectionInv
<1>9. CASE StopDone(n)
  <2>1. /\ link[n] = "stopped" /\ link' = [link EXCEPT ![n] = "ended"]
        /\ Cleanup(On(n), {}) /\ unsubs' = unsubs /\ live' = live \ On(n)
        /\ UNCHANGED <<clients, sub, closeFns, history>>
    BY <1>9 DEF StopDone
  <2> QED BY <1>2, <1>4, <2>1, ConnectionInv
<1> QED BY <1>5, <1>6, <1>7, <1>8, <1>9

-----------------------------------------------------------------------------
(* The theorems.                                                             *)

LEMMA NextInv == Inv /\ [Next]_vars => Inv'
<1> SUFFICES ASSUME Inv, [Next]_vars PROVE Inv'
  OBVIOUS
<1>1. CASE UNCHANGED vars
  <2>1. UNCHANGED <<open, home, link, status, sub, count, unsubs, closeFns, live, late,
                    orphans, raced>>
    BY <1>1 DEF vars, clients, registries, history
  <2>2. Below' /\ Counts' /\ Few'
    BY <2>1, SameCounts
  <2>3. Typed' /\ Linked' /\ Leavable' /\ GivenBack'
    BY <2>1 DEF Inv, Typed, Linked, Leavable, GivenBack, Active, Are
  <2> QED BY <2>2, <2>3 DEF Inv
<1>2. CASE Next
  BY <1>2, SubscribeInv, SubscribedInv, FailedInv, TerminalInv, LegacyUnsubscribeInv, UnfollowInv,
     CloseInv, ConnectInv, LinksInv DEF Next
<1> QED BY <1>1, <1>2

LEMMA Invariance == Spec => []Inv
  BY InitInv, NextInv, PTL DEF Spec

\* The counts of a client are what it listens to: exactly for watched transactions, for
\* legacy subscriptions until a stale value was written; and it never has more watched
\* transactions than its quota and the limit of pending requests allow together.
LEMMA InvCounts == Inv => CountsExact
<1> SUFFICES ASSUME Inv, NEW c \in Client
             PROVE  /\ count["watch"][c] = Cardinality(Active \cap Of(c) \cap Are("watch"))
                    /\ c \notin raced =>
                         count["legacy"][c] = Cardinality(Active \cap Of(c) \cap Are("legacy"))
                    /\ Cardinality((Active \cup Pending) \cap Of(c) \cap Are("watch"))
                         < MaxPerClient + MaxPending
  BY DEF CountsExact
<1> QED BY DEF Inv, Counts, Few, Listening, Asked
THEOREM CountsExactHolds == Spec => []CountsExact
  BY Invariance, InvCounts, PTL

\* Whoever listens is found by what ends it, and the counts are within their limits.
LEMMA InvAccounted == Inv => Accounted
<1> SUFFICES ASSUME Inv PROVE Accounted
  OBVIOUS
<1>1. Typed /\ Linked /\ Below /\ Counts /\ Few
  BY DEF Inv
<1>2. ASSUME NEW c \in Client PROVE count["watch"][c] <= MaxPerClient + MaxPending
  <2>1. Listening("watch", c) \subseteq Asked(c)
    BY DEF Listening, Asked
  <2>2. Asked(c) \in SUBSET Request /\ Listening("watch", c) \in SUBSET Request
    BY DEF Asked, Listening, Of
  <2>3. /\ IsFiniteSet(Asked(c)) /\ Cardinality(Asked(c)) \in Nat
        /\ Cardinality(Listening("watch", c)) \in Nat
    BY <2>2, FiniteRequests
  <2>4. Cardinality(Listening("watch", c)) <= Cardinality(Asked(c))
    BY <2>1, <2>3, FS_Subset
  <2> QED BY <1>1, <2>3, <2>4 DEF Counts, Few
<1>3. ASSUME NEW c \in Client PROVE count["legacy"][c] <= MaxPerClient + MaxPending
  BY <1>1 DEF Below, Typed
<1>4. TypeOK
  BY <1>1, <1>2, <1>3 DEF TypeOK, Typed
<1> QED BY <1>1, <1>4 DEF Accounted, Linked
THEOREM AccountedHolds == Spec => []Accounted
  BY Invariance, InvAccounted, PTL

\* What the node keeps for a legacy subscriber is given back when the client closes, but
\* for the cases it names.
THEOREM GivenBackHolds == Spec => []GivenBack
<1>1. Inv => GivenBack
  BY DEF Inv
<1> QED BY <1>1, Invariance, PTL
=============================================================================
