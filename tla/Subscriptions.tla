---------------------------- MODULE Subscriptions ----------------------------
(***************************************************************************)
(* Subscriptions that are not shared: the legacy ones of                    *)
(* polkadot/legacy/subscribe.ts and those of polkadot/common/               *)
(* subscription.ts, which is transactionWatch_v1_submitAndWatch; with the   *)
(* unsubscribers and notifications of upstream/server.ts, the close         *)
(* functions of downstream/client.ts, and the connection the registry       *)
(* gives a client.                                                          *)
(*                                                                         *)
(* One step is one turn of the event loop.  A handler takes two: up to its  *)
(* await of the node, and from the answer on.  A subscription is named by   *)
(* the request that made it.                                                *)
(***************************************************************************)
EXTENDS Naturals, FiniteSets

CONSTANTS Client,
          Request,
          Conn,          \* upstream connections
          MaxPerClient,  \* subscriptions a client may have of one method
          MaxPending,    \* max_pending_requests_per_connection of protocol.ts
          None

Kind == {"legacy", "watch"}

\* getLocalId.  A subscription id of the node is not one of these.
LocalId(c, id) == <<c, id>>

ASSUME SubscriptionsAssumption ==
  /\ IsFiniteSet(Request)
  /\ {MaxPerClient, MaxPending} \subseteq Nat \ {0}
  /\ None \notin Conn
  /\ \A c \in Client, r \in Request : LocalId(c, r) \notin Request

VARIABLES
  open,     \* clients whose websocket is open
  home,     \* connection the registry has for each client
  link,     \* websocket of each connection; closing: not OPEN, onclose not run yet
  status,   \* asking: awaits its answer; deaf: its answer cannot come any more;
            \* active: listens to notifications; over: anything else
  sub,      \* client, kind and connection of each request; count it read (legacy)
  count,    \* activeCounts of the legacy method, quota of the other, of each client
  unsubs,   \* subscriptions with an unsubscriber at their connection
  closeFns, \* subscriptions a client leaves when its websocket closes
  live,     \* subscriptions the node keeps
  late,     \* history: made after their client closed
  orphans,  \* history: made at the node after the request timed out
  raced     \* history: clients whose count was set from a stale value

clients == <<open, home>>
registries == <<count, unsubs, closeFns>>
history == <<late, orphans, raced>>
vars == <<clients, link, status, sub, registries, live, history>>

Sub == [client : Client, kind : Kind, conn : Conn, seen : Nat]

TypeOK ==
  /\ open \subseteq Client
  /\ home \in [Client -> Conn \cup {None}]
  /\ link \in [Conn -> {"open", "closing", "down", "stopped", "ended"}]
  /\ status \in [Request -> {"asking", "deaf", "active", "over"}]
  /\ sub \in [Request -> Sub]
  /\ count \in [Kind -> [Client -> Nat]]
  /\ \A k \in Kind, c \in Client : count[k][c] <= MaxPerClient + MaxPending
  /\ unsubs \subseteq Request
  /\ closeFns \subseteq Request
  /\ live \subseteq Request
  /\ late \subseteq Request /\ orphans \subseteq Request /\ raced \subseteq Client

Init ==
  /\ open = Client
  /\ home = [c \in Client |-> None]
  /\ link = [n \in Conn |-> "open"]
  /\ status = [r \in Request |-> "over"]
  /\ \E c \in Client, n \in Conn :
       sub = [r \in Request |-> [client |-> c, kind |-> "watch", conn |-> n, seen |-> 0]]
  /\ count = [k \in Kind |-> [c \in Client |-> 0]]
  /\ unsubs = {} /\ closeFns = {} /\ live = {}
  /\ late = {} /\ orphans = {} /\ raced = {}

-----------------------------------------------------------------------------
Of(c) == {r \in Request : sub[r].client = c}
On(n) == {r \in Request : sub[r].conn = n}
Are(k) == {r \in Request : sub[r].kind = k}
Pending == {r \in Request : status[r] \in {"asking", "deaf"}}
Active == {r \in Request : status[r] = "active"}

\* A request record nothing refers to any more stands for a new one.
Free(r) == status[r] = "over" /\ r \notin unsubs \cup closeFns \cup live

\* Bug: the cleanup of a subscription that is done already counts again.
Counted_Again(R) == R

\* Those of R whose cleanup does something: `cleaned`, `done`.
Counted(R) == R \cap Active

\* cleanup() of the subscriptions R takes each off the count of its client; requests in
\* `deafened` cannot be answered any more.
Cleanup(R, deafened) ==
  /\ status' = [r \in Request |-> IF r \in R \cap Active THEN "over"
                                  ELSE IF r \in deafened \cap Pending THEN "deaf"
                                  ELSE status[r]]
  /\ count' = [k \in Kind |-> [c \in Client |->
       LET n == Cardinality(Counted(R) \cap Are(k) \cap Of(c))
       IN IF n < count[k][c] THEN count[k][c] - n ELSE 0]]

\* The registry keeps a client on its connection as long as that is ready.
Resolves(c, n) ==
  /\ link[n] = "open"
  /\ home[c] \in Conn /\ link[home[c]] = "open" => n = home[c]
  /\ home' = [home EXCEPT ![c] = n]

\* protocol.ts terminates a client that has too many requests pending.
MayAsk(c) == Cardinality(Pending \cap Of(c)) < MaxPending

\* A subscribe request, up to the await; above the limit it is refused.  For a client that
\* closed while it waited for the connection the handler returns at once.
Subscribe(r, c, k, n) ==
  /\ Free(r) /\ c \in open /\ MayAsk(c)
  /\ Resolves(c, n)
  /\ IF count[k][c] < MaxPerClient
     THEN /\ status' = [status EXCEPT ![r] = "asking"]
          /\ sub' = [sub EXCEPT ![r] = [client |-> c, kind |-> k, conn |-> n,
                                        seen |-> IF k = "legacy" THEN count[k][c] ELSE 0]]
          /\ late' = late \ {r} /\ orphans' = orphans \ {r}
     ELSE UNCHANGED <<status, sub, late, orphans>>
  /\ UNCHANGED <<open, link, registries, live, raced>>

\* The count after one more subscription: the legacy handler adds one to what it read
\* before the await, the other one to what is there.
CountAfter(r) ==
  IF sub[r].kind = "legacy" THEN sub[r].seen + 1
  ELSE count["watch"][sub[r].client] + 1

\* The node subscribes; the client is told its local id.  A close function that is added
\* after the client closed never runs.
Subscribed(r) ==
  LET c == sub[r].client
      k == sub[r].kind
  IN /\ status[r] = "asking"
     /\ status' = [status EXCEPT ![r] = "active"]
     /\ count' = [count EXCEPT ![k][c] = CountAfter(r)]
     /\ unsubs' = unsubs \cup {r}
     /\ live' = live \cup {r}
     /\ IF c \in open THEN closeFns' = closeFns \cup {r} /\ UNCHANGED late
                      ELSE late' = late \cup {r} /\ UNCHANGED closeFns
     /\ raced' = IF k = "legacy" /\ count[k][c] # sub[r].seen THEN raced \cup {c} ELSE raced
     /\ sub' = [sub EXCEPT ![r].seen = 0]
     /\ UNCHANGED <<clients, link, orphans>>

\* The request fails: the node refuses, or nothing came in time.  In the second case the
\* node may have subscribed all the same, and nobody knows its subscription.
Failed(r) ==
  /\ r \in Pending
  /\ status' = [status EXCEPT ![r] = "over"]
  /\ \/ UNCHANGED <<live, orphans>>
     \/ /\ status[r] = "asking"
        /\ live' = live \cup {r}
        /\ orphans' = orphans \cup {r}
  /\ sub' = [sub EXCEPT ![r].seen = 0]
  /\ UNCHANGED <<clients, link, registries, late, raced>>

\* The node sends the terminal event of a watched transaction.  The unsubscriber stays.
Terminal(r) ==
  /\ r \in live \cap Are("watch")
  /\ live' = live \ {r}
  /\ Cleanup({r}, {})
  /\ UNCHANGED <<clients, link, sub, unsubs, closeFns, history>>

\* legacy/unsubscribe.ts makes a local id of the id it is sent, which is one already.
Key(c, id) == LocalId(c, id)

\* server.unsubscribe() of the subscriptions R; cleanup of a legacy one tells the node if
\* it can.
Unsubscribe(R) ==
  LET found == R \cap unsubs
  IN /\ Cleanup(found, {})
     /\ unsubs' = unsubs \ found
     /\ live' = live \ {r \in found \cap Active \cap Are("legacy") : link[sub[r].conn] = "open"}

\* The client unsubscribes from r, at the connection it is on: nothing has that id there.
LegacyUnsubscribe(c, r, n) ==
  /\ c \in open /\ r \in Active \cap Of(c) \cap Are("legacy")
  /\ Resolves(c, n)
  /\ Unsubscribe({q \in On(n) : LocalId(sub[q].client, q) = Key(c, LocalId(c, r))})
  /\ UNCHANGED <<open, link, sub, closeFns, history>>

\* chain-head/unfollow.ts takes the id as it is sent: it ends any subscription the client
\* has at the connection it is on, also of these.
Unfollow(c, r, n) ==
  /\ c \in open /\ r \in (Active \cup unsubs) \cap Of(c)
  /\ Resolves(c, n)
  /\ Unsubscribe({r} \cap On(n))
  /\ UNCHANGED <<open, link, sub, closeFns, history>>

\* Bug: the close functions are not run.
Leaving_Nothing(c) == {}

\* What the close functions of a client unsubscribe.
Leaving(c) == closeFns \cap Of(c)

\* The websocket of a client closes.
Close(c) ==
  /\ c \in open
  /\ open' = open \ {c}
  /\ home' = [home EXCEPT ![c] = None]
  /\ Unsubscribe(Leaving(c))
  /\ closeFns' = closeFns \ Of(c)
  /\ UNCHANGED <<link, sub, history>>

\* Another client comes; nothing is left of the one whose name it takes.
Connect(c) ==
  /\ c \notin open
  /\ Of(c) \cap (Pending \cup Active \cup unsubs) = {}
  /\ open' = open \cup {c}
  /\ count' = [k \in Kind |-> [count[k] EXCEPT ![c] = 0]]
  /\ raced' = raced \ {c}
  /\ UNCHANGED <<home, link, status, sub, unsubs, closeFns, live, late, orphans>>

\* The websocket is not OPEN any more, but has not closed yet.
Closing(n) ==
  /\ link[n] = "open"
  /\ link' = [link EXCEPT ![n] = "closing"]
  /\ UNCHANGED <<clients, status, sub, registries, live, history>>

\* Bug: the unsubscribers are dropped without being called.
Lost_Silently(n) == {}

\* Whose unsubscribers cleanup() calls when a connection is lost.
Lost(n) == On(n) \cap unsubs

\* onclose of a connection that was lost: cleanup(), and a reconnect later.
OnClose(n) ==
  /\ link[n] = "closing"
  /\ link' = [link EXCEPT ![n] = "down"]
  /\ Cleanup(Lost(n), On(n))
  /\ unsubs' = unsubs \ On(n)
  /\ live' = live \ On(n)
  /\ UNCHANGED <<clients, sub, closeFns, history>>

\* The server reconnects; or the pool opens another connection in place of one that ended
\* and that neither a request nor a client is left on.
Reconnect(n) ==
  /\ \/ link[n] = "down"
     \/ /\ link[n] = "ended"
        /\ On(n) \cap Pending = {} /\ \A c \in Client : home[c] # n
  /\ link' = [link EXCEPT ![n] = "open"]
  /\ UNCHANGED <<clients, status, sub, registries, live, history>>

\* The sweep stops a connection that counts no clients, as one that is down does: stop()
\* drops the unsubscribers without calling them and closes the websocket.
Stop(n) ==
  /\ \/ link[n] \in {"open", "closing"} /\ \A c \in open : home[c] # n
     \/ link[n] = "down"
  /\ link' = [link EXCEPT ![n] = IF @ = "down" THEN "ended" ELSE "stopped"]
  /\ Cleanup({}, On(n))
  /\ unsubs' = unsubs \ On(n)
  /\ UNCHANGED <<clients, sub, closeFns, live, history>>

\* onclose of a connection that was stopped: notification$ completes, and every subscription
\* on it is cleaned up.
StopDone(n) ==
  /\ link[n] = "stopped"
  /\ link' = [link EXCEPT ![n] = "ended"]
  /\ Cleanup(On(n), {})
  /\ live' = live \ On(n)
  /\ UNCHANGED <<clients, sub, unsubs, closeFns, history>>

Next ==
  \/ \E r \in Request, c \in Client, k \in Kind, n \in Conn : Subscribe(r, c, k, n)
  \/ \E r \in Request : Subscribed(r) \/ Failed(r) \/ Terminal(r)
  \/ \E c \in Client, r \in Request, n \in Conn : LegacyUnsubscribe(c, r, n) \/ Unfollow(c, r, n)
  \/ \E c \in Client : Close(c) \/ Connect(c)
  \/ \E n \in Conn : Closing(n) \/ OnClose(n) \/ Reconnect(n) \/ Stop(n) \/ StopDone(n)

Spec == Init /\ [][Next]_vars

-----------------------------------------------------------------------------
\* The quota of a client is the number of its watched transactions, however they end and
\* in whatever order its close function, the terminal event and the connection do it; and
\* so is the legacy count, until a stale value is written to it.  The quota is tested
\* before the await and counted after it: what keeps a client near it is the limit of
\* pending requests of another module.
CountsExact ==
  \A c \in Client :
    /\ count["watch"][c] = Cardinality(Active \cap Of(c) \cap Are("watch"))
    /\ c \notin raced =>
         count["legacy"][c] = Cardinality(Active \cap Of(c) \cap Are("legacy"))
    /\ Cardinality((Active \cup Pending) \cap Of(c) \cap Are("watch"))
         < MaxPerClient + MaxPending

\* Whoever listens is found by whatever will end it: the unsubscribers of a connection that
\* may be lost, or the completion of one that was stopped.
Accounted ==
  /\ TypeOK
  /\ \A r \in Active : \/ r \in unsubs /\ link[sub[r].conn] \in {"open", "closing"}
                       \/ link[sub[r].conn] = "stopped"

\* What the node keeps for a legacy subscriber is given back when the client closes, but
\* for a connection that is closing itself, a client that closed during the await, and
\* an answer that came too late.
GivenBack ==
  \A r \in live \cap Are("legacy") :
    \/ status[r] = "active" /\ sub[r].client \in open
    \/ r \in late \cup orphans
    \/ link[sub[r].conn] \in {"closing", "stopped"}
=============================================================================
