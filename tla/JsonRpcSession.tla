---------------------------- MODULE JsonRpcSession ----------------------------
(***************************************************************************)
(* The downstream side of the proxy: a websocket from open to close through *)
(* the middlewares of ws/handler.ts in the order of proxy.ts, which are the *)
(* rate limiter, the metrics and json-rpc/protocol.ts with its client       *)
(* (downstream/client.ts); and the shutdown of proxy.ts.                    *)
(*                                                                         *)
(* One step is one turn of the event loop.  The handler of a message takes  *)
(* several: up to the wait for the upstream, up to the handler of its       *)
(* method, and the return of that, whatever it did (the other modules).     *)
(* A websocket is a slot that is used again once it is closed and nothing   *)
(* runs for it; it is then another client.                                  *)
(***************************************************************************)
EXTENDS TokenBucket, Integers, FiniteSets

CONSTANTS Client,
          Address, From,   \* where each websocket comes from
          Handler,         \* records of the messages being handled
          MaxConnects,     \* rateLimit.maxRequests
          MaxRequests,     \* max_requests_per_second
          Window,          \* ticks of one window, of both
          MaxPending,      \* max_pending_requests_per_connection
          MaxGlobal,       \* max_pending_requests
          MaxRefused,      \* bound: connections that may be refused
          None

ASSUME SessionAssumption ==
  /\ IsFiniteSet(Client) /\ IsFiniteSet(Handler)
  /\ From \in [Client -> Address]
  /\ {MaxConnects, MaxRequests, Window, MaxPending, MaxGlobal} \subseteq Nat \ {0}
  /\ MaxRefused \in Nat
  /\ None \notin Buckets(MaxConnects, Window)

VARIABLES
  socket,   \* of each slot; closing: closed or terminated by us, close event to come
  client,   \* slots with ws.data.client: those the rate limiter let through
  gauge,    \* activeConnections
  connects, \* ipBuckets
  rate,     \* token bucket of each client
  pending,  \* _pendingRequests of each client
  globalPending,
  run, by,  \* the messages being handled, and whose they are
  ready,    \* the upstream connection is ready
  running,  \* until shutdown
  refused,  \* history: connections refused
  admitted  \* history: connections of an address let through since the last tick

sockets == <<socket, client, gauge, refused>>
limits == <<connects, rate, admitted>>
requests == <<pending, globalPending, run, by>>
vars == <<sockets, limits, requests, ready, running>>

Running == {h \in Handler : run[h] # "idle"}
Of(c) == {h \in Handler : by[h] = c}

\* Websockets the rate limiter terminated and whose close event is to come.
Refusing == {c \in Client : socket[c] # "none"} \ client

TypeOK ==
  /\ socket \in [Client -> {"none", "open", "closing"}]
  /\ client \subseteq {c \in Client : socket[c] # "none"}
  /\ gauge \in Int
  /\ connects \in [Address -> Buckets(MaxConnects, Window) \cup {None}]
  /\ rate \in [Client -> Buckets(MaxRequests, Window)]
  /\ pending \in [Client -> 0..MaxPending]
  /\ globalPending \in 0..MaxGlobal
  /\ run \in [Handler -> {"idle", "waiting", "handling"}]
  /\ by \in [Handler -> Client]
  /\ ready \in BOOLEAN /\ running \in BOOLEAN
  /\ refused \in 0..MaxRefused
  /\ admitted \in [Address -> Nat]

Init ==
  /\ socket = [c \in Client |-> "none"]
  /\ client = {}
  /\ gauge = 0
  /\ connects = [a \in Address |-> None]
  /\ rate = [c \in Client |-> NewBucket(MaxRequests, Window)]
  /\ pending = [c \in Client |-> 0] /\ globalPending = 0
  /\ run = [h \in Handler |-> "idle"]
  /\ \E c \in Client : by = [h \in Handler |-> c]
  /\ ready \in BOOLEAN /\ running = TRUE
  /\ refused = 0
  /\ admitted = [a \in Address |-> 0]

-----------------------------------------------------------------------------
\* checkLimit: the first connection of an address makes its bucket and takes nothing.
Admits(a) == connects[a] = None \/ Allows(MaxConnects, Window, connects[a])

\* Bug: the bucket of the first connection is not kept.
Bucket_Lost(a) ==
  IF connects[a] = None THEN None ELSE Taken(MaxConnects, Window, connects[a])

Bucket(a) == IF connects[a] = None THEN NewBucket(MaxConnects, Window)
             ELSE Taken(MaxConnects, Window, connects[a])

\* A websocket opens.  The rate limiter comes first: a connection it terminates never gets
\* to the metrics and to json-rpc.
Open(c) ==
  LET a == From[c]
  IN /\ running /\ socket[c] = "none" /\ Running \cap Of(c) = {}
     /\ connects' = [connects EXCEPT ![a] = Bucket(a)]
     /\ IF Admits(a)
        THEN /\ socket' = [socket EXCEPT ![c] = "open"]
             /\ client' = client \cup {c}
             /\ gauge' = gauge + 1
             /\ rate' = [rate EXCEPT ![c] = NewBucket(MaxRequests, Window)]
             /\ admitted' = [admitted EXCEPT ![a] = @ + 1]
        ELSE /\ refused < MaxRefused
             /\ socket' = [socket EXCEPT ![c] = "closing"]
             /\ UNCHANGED <<client, gauge, rate, admitted>>
     /\ refused' = IF Admits(a) THEN refused ELSE refused + 1
     /\ UNCHANGED <<requests, ready, running>>

\* Closing goes through the metrics whatever opening did.
GaugeAfterClose(c) == gauge - 1

\* A websocket closes, by the other side or as the consequence of ours.
Close(c) ==
  /\ socket[c] # "none"
  /\ socket' = [socket EXCEPT ![c] = "none"]
  /\ gauge' = GaugeAfterClose(c)
  /\ client' = client \ {c}
  /\ UNCHANGED <<refused, limits, requests, ready, running>>

Overloaded(c) == pending[c] >= MaxPending \/ globalPending >= MaxGlobal

\* A valid request.  Too many of them, or too fast, terminate the websocket; without an
\* upstream it is closed, and the counters are as before.
Message(c, h) ==
  /\ socket[c] = "open" /\ c \in client /\ run[h] = "idle"
  /\ IF Overloaded(c) THEN UNCHANGED rate
     ELSE rate' = [rate EXCEPT ![c] = Taken(MaxRequests, Window, @)]
  /\ \/ /\ ~Overloaded(c) /\ Allows(MaxRequests, Window, rate[c])
        /\ pending' = [pending EXCEPT ![c] = @ + 1]
        /\ globalPending' = globalPending + 1
        /\ run' = [run EXCEPT ![h] = IF ready THEN "handling" ELSE "waiting"]
        /\ by' = [by EXCEPT ![h] = c]
        /\ UNCHANGED socket
     \/ /\ socket' = [socket EXCEPT ![c] = "closing"]
        /\ UNCHANGED requests
  /\ UNCHANGED <<client, gauge, refused, connects, admitted, ready, running>>

\* waitForReady resolves.
Resume(h) ==
  /\ run[h] = "waiting" /\ ready
  /\ run' = [run EXCEPT ![h] = "handling"]
  /\ UNCHANGED <<sockets, limits, pending, globalPending, by, ready, running>>

\* Bug: a request is counted down only while its client is connected.
CountedDown_Open(h) == socket[by[h]] = "open"

\* The finally block counts a request down on every path.
CountedDown(h) == TRUE

\* The handler of the method returns or throws, or waitForReady times out.
Return(h) ==
  /\ run[h] # "idle"
  /\ run' = [run EXCEPT ![h] = "idle"]
  /\ IF CountedDown(h)
     THEN /\ pending' = [pending EXCEPT ![by[h]] = @ - 1]
          /\ globalPending' = globalPending - 1
     ELSE UNCHANGED <<pending, globalPending>>
  /\ UNCHANGED <<sockets, limits, by, ready, running>>

\* The upstream connection comes and goes.
Flip ==
  /\ running
  /\ ready' = ~ready
  /\ UNCHANGED <<sockets, limits, requests, running>>

Tick ==
  /\ running
  /\ connects' = [a \in Address |->
                    IF connects[a] = None THEN None ELSE Aged(Window, connects[a])]
  /\ rate' = [c \in Client |-> Aged(Window, rate[c])]
  /\ admitted' = [a \in Address |-> 0]
  /\ UNCHANGED <<sockets, requests, ready, running>>

\* The process is told to stop: upstream connections are stopped, websockets closed, and
\* no new ones are accepted.
Shutdown ==
  /\ running
  /\ running' = FALSE /\ ready' = FALSE
  /\ socket' = [c \in Client |-> IF socket[c] = "none" THEN "none" ELSE "closing"]
  /\ UNCHANGED <<client, gauge, refused, limits, requests>>

Next ==
  \/ \E c \in Client : Open(c) \/ Close(c) \/ \E h \in Handler : Message(c, h)
  \/ \E h \in Handler : Resume(h) \/ Return(h)
  \/ Flip \/ Tick \/ Shutdown

\* A websocket that we closed gets its close event; handlers return, because every request
\* to a node ends and so does the wait for a connection.
Spec ==
  /\ Init /\ [][Next]_vars
  /\ \A c \in Client : WF_vars(socket[c] = "closing" /\ Close(c))
  /\ \A h \in Handler : WF_vars(Return(h))

-----------------------------------------------------------------------------
\* The pending counters are what is being handled, for each client and in all, and stay
\* within their limits, also for clients that closed or were terminated meanwhile.
PendingExact ==
  /\ TypeOK
  /\ \A c \in Client : pending[c] = Cardinality(Running \cap Of(c))
  /\ globalPending = Cardinality(Running)

\* metrics.ts:8 calls the gauge the current number of active connections.  It is the number
\* of those the rate limiter let through, less one for ever for each one that it refused
\* and that is closed by now.
GaugeDrift == gauge = Cardinality(client) + Cardinality(Refusing) - refused

\* However they come and go, an address gets at most one connection more than its limit
\* let through at a time.
ConnectBurst == \A a \in Address : admitted[a] <= MaxConnects + 1

\* The token bucket alone, with the sizes of up to SmallBucket and in every history of
\* HistoryLength ticks and calls.  A property of the operators, so it is enough to evaluate
\* it in the initial states.
SmallBucket == 3
HistoryLength == 9
BurstBounded ==
  Init => \A capacity, window \in 1..SmallBucket, s \in [1..HistoryLength -> {"tick", "call"}] :
            BurstIsBounded(capacity, window, s)

\* After a shutdown all websockets close, all handlers return, and nothing counts as
\* pending.
ShutdownEnds ==
  ~running ~> /\ \A c \in Client : socket[c] = "none" /\ pending[c] = 0
              /\ globalPending = 0
=============================================================================
