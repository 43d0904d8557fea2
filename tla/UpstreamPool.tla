----------------------------- MODULE UpstreamPool -----------------------------
(***************************************************************************)
(* How clients are spread over upstream connections: the registry           *)
(* (upstream/registry.ts), the pools of connections it owns                 *)
(* (upstream/pool.ts) with their heaps, and what of each connection          *)
(* (upstream/server.ts) matters here: its link and its client counter.      *)
(*                                                                         *)
(* One step is one synchronous handler.  A connection is <<pool, slot>>; a   *)
(* slot is used again once its connection is closed and nobody holds it.    *)
(***************************************************************************)
EXTENDS MinHeap, Integers, FiniteSets

CONSTANTS Client,
          Pool,
          Method,
          Candidates,     \* method -> the pools that support it, in order
          MaxClients,     \* maxClientsPerConnection
          MinConnections, \* kept by sweep, opened by start
          MaxConnections, \* maxConnections
          Slots,          \* bound: connection objects of one pool at a time
          None

Conn == Pool \X (1..Slots)

ASSUME PoolAssumption ==
  /\ IsFiniteSet(Client)
  /\ Candidates \in [Method -> Seq(Pool)]
  /\ {MaxClients, MinConnections, MaxConnections, Slots} \subseteq Nat \ {0}
  /\ MinConnections <= MaxConnections /\ MaxConnections <= Slots
  /\ None \notin Conn

VARIABLES
  heap,     \* of each pool
  count,    \* _clients of each connection
  link,     \* its websocket, or the timer that will make one
  stopped,  \* connections that were stopped
  rested,   \* connections whose lastUsed is older than idleCloseMs
  assigned, \* clientUpstream
  closed,   \* clients that are gone
  turn,     \* lastPoolIndex + 1
  running,  \* until shutdown
  starters, \* history: connections opened by start(), counted once for nobody
  stale,    \* history: connections whose counter was reset and not sifted since
  mixed     \* history: pools where another connection was sifted before those

conns == <<heap, count, link, stopped, rested>>
history == <<starters, stale, mixed>>
vars == <<conns, assigned, closed, turn, running, history>>

Of(p) == {c \in Conn : c[1] = p}
Holders(c) == {cl \in Client : assigned[cl] = c}

TypeOK ==
  /\ heap \in [Pool -> Seq(Conn)]
  /\ count \in [Conn -> 0..(Cardinality(Client) + 1)]
  /\ link \in [Conn -> {"absent", "connecting", "up", "waiting", "closed"}]
  /\ stopped \subseteq Conn
  /\ rested \subseteq Conn
  /\ assigned \in [Client -> Conn \cup {None}]
  /\ closed \subseteq Client
  /\ turn \in Nat
  /\ running \in BOOLEAN
  /\ starters \subseteq Conn
  /\ stale \subseteq Conn
  /\ mixed \subseteq Pool

\* start(): each connection is pushed with no clients, then counts one.
StartHeap(p) ==
  LET grown[n \in 0..MinConnections] ==
        IF n = 0 THEN <<>>
        ELSE Push([c \in Conn |-> IF c = <<p, n>> THEN 0 ELSE 1], grown[n - 1], <<p, n>>)
  IN grown[MinConnections]

Init ==
  /\ starters = Pool \X (1..MinConnections)
  /\ heap = [p \in Pool |-> StartHeap(p)]
  /\ count = [c \in Conn |-> IF c \in starters THEN 1 ELSE 0]
  /\ link = [c \in Conn |-> IF c \in starters THEN "connecting" ELSE "absent"]
  /\ stopped = {} /\ rested = {} /\ closed = {} /\ stale = {} /\ mixed = {}
  /\ assigned = [cl \in Client |-> None]
  /\ turn = 0 /\ running = TRUE

-----------------------------------------------------------------------------
\* isReady() of a server: stop() closes the websocket at once.
Ready(c) == c # None /\ link[c] = "up"

\* Bugs: the counter keeps a client that left; the heap is not
\* told.
Released_NotCounted(c) == count
HeapsAfterRelease_NoUpdate(c) == heap

\* release(): the counters and heaps without one client of c.
Released(c) ==
  IF c = None THEN count
  ELSE [count EXCEPT ![c] = IF @ = 0 THEN 0 ELSE @ - 1]
HeapsAfterRelease(c) ==
  IF c = None THEN heap ELSE [heap EXCEPT ![c[1]] = Update(Released(c), @, c)]

\* The pool of c, if c is sifted in it while another counter of S in its heap is not.
Mixed(c, S) == {p \in Pool : c \in Of(p) /\ (S \cap Of(p)) \ {c} # {}}

\* A slot for createUpstreamServer.
Free(p) == {c \in Of(p) : link[c] \in {"absent", "closed"} /\ Holders(c) = {}}
Fresh(p) == CHOOSE c \in Free(p) : \A d \in Free(p) : c[2] <= d[2]

MayGrow(h) == Len(h) < MaxConnections

\* Bug: a connection at its limit is taken to have room.
Wants_OffByOne(n, h) == h = <<>> \/ n[h[1]] > MaxClients
Wants(n, h) == h = <<>> \/ n[h[1]] >= MaxClients

\* acquireServerConnection() of a pool with counters n and heap h: the connection on
\* top, a new one if that is full, or the full one after all.
Reuse(p, n, hs, c) ==
  LET key == [n EXCEPT ![c] = @ + 1]
  IN /\ hs[p] # <<>> /\ c = hs[p][1]
     /\ ~(Wants(n, hs[p]) /\ MayGrow(hs[p]))
     /\ count' = key
     /\ heap' = [hs EXCEPT ![p] = Update(key, @, c)]
     /\ UNCHANGED <<link, stopped, starters>>
Grow(p, n, hs, c) ==
  LET zero == [n EXCEPT ![c] = 0]
      key == [n EXCEPT ![c] = 1]
  IN /\ Wants(n, hs[p]) /\ MayGrow(hs[p])
     /\ Free(p) # {} /\ c = Fresh(p)
     /\ count' = key
     /\ heap' = [hs EXCEPT ![p] = Update(key, Push(zero, @, c), c)]
     /\ link' = [link EXCEPT ![c] = "connecting"]
     /\ stopped' = stopped \ {c}
     /\ starters' = starters \ {c}

\* Bug: a client is moved although its connection is up.
Moves_Always(cl) == TRUE
Moves(cl) == ~Ready(assigned[cl])

\* resolveUpstream() for a message of a client that has no connection, or one that
\* is not ready: let go of that and take the next pool in turn.
ResolveUpstream(cl, m) ==
  LET old == assigned[cl]
      p == Candidates[m][(turn % Len(Candidates[m])) + 1]
  IN /\ running /\ cl \notin closed /\ Moves(cl)
     /\ Candidates[m] # <<>>
     /\ turn' = (turn % Len(Candidates[m])) + 1
     /\ \E c \in Of(p) :
          /\ \/ Reuse(p, Released(old), HeapsAfterRelease(old), c)
             \/ Grow(p, Released(old), HeapsAfterRelease(old), c)
          /\ assigned' = [assigned EXCEPT ![cl] = c]
          /\ rested' = rested \ {old, c}
          /\ stale' = stale \ {old, c}
          /\ mixed' = mixed \cup Mixed(old, stale) \cup Mixed(c, stale \ {old})
     /\ UNCHANGED <<closed, running>>

\* A client leaves its connection: it closed, or it asked for a method that no
\* upstream has, while its connection was not ready, and is closed for that.
Disconnect(cl) ==
  LET old == assigned[cl]
  IN /\ running /\ cl \notin closed
     /\ count' = Released(old)
     /\ heap' = HeapsAfterRelease(old)
     /\ assigned' = [assigned EXCEPT ![cl] = None]
     /\ closed' = closed \cup {cl}
     /\ rested' = rested \ {old}
     /\ stale' = stale \ {old}
     /\ mixed' = mixed \cup Mixed(old, stale)
     /\ UNCHANGED <<link, stopped, turn, running, starters>>
Unavailable(cl, m) == Moves(cl) /\ Candidates[m] = <<>> /\ Disconnect(cl)

-----------------------------------------------------------------------------
\* The websocket of a connection opens.
LinkUp(c) ==
  /\ link[c] = "connecting"
  /\ link' = [link EXCEPT ![c] = "up"]
  /\ UNCHANGED <<heap, count, stopped, rested, assigned, closed, turn, running, history>>

\* It closes or cannot open: cleanup() of a running server forgets its clients,
\* which stay assigned to it, and the heap is not told.
LinkDown(c) ==
  /\ link[c] \in {"connecting", "up"}
  /\ IF c \in stopped
     THEN /\ link' = [link EXCEPT ![c] = "closed"]
          /\ UNCHANGED <<count, stale>>
     ELSE /\ link' = [link EXCEPT ![c] = "waiting"]
          /\ count' = [count EXCEPT ![c] = 0]
          /\ stale' = stale \cup {c}
  /\ UNCHANGED <<heap, stopped, rested, assigned, closed, turn, running, starters, mixed>>

\* Its reconnect timer fires.
Redial(c) ==
  /\ link[c] = "waiting"
  /\ link' = [link EXCEPT ![c] = "connecting"]
  /\ UNCHANGED <<heap, count, stopped, rested, assigned, closed, turn, running, history>>

\* idleCloseMs passed since a client came to the connection or left it; it matters
\* once the connection counts no clients.
Rest(c) ==
  /\ Holds(heap[c[1]], c) /\ count[c] = 0
  /\ rested' = rested \cup {c}
  /\ UNCHANGED <<heap, count, link, stopped, assigned, closed, turn, running, history>>

\* stop() of servers S: one that is still connecting is not closed.
LinksAfterStop(S) ==
  [c \in Conn |-> IF c \in S /\ link[c] # "connecting" THEN "closed" ELSE link[c]]
CountsAfterStop(S) == [c \in Conn |-> IF c \in S THEN 0 ELSE count[c]]

\* Bug: one connection more than the minimum is kept.
Idle_OffByOne(c, h) == count[c] = 0 /\ c \in rested /\ Len(h) > MinConnections + 1
Idle(c, h) == count[c] = 0 /\ c \in rested /\ Len(h) > MinConnections

\* sweep() walks the heap array while it takes idle connections out of it: whatever
\* moves into their place is passed over.  A connection of left is released by clients
\* that stop() closes, and sifted for that, before it goes.  One turn of the loop, of what
\* it has taken out and the heap it left; and all of them.
Visit(i, left) ==
  [s \in (SUBSET Conn) \X Seq(Conn) |->
     LET h == s[2]
         c == h[i]
         sifted == IF c \in left THEN Update(count, h, c) ELSE h
     IN IF i <= Len(h) /\ Idle(c, h) THEN <<s[1] \cup {c}, Remove(count, sifted, c)>> ELSE s]
Swept(p, left) ==
  LET walk[i \in 0..Len(heap[p])] ==
        IF i = 0 THEN <<{}, heap[p]>> ELSE Visit(i, left)[walk[i - 1]]
  IN walk[Len(heap[p])]

\* A swept connection may have clients, forgotten by cleanup(): the ones that follow
\* something on it are closed by the abort in stop(), and leave it.
SweepClosing(p, gone) ==
  LET left == {assigned[cl] : cl \in gone}
      out == Swept(p, left)[1]
  IN /\ running /\ out # {} /\ left \subseteq out
     /\ heap' = [heap EXCEPT ![p] = Swept(p, left)[2]]
     /\ count' = CountsAfterStop(out)
     /\ link' = LinksAfterStop(out)
     /\ stopped' = stopped \cup out
     /\ rested' = rested \ out
     /\ stale' = stale \ out
     /\ mixed' = mixed \cup UNION {Mixed(c, stale) : c \in out}
     /\ assigned' = [cl \in Client |-> IF cl \in gone THEN None ELSE assigned[cl]]
     /\ closed' = closed \cup gone
     /\ UNCHANGED <<turn, running, starters>>
Sweep(p) == \E gone \in SUBSET {cl \in Client : Ready(assigned[cl])} : SweepClosing(p, gone)

\* shutdown: the registry stops every pool, then every client is closed.
Shutdown ==
  LET all == {c \in Conn : Holds(heap[c[1]], c)}
  IN /\ running
     /\ running' = FALSE
     /\ heap' = [p \in Pool |-> <<>>]
     /\ count' = [c \in Conn |-> 0]
     /\ link' = LinksAfterStop(all)
     /\ stopped' = stopped \cup all
     /\ rested' = {} /\ stale' = {}
     /\ assigned' = [cl \in Client |-> None]
     /\ closed' = Client
  /\ UNCHANGED <<turn, starters, mixed>>

Next ==
  \/ \E cl \in Client :
       Disconnect(cl) \/ \E m \in Method : ResolveUpstream(cl, m) \/ Unavailable(cl, m)
  \/ \E c \in Conn : LinkUp(c) \/ LinkDown(c) \/ Redial(c) \/ Rest(c)
  \/ \E p \in Pool : Sweep(p)
  \/ Shutdown

\* Time passes and the sweep interval fires.
Fairness == (\A c \in Conn : WF_vars(Rest(c))) /\ (\A p \in Pool : WF_vars(Sweep(p)))

Spec == Init /\ [][Next]_vars /\ Fairness

-----------------------------------------------------------------------------
\* The heap of a pool holds its running connections, each one once, although sweep
\* takes them out while it walks the array.
HeapIsPool ==
  \A p \in Pool :
    /\ \A i, j \in 1..Len(heap[p]) : heap[p][i] = heap[p][j] => i = j
    /\ \A c \in Of(p) :
         Holds(heap[p], c) <=> c \notin stopped /\ link[c] \notin {"absent", "closed"}

\* A pool never has more connections than it may, and keeps its minimum.
SizeInBounds ==
  running => \A p \in Pool : Len(heap[p]) \in MinConnections..MaxConnections

\* The least loaded connection is on top, also once a counter that a lost link reset has
\* been sifted, unless another connection of the pool was before.
LeastOnTop ==
  \A p \in Pool \ mixed : stale \cap Of(p) = {} => Ordered(count, heap[p])

\* The heap of a pool is a heap of the right connections, of which there are as many as
\* there may be.
PoolSound == TypeOK /\ HeapIsPool /\ SizeInBounds /\ LeastOnTop

\* The operations of the heap restore it, on every heap of up to one item more than a pool
\* has, with keys of up to one more than a connection's limit.  A property of the operators
\* alone, so it is enough to evaluate it in the initial state.
HeapRestored == Init => AllRestored(Slots + 1, MaxClients + 1)

\* A counter never exceeds the clients that use the connection (and the one that
\* start() counts for nobody): no way of leaving forgets to count down.
NeverOvercounted ==
  \A c \in Conn :
    count[c] <= Cardinality(Holders(c)) + (IF c \in starters THEN 1 ELSE 0)

\* A client keeps its connection as long as that is ready.
Sticky ==
  [][\A cl \in Client \ closed' :
       assigned'[cl] # assigned[cl] => ~Ready(assigned[cl])]_vars

\* A connection at its limit gets another client only when no counter in the pool
\* is below it, and no connection may be added; but for the heaps LeastOnTop leaves out.
OverloadIsLast ==
  [][\A cl \in Client : LET c == assigned'[cl] IN
       c # assigned[cl] /\ c # None /\ count'[c] > MaxClients =>
         /\ Len(heap[c[1]]) = MaxConnections
         /\ \/ stale \cap Of(c[1]) # {} \/ c[1] \in mixed'
            \/ \A d \in Of(c[1]) : Holds(heap[c[1]], d) => count'[d] >= MaxClients]_vars

\* When the last client is gone, the pools shrink to their minimum.
Shrinks ==
  closed = Client ~> \A p \in Pool : Len(heap[p]) <= MinConnections
=============================================================================
