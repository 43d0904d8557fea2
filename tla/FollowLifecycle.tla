--------------------------- MODULE FollowLifecycle ---------------------------
(***************************************************************************)
(* The life of chainHead_v1_follow on one upstream server: the handler of   *)
(* follow.ts and unfollow.ts, the pools of shared subscriptions of          *)
(* upstream/shared.ts, the teardown of state/index.ts, and the              *)
(* unsubscribers of upstream/server.ts that tie them together.              *)
(*                                                                         *)
(* One step is one turn of the event loop: an event and the promise         *)
(* continuations it makes runnable, which finish before the next event.     *)
(* Two things are steps of their own: handing a follow to one request       *)
(* (assignToDownstream), and one task of the micro-scheduler; both come     *)
(* before the next event (the guard Idle).                                  *)
(*                                                                         *)
(* A shared subscription and a pool are named by the request that created   *)
(* them.  A local id is the pair <<client, shared subscription>>.           *)
(* Left to other modules: the events of a follow and their snapshot, pinned *)
(* blocks, request ids and timeouts.                                        *)
(***************************************************************************)
EXTENDS Naturals, Sequences, FiniteSets

CONSTANTS Client,     \* downstream clients
          Request,    \* the follow requests they send
          Owner,      \* the client that sends each request
          MaxFollows, \* chainHead_v1_follow.max_subscribers
          MaxWaiting, \* maxClientsPerConnection, the waiters of one creation
          None

ASSUME FollowAssumption ==
  /\ IsFiniteSet(Request)
  /\ Owner \in [Request -> Client]
  /\ MaxFollows \in Nat
  /\ MaxWaiting \in Nat
  /\ None \notin Request

VARIABLES
  conn,        \* the upstream connection: up, down, or stopped for good
  open,        \* clients whose websocket is open
  status,      \* how far each follow request got
  flight,      \* the follow being created: what createFn captured
  grants,      \* results on their way to the requests that awaited them
  tasks,       \* micro-scheduler queue: subscribeLocal calls to run
  scheduled,   \* rqScheduled: flushTaskQueue is due
  limitReached,\* followLimitReached has this upstream
  group,       \* the pool `groups` holds for the method, or None
  pool, key,   \* pool and follow key of each shared subscription
  rank,        \* its place in its pool's `subscriptions`; 0 when not there
  least,       \* leastLoaded of each pool
  locals,      \* localSubs of each shared subscription
  phase,       \* what became of each shared subscription
  releasing,   \* unfollow sent, its answer (then a second release) to come
  index,       \* localIdIndex of the pools: local ids found by getByLocalId
  unsubs,      \* the server's unsubscribers
  closeFns,    \* subscriptions a client leaves when its websocket closes
  alive,       \* follows the node serves on this connection
  manager,     \* the StateManager of each shared subscription, by the request it
               \* was made for; None when its connection is gone
  managers,    \* the StateManagers that stateManagers finds, under their keys
  forsaken,    \* history: follows of the node nobody will unfollow
  purged       \* history: follows that lost their last client while the load of
               \* their pool was computed

clients == <<open, status, closeFns>>
queue == <<grants, tasks, scheduled>>
pools == <<group, pool, key, rank, least>>
subs == <<locals, phase, index, manager, managers>>
server == <<conn, unsubs, limitReached>>
node == <<alive, releasing, forsaken, purged>>
vars == <<clients, flight, queue, pools, subs, server, node>>

MaybeRequest == Request \cup {None}
Flight == [creator : MaybeRequest, waiters : Seq(Request), pool : MaybeRequest,
           key : Nat, selected : MaybeRequest, lost : BOOLEAN]
NoFlight == [creator |-> None, waiters |-> <<>>, pool |-> None,
             key |-> 0, selected |-> None, lost |-> FALSE]

TypeOK ==
  /\ conn \in {"up", "down", "stopped"}
  /\ open \subseteq Client
  /\ status \in [Request -> {"new", "waiting", "granted", "denied", "ignored"}]
  /\ flight \in Flight
  /\ grants \in Seq(Request \X Request)
  /\ tasks \in Seq(Client \X Request)
  /\ scheduled \in BOOLEAN
  /\ limitReached \in BOOLEAN
  /\ group \in MaybeRequest
  /\ pool \in [Request -> MaybeRequest]
  /\ key \in [Request -> Nat]
  /\ rank \in [Request -> Nat]
  /\ least \in [Request -> MaybeRequest]
  /\ locals \in [Request -> SUBSET Client]
  /\ phase \in [Request -> {"absent", "live", "stopped", "destroyed"}]
  /\ releasing \subseteq Request
  /\ index \subseteq Client \X Request
  /\ unsubs \subseteq Client \X Request
  /\ closeFns \in [Client -> SUBSET Request]
  /\ alive \subseteq Request
  /\ manager \in [Request -> MaybeRequest]
  /\ managers \subseteq Request
  /\ forsaken \subseteq Request
  /\ purged \subseteq Request

Init ==
  /\ conn = "up"
  /\ open = Client
  /\ status = [r \in Request |-> "new"]
  /\ flight = NoFlight
  /\ grants = <<>> /\ tasks = <<>> /\ scheduled = FALSE
  /\ limitReached = FALSE
  /\ group = None
  /\ pool = [u \in Request |-> None]
  /\ key = [u \in Request |-> 0]
  /\ rank = [u \in Request |-> 0]
  /\ least = [p \in Request |-> None]
  /\ locals = [u \in Request |-> {}]
  /\ phase = [u \in Request |-> "absent"]
  /\ releasing = {}
  /\ index = {}
  /\ unsubs = {}
  /\ closeFns = [c \in Client |-> {}]
  /\ alive = {}
  /\ manager = [u \in Request |-> None]
  /\ managers = {}
  /\ forsaken = {} /\ purged = {}

-----------------------------------------------------------------------------
\* No continuation or task is left to run: the event loop takes an event.
Idle == grants = <<>> /\ ~scheduled

\* The entries of a pool's `subscriptions`, and the entry under one key.
Listed(p) == {u \in Request : rank[u] > 0 /\ pool[u] = p}
Slot(p, k) == {u \in Listed(p) : key[u] = k}

\* The first entry with the fewest local subscribers, as the three loops of
\* shared.ts compute it.
NoHeavier(u, v) ==
  \/ Cardinality(locals[u]) < Cardinality(locals[v])
  \/ Cardinality(locals[u]) = Cardinality(locals[v]) /\ rank[u] <= rank[v]
LeastLoaded(S) ==
  LET best == {u \in S : \A v \in S : NoHeavier(u, v)}
  IN IF best = {} THEN None ELSE CHOOSE u \in best : TRUE
Least(p) == LeastLoaded(Listed(p))

\* Bug: a follow whose stream has stopped is never destroyed.
Emptied_LiveOnly(L) ==
  {u \in Request : /\ phase[u] = "live"
                   /\ locals[u] \subseteq {c \in Client : <<c, u>> \in L}
                   /\ \E c \in Client : <<c, u>> \in L}

\* Local ids in L unsubscribe: what each subscription has left, and the ones
\* left with nobody, whose doDestroy runs.
Left(L) == [u \in Request |-> locals[u] \ {c \in Client : <<c, u>> \in L}]
Emptied(L) ==
  {u \in Request : /\ phase[u] \in {"live", "stopped"}
                   /\ Left(L)[u] = {}
                   /\ \E c \in Client : <<c, u>> \in L}
\* pool.release(followKey) takes whatever entry is now under the key.
Evicted(ended) ==
  {v \in Request : \E u \in ended : v \in Slot(pool[u], key[u])} \ ended

\* Bug: release() unsubscribes the entry under the key but leaves it in the pool.
Discard_Keeps(left, ended, evicted) ==
  LET out == ended \cup evicted
  IN /\ locals' = [u \in Request |-> IF u \in out THEN {} ELSE left[u]]
     /\ rank' = [u \in Request |-> IF u \in ended THEN 0 ELSE rank[u]]
     /\ UNCHANGED <<pool, key>>

\* `left` is what unsubscribing left; `ended` subscriptions are destroyed and
\* `evicted` ones leave the pool: release unsubscribes their locals, which
\* destroys them, unless nobody had subscribed yet.
Discard(left, ended, evicted) ==
  LET out == ended \cup evicted
  IN /\ locals' = [u \in Request |-> IF u \in out THEN {} ELSE left[u]]
     /\ rank' = [u \in Request |-> IF u \in out THEN 0 ELSE rank[u]]
     /\ UNCHANGED <<pool, key>>
PhaseAfter(left, ended, evicted) ==
  [u \in Request |->
     IF u \in ended \/ (u \in evicted /\ left[u] # {})
     THEN "destroyed" ELSE phase[u]]

\* Bugs: the registries keep local ids released with their follow; no unfollow.
Gone_Kept == {}
Dropped_Silently == {}

\* Local ids that left a subscription in this step; each of them, like each one
\* asked to, also leaves the pool's index and the server's unsubscribers.
Gone == {e \in Client \X Request : e[1] \in locals[e[2]] \ locals'[e[2]]}

\* Subscriptions destroyed in this step whose cleanup asks the node to unfollow.
Dropped == {u \in Request : phase[u] = "live" /\ phase'[u] = "destroyed"}
Unfollowing(S) ==
  /\ alive' = alive \ S
  /\ releasing' = IF conn = "up" THEN releasing \cup S ELSE releasing

\* Bug: a follow the watchdog gives up keeps its manager, for the "full restart".
CleanedUp_NotSilent == {u \in Dropped : u \notin alive'}

\* cleanup() runs once, when a follow stops or is destroyed, and deletes whatever
\* manager is under its key.
CleanedUp == {u \in Request : phase[u] = "live" /\ phase'[u] # "live"}
Forget ==
  /\ managers' = {m \in managers :
       \A u \in CleanedUp : manager[u] # None => key[u] # key[m]}
  /\ UNCHANGED manager

\* release() of the last entry of a pool deletes the method's entry of `groups`,
\* whichever pool that is by then.
GroupAfter(released) ==
  IF \E p \in released : Listed(p)' = {} THEN None ELSE group

\* Bug: leastLoaded is computed before the entry leaves the pool, as if the two lines of
\* release() were swapped.
LeastAfter_TooSoon(touched) ==
  [p \in Request |-> IF p \in touched THEN Least(p) ELSE least[p]]

LeastAfter(touched) ==
  [p \in Request |-> IF p \in touched THEN Least(p)' ELSE least[p]]

\* Local ids L unsubscribe together.
Leave(L) ==
  LET ended == Emptied(L)
  IN /\ Discard(Left(L), ended, Evicted(ended))
     /\ phase' = PhaseAfter(Left(L), ended, Evicted(ended))
     /\ index' = index \ (L \cup Gone)
     /\ Unfollowing(Dropped)
     /\ Forget
     /\ group' = GroupAfter({pool[u] : u \in ended})
     /\ least' = LeastAfter({pool[e[2]] : e \in L})

-----------------------------------------------------------------------------
\* getOrCreate of the group: the pool of this request.
PoolFor(r) == IF group = None THEN r ELSE group

\* Bug: room is left for one follow more than max_subscribers.
Reuse_OffByOne(p) ==
  IF least[p] # None
     /\ \/ limitReached
        \/ locals[least[p]] = {}
        \/ Cardinality(Listed(p)) > MaxFollows
  THEN least[p] ELSE None

\* The entry a request reuses without asking the node.
Reuse(p) ==
  IF least[p] # None
     /\ \/ limitReached
        \/ locals[least[p]] = {}
        \/ Cardinality(Listed(p)) >= MaxFollows
  THEN least[p] ELSE None

\* A follow request that finds no creation in flight: hand out an existing
\* follow, or ask the node for a new one.  Key, pool and fallback are read now
\* and used when the answer comes.
StartFollow(r) ==
  /\ Idle /\ conn = "up"
  /\ Owner[r] \in open /\ status[r] = "new"
  /\ flight.creator = None
  /\ LET p == PoolFor(r)
     IN /\ group' = p
        /\ limitReached' = (limitReached /\ least[p] # None)
        /\ \/ /\ Reuse(p) # None
              /\ grants' = <<<<r, Reuse(p)>>>>
              /\ UNCHANGED flight
           \/ /\ Reuse(p) = None
              /\ flight' = [creator |-> r, waiters |-> <<>>, pool |-> p,
                            key |-> Cardinality(Listed(p)),
                            selected |-> least[p], lost |-> FALSE]
              /\ UNCHANGED grants
  /\ status' = [status EXCEPT ![r] = "waiting"]
  /\ UNCHANGED <<open, closeFns, tasks, scheduled, pool, key, rank, least>>
  /\ UNCHANGED <<subs, conn, unsubs, node>>

\* A follow request while one is being created: wait for it, or be refused
\* with -32800 when too many wait.
JoinFollow(r) ==
  /\ Idle /\ conn = "up"
  /\ Owner[r] \in open /\ status[r] = "new"
  /\ flight.creator # None
  /\ group' = PoolFor(r)
  /\ IF Len(flight.waiters) + 1 >= MaxWaiting
     THEN /\ status' = [status EXCEPT ![r] = "denied"]
          /\ UNCHANGED flight
     ELSE /\ status' = [status EXCEPT ![r] = "waiting"]
          /\ flight' = [flight EXCEPT !.waiters = Append(@, r)]
  /\ UNCHANGED <<open, closeFns, queue, pool, key, rank, least, subs, server, node>>

Participants == <<flight.creator>> \o flight.waiters
HandOut(u) == grants' = [i \in 1..Len(Participants) |-> <<Participants[i], u>>]
Refuse ==
  status' = [r \in Request |->
    IF \E i \in 1..Len(Participants) : Participants[i] = r
    THEN "denied" ELSE status[r]]

\* createSharedSubscription of state/index.ts: a manager that is under the key already
\* is the new follow's, too.
Manager(u, k) ==
  LET found == {m \in managers : key[m] = k}
  IN IF found = {} THEN u ELSE CHOOSE m \in found : TRUE

\* The node answers with a subscription id: createSharedSubscription puts it
\* under its key, over whatever is there by now.
CreateOk ==
  LET u == flight.creator
      p == flight.pool
      old == Slot(p, flight.key)
  IN /\ Idle /\ tasks = <<>> /\ conn = "up"
     /\ u # None /\ ~flight.lost
     /\ pool' = [pool EXCEPT ![u] = p]
     /\ key' = [key EXCEPT ![u] = flight.key]
     /\ rank' = [v \in Request |->
          IF v = u
          THEN IF old = {} THEN 1 + Cardinality({w \in Request : phase[w] # "absent"})
               ELSE rank[CHOOSE w \in old : TRUE]
          ELSE IF v \in old THEN 0 ELSE rank[v]]
     /\ phase' = [phase EXCEPT ![u] = "live"]
     /\ alive' = alive \cup {u}
     /\ manager' = [manager EXCEPT ![u] = Manager(u, flight.key)]
     /\ managers' = managers \cup {Manager(u, flight.key)}
     /\ least' = IF least[p] = None \/ locals[least[p]] # {}
                 THEN [least EXCEPT ![p] = u] ELSE least
     /\ limitReached' = FALSE
     /\ HandOut(u)
     /\ flight' = NoFlight
     /\ UNCHANGED <<clients, tasks, scheduled, group, locals, index, conn>>
     /\ UNCHANGED <<unsubs, releasing, forsaken, purged>>

\* The node answers -32800: fall back on the entry selected before the request,
\* or refuse everybody.
CreateLimit ==
  /\ Idle /\ tasks = <<>> /\ conn = "up"
  /\ flight.creator # None /\ ~flight.lost
  /\ limitReached' = TRUE
  /\ IF flight.selected # None
     THEN HandOut(flight.selected) /\ UNCHANGED status
     ELSE Refuse /\ UNCHANGED grants
  /\ flight' = NoFlight
  /\ UNCHANGED <<open, closeFns, tasks, scheduled, pools, subs, conn, unsubs, node>>

\* Bug: a request lost with its connection never times out.
CreateFail_NotLost ==
  /\ Idle
  /\ flight.creator # None /\ ~flight.lost
  /\ Refuse
  /\ flight' = NoFlight
  /\ UNCHANGED <<open, closeFns, queue, pools, subs, server, node>>

\* Another error, or the request times out: everybody gets an error.
CreateFail ==
  /\ Idle
  /\ flight.creator # None
  /\ Refuse
  /\ flight' = NoFlight
  /\ UNCHANGED <<open, closeFns, queue, pools, subs, server, node>>

\* The request times out and the node follows all the same: its answer is taken for a
\* notification, and nobody knows of the follow.
CreateLate ==
  /\ Idle /\ conn = "up"
  /\ flight.creator # None /\ ~flight.lost
  /\ Refuse
  /\ alive' = alive \cup {flight.creator}
  /\ forsaken' = forsaken \cup {flight.creator}
  /\ flight' = NoFlight
  /\ UNCHANGED <<open, closeFns, queue, pools, subs, server, releasing, purged>>

\* assignToDownstream: a client that is already on the follow gets no answer.
Assign ==
  /\ grants # <<>>
  /\ grants' = Tail(grants)
  /\ LET r == Head(grants)[1]
         u == Head(grants)[2]
     IN IF Owner[r] \in locals[u]
        THEN /\ status' = [status EXCEPT ![r] = "ignored"]
             /\ UNCHANGED <<tasks, scheduled>>
        ELSE /\ status' = [status EXCEPT ![r] = "granted"]
             /\ tasks' = Append(tasks, <<Owner[r], u>>)
             /\ scheduled' = TRUE
  /\ UNCHANGED <<open, closeFns, flight, pools, subs, server, node>>

-----------------------------------------------------------------------------
\* flushTaskQueue runs one queued subscribeLocal.
NextTask(c, u) == /\ grants = <<>> /\ scheduled
                  /\ tasks # <<>> /\ Head(tasks) = <<c, u>>
                  /\ tasks' = Tail(tasks)

\* The flush ends when the ring is empty.
FlushDone ==
  /\ grants = <<>> /\ scheduled /\ tasks = <<>>
  /\ scheduled' = FALSE
  /\ UNCHANGED <<clients, flight, grants, tasks, pools, subs, server, node>>

\* Any other user of the micro-scheduler makes it flush what a throwing task
\* left in the ring.
Flush ==
  /\ Idle /\ tasks # <<>>
  /\ scheduled' = TRUE
  /\ UNCHANGED <<clients, flight, grants, tasks, pools, subs, server, node>>

\* The client is still connected and not yet a local of the follow.
Joins(c, u) == c \in open /\ c \notin locals[u]

\* subscribeLocal of a connected client, then setUnsubscriber.
Subscribe(c, u) ==
  /\ NextTask(c, u)
  /\ Joins(c, u)
  /\ UNCHANGED <<group, pool, key, rank>>
  /\ locals' = [locals EXCEPT ![u] = @ \cup {c}]
  /\ closeFns' = [closeFns EXCEPT ![c] = @ \cup {u}]
  /\ index' = index \cup {<<c, u>>}
  /\ unsubs' = unsubs \cup {<<c, u>>}
  /\ least' = LeastAfter({pool[u]})
  /\ UNCHANGED <<open, status, flight, grants, scheduled>>
  /\ UNCHANGED <<phase, manager, managers, conn, limitReached, node>>

\* subscribeLocal throws on a local id that exists: the flush is abandoned and
\* the tasks behind it stay in the ring.
SubscribeTwice(c, u) ==
  /\ NextTask(c, u)
  /\ c \in locals[u]
  /\ scheduled' = FALSE
  /\ UNCHANGED <<clients, flight, grants, pools, subs, server, node>>

\* The client closed since: the entry is purged while the load of the pool is
\* computed.  A subscription emptied this way is still `leastLoaded` when that
\* loop ends, unless it was alone.  The unsubscriber is set after all that.
SubscribeClosed(c, u) ==
  /\ NextTask(c, u)
  /\ c \notin open /\ c \notin locals[u]
  /\ LET L == {<<c, u>>}
         ended == Emptied(L)
         looped == ended # {} /\ rank[u] > 0 /\ conn = "up" /\ Listed(pool[u]) # {u}
     IN /\ Discard(locals, ended, Evicted(ended))
        /\ phase' = PhaseAfter(locals, ended, Evicted(ended))
        /\ index' = index \ (L \cup Gone)
        /\ unsubs' = (unsubs \ Gone) \cup L
        /\ Unfollowing(Dropped)
        /\ Forget
        /\ purged' = IF looped THEN purged \cup {u} ELSE purged
        /\ group' = GroupAfter({pool[w] : w \in ended})
        /\ least' = IF looped THEN [least EXCEPT ![pool[u]] = Least(pool[u])]
                    ELSE LeastAfter({pool[u]})
  /\ UNCHANGED <<clients, flight, grants, scheduled, conn, limitReached, forsaken>>

-----------------------------------------------------------------------------
\* chainHead_v1_unfollow with a local id the server knows.
Unfollow(c, u) ==
  /\ Idle
  /\ c \in open /\ <<c, u>> \in unsubs
  /\ Leave({<<c, u>>})
  /\ unsubs' = unsubs \ ({<<c, u>>} \cup Gone)
  /\ limitReached' = (limitReached /\ locals'[u] # {})
  /\ UNCHANGED <<clients, flight, queue, conn, forsaken, purged>>

\* A client's websocket closes: onClose runs every close function it has.
Close(c) ==
  /\ Idle
  /\ c \in open
  /\ open' = open \ {c}
  /\ LET L == {<<c, u>> : u \in closeFns[c]}
     IN Leave(L) /\ unsubs' = unsubs \ (L \cup Gone)
  /\ UNCHANGED <<status, closeFns, flight, queue, conn, limitReached, forsaken, purged>>

\* pool.release(followKey): the entry now under the key leaves the pool.
ReleaseSlot(p, k) ==
  LET held == Slot(p, k)
  IN /\ Discard(locals, {}, held)
     /\ index' = index \ Gone
     /\ unsubs' = unsubs \ Gone
     /\ group' = GroupAfter({p})
     /\ least' = IF \/ \E v \in held : locals[v] # {}
                    \/ least[p] # None /\ key[least[p]] = k
                 THEN LeastAfter({p}) ELSE least

\* The answer to an unfollow, or its timeout: doDestroy goes on and releases the
\* follow key a second time.
UnfollowSettled(u) ==
  /\ Idle /\ conn # "stopped"
  /\ u \in releasing
  /\ ReleaseSlot(pool[u], key[u])
  /\ phase' = PhaseAfter(locals, {}, Slot(pool[u], key[u]))
  /\ alive' = alive \ Dropped
  /\ releasing' = (releasing \ {u}) \cup (IF conn = "up" THEN Dropped ELSE {})
  /\ Forget
  /\ UNCHANGED <<clients, flight, queue, conn, limitReached, forsaken, purged>>

\* The node ends a follow (stop event), or none of its events came for a minute
\* (watchdog): its own cleanup does not ask the node to unfollow.  If its key is
\* another follow's by now, that one goes and this one keeps its subscribers.
StreamEnds(u, byNode) ==
  /\ Idle /\ conn # "stopped"
  /\ phase[u] = "live"
  /\ byNode => u \in alive
  /\ ReleaseSlot(pool[u], key[u])
  /\ phase' = [PhaseAfter(locals, {}, Slot(pool[u], key[u])) EXCEPT
                 ![u] = IF @ = "destroyed" THEN @ ELSE "stopped"]
  /\ alive' = (alive \ (Dropped \ {u})) \ (IF byNode THEN {u} ELSE {})
  /\ releasing' = releasing \cup (IF conn = "up" THEN Dropped \ {u} ELSE {})
  /\ forsaken' = IF byNode THEN forsaken ELSE forsaken \cup {u}
  /\ Forget
  /\ UNCHANGED <<clients, flight, queue, conn, limitReached, purged>>

-----------------------------------------------------------------------------
\* abort() of the group: the subscriptions its pool lists.
Aborted == IF group = None THEN {} ELSE Listed(group)

\* The upstream connection closes: cleanup() calls every unsubscriber, then
\* aborts what the group still lists.
Disconnect ==
  /\ Idle /\ conn = "up"
  /\ conn' = "down"
  /\ LET ended == Emptied(unsubs) \cup Aborted
     IN /\ Discard(Left(unsubs), ended, Evicted(ended))
        /\ phase' = PhaseAfter(Left(unsubs), ended, Evicted(ended))
  /\ index' = index \ (unsubs \cup Gone)
  /\ least' = [p \in Request |->
       IF p = group THEN None ELSE LeastAfter({pool[e[2]] : e \in unsubs})[p]]
  /\ group' = None
  /\ unsubs' = {}
  /\ limitReached' = (limitReached /\ unsubs = {})
  /\ flight' = [flight EXCEPT !.lost = (flight.creator # None)]
  /\ alive' = {}
  /\ manager' = [u \in Request |-> None] /\ managers' = {}
  /\ UNCHANGED <<clients, queue, releasing, forsaken, purged>>

Reconnect ==
  /\ Idle /\ conn = "down"
  /\ conn' = "up"
  /\ UNCHANGED <<clients, flight, queue, pools, subs, unsubs, limitReached, node>>

\* stop(): the unsubscribers are only forgotten; abort() closes every client of
\* the pool in `groups`, and their close functions run inside it.
ServerStop ==
  /\ Idle /\ conn # "stopped"
  /\ conn' = "stopped"
  /\ LET closed == UNION {locals[u] : u \in Aborted}
         L == {e \in Client \X Request : e[1] \in closed /\ e[2] \in closeFns[e[1]]}
         ended == Emptied(L) \cup Aborted
     IN /\ open' = open \ closed
        /\ Discard(Left(L), ended, Evicted(ended))
        /\ phase' = PhaseAfter(Left(L), ended, Evicted(ended))
        /\ index' = index \ (L \cup Gone)
        /\ least' = [p \in Request |->
             IF p = group THEN None ELSE LeastAfter({pool[e[2]] : e \in L})[p]]
  /\ group' = None
  /\ unsubs' = {}
  /\ flight' = [flight EXCEPT !.lost = (flight.creator # None)]
  /\ alive' = {} /\ releasing' = {}
  /\ manager' = [u \in Request |-> None] /\ managers' = {}
  /\ UNCHANGED <<status, closeFns, queue, limitReached, forsaken, purged>>

-----------------------------------------------------------------------------
TaskStep ==
  \/ FlushDone
  \/ \E c \in Client, u \in Request :
       Subscribe(c, u) \/ SubscribeTwice(c, u) \/ SubscribeClosed(c, u)
Answer == CreateOk \/ CreateLimit \/ CreateFail \/ CreateLate

Next ==
  \/ \E r \in Request : StartFollow(r) \/ JoinFollow(r)
  \/ Answer \/ Assign \/ TaskStep \/ Flush
  \/ \E c \in Client : Close(c) \/ \E u \in Request : Unfollow(c, u)
  \/ \E u \in Request : UnfollowSettled(u) \/ \E b \in BOOLEAN : StreamEnds(u, b)
  \/ Disconnect \/ Reconnect \/ ServerStop

\* The event loop drains its queues, and a request to the node is answered or
\* times out.
Fairness == WF_vars(Assign) /\ WF_vars(TaskStep) /\ WF_vars(Answer)

Spec == Init /\ [][Next]_vars /\ Fairness

-----------------------------------------------------------------------------
\* A pool lists only live follows, one under each key.  This is about the entries of
\* `subscriptions`, which count against max_subscribers; leastLoaded need not be one.
SlotsSound ==
  \A u \in Request : rank[u] > 0 =>
    /\ phase[u] = "live"
    /\ \A v \in Slot(pool[u], key[u]) : v = u

\* No closed client is ever counted as a subscriber between two events, so the
\* load of a follow and the moment it is dropped are those of connected clients.
LocalsOpen == \A u \in Request : locals[u] \subseteq open

\* Whoever is subscribed leaves when its websocket closes.
CloseFnsCover ==
  \A c \in Client, u \in Request : c \in locals[u] => u \in closeFns[c]

\* A follow that is not destroyed has a subscriber or a task that brings one:
\* an upstream follow nobody listens to is always given back.
Wanted(u) ==
  \/ locals[u] # {}
  \/ \E i \in 1..Len(grants) : grants[i][2] = u
  \/ \E i \in 1..Len(tasks) : tasks[i][2] = u
NoIdleFollow == \A u \in Request : phase[u] \in {"live", "stopped"} => Wanted(u)

\* The three registries of a local id agree while the server runs: the shared
\* subscription, the index of its pool, and the server's unsubscribers.
RegistriesAgree ==
  /\ \A c \in Client, u \in Request : <<c, u>> \in index <=> c \in locals[u]
  /\ conn # "stopped" =>
       \A c \in open, u \in Request : <<c, u>> \in unsubs <=> c \in locals[u]

\* Along every way into and out of a follow, the registries agree and have only clients
\* that are there.
SubscribersSound == TypeOK /\ LocalsOpen /\ RegistriesAgree

\* max_subscribers bounds the entries of every pool, although the size is read
\* before the node is asked and the entry added when it answers.
PoolBound == \A p \in Request : Cardinality(Listed(p)) <= MaxFollows

\* What the node serves is used: somebody is on the follow or about to be.  Only a
\* follow the watchdog gave up, or one of a request that timed out, is forsaken.
NodeServesUsed ==
  \A u \in alive \ forsaken : phase[u] = "live" /\ Wanted(u)

\* A manager that a new follow may find under its key has only been fed by follows that
\* still run, so its snapshot is never that of a follow that is over.
ManagersCurrent == \A u \in Request : manager[u] \in managers => phase[u] = "live"

\* A follow that is handed out, or kept as the fallback for the limit, is one the node
\* serves at that moment.  There are two exceptions: the fallback itself may have gone
\* while the node was asked, and leastLoaded may still be a follow that lost its last
\* client while the load of its pool was computed.
HandedOut == {u \in Request : grants = <<>> /\ \E i \in 1..Len(grants') : grants'[i][2] = u}
HandsOutLive ==
  [][\A u \in HandedOut \cup ({flight'.selected} \ {None}) :
       \/ u \in alive' /\ phase'[u] = "live"
       \/ u = flight.selected \/ u \in purged]_vars

\* Every follow request that waits is answered, refused, or found to be on the
\* follow already, whatever happens to the connection.
RequestsSettle ==
  \A r \in Request : status[r] = "waiting" ~> status[r] # "waiting"
=============================================================================
