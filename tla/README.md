# A TLA+ model of wsmux

wsmux is a WebSocket proxy in front of Polkadot nodes.  Many clients speak JSON-RPC to
it; it multiplexes them over a few connections to each node, shares `chainHead`
follows between clients, and replays cached operations.  This directory models the
parts of it that are hard to test: what is shared between clients, what is read
before an `await` and used after it, and what must be cleaned up on every path.

Paths below are relative to `src/src/` of the repository unless they start with `src/`.

## 1. The system

| Component | State | Operations | Talks to |
|---|---|---|---|
| Upstream server `json-rpc/upstream/server.ts` | websocket, backoff, reconnect timer, `pending` resolvers, unsubscribers, client count | connect, onopen, onclose, request, timeout, message, waitForReady, stop | node; every handler; micro-scheduler |
| Upstream pool and registry `pool.ts`, `registry.ts` | heap of connections, last use, client → connection | start, acquire, release, sweep, stop, resolveUpstream, disconnect | server counters, min-heap |
| Shared subscriptions `shared.ts` | group of pools; per pool `subscriptions`, `localIdIndex`, `leastLoaded`; per subscription `localSubs`, aborted, destroyed | getOrCreate, acquire, release, subscribeLocal, unsubscribeLocal, abort | server unsubscribers, close functions of clients |
| chainHead follow/unfollow `polkadot/chain-head/follow.ts`, `unfollow.ts`, `state/index.ts` | `followLimitReached`, one concurrent creator per upstream | follow, unfollow, cleanup | all of the above |
| State manager `state/manager.ts`, `state/blocks.ts` | snapshot, `known`, `pending`, shared live stream | events of the node, join, teardown, watchdog | shared subscriptions |
| Pinned blocks `state/pinned.ts` | who has not unpinned which block | unpin, unsubscribe, unfollow | shared subscriptions |
| Operation cache `chain-head/ops/handler.ts`, `chain-head/forward.ts` | LRU cache of entries, per running operation its subscriptions | before request, after response, item, end | LRU cache, server notifications |
| LRU cache `util/cache/lru.ts` | map and doubly linked list | get, set, remove, clear | |
| Concurrent creator `util/concurrent-creator.ts` | `creating` map: promise and waiting count | getOrCreate | |
| Micro-scheduler `util/micro-scheduler.ts` | ring of tasks, `rqScheduled` | enqueueTask, flush | |
| Downstream client, JSON-RPC middleware `downstream/client.ts`, `protocol.ts` | close functions, pending counters, token bucket | open, message, close | registry, handlers |
| WebSocket handler, metrics, rate limiter `ws/` | open sockets, gauges, buckets per address | open, message, close, closeAll | middlewares |
| Legacy and `transactionWatch` subscriptions `polkadot/legacy`, `polkadot/common` | active counts per client | subscribe, unsubscribe | server notifications and unsubscribers |
| Forwarding handlers, header cache, configuration, presets, CLI, logging, metrics | none or constant | | |

A message of a client runs `protocol.ts`: the registry resolves a connection (sticky as
long as it is ready), the handler of the method is awaited, counters go down.  Handlers
await `server.request`, and answers come back through the micro-scheduler.
Notifications of the node go through `notification$` to whoever filters for them.
When a client closes, the registry releases its connection and its close functions
run; when a connection closes, its unsubscribers run and its group is aborted.

The program has one thread, so the hard behaviours are between events: a handler
suspended in an `await` while clients leave, connections drop and follows end; tasks that
wait in the micro-scheduler; timers that race answers; and clean-up reached along many paths.

What makes each part correct:

* **Concurrent creator**: one flight per key, everybody gets its outcome, counts are exact,
  nobody waits for ever.
* **Shared subscriptions**: pool, index and unsubscribers agree on who is subscribed; no
  closed client counts; no listed follow is dead; what is handed out is live; the node serves no
  follow for nobody.
* **State manager**: whoever joins whenever sees the chain of the node; the snapshot
  does not grow with it.
* **Server**: a request ends once, with its own answer or an error; there is always exactly
  one way back to the node.
* **Pool**: the heap is a heap of exactly the open connections; counters are never too high;
  limits hold unless every connection is full; it shrinks again.
* **LRU and operation cache**: least recent out first; what is replayed is what happened.
* **Pinned blocks**: a block is unpinned at the node when everybody has unpinned it who was told
  of it, and stays pinned only because of somebody.
* **Legacy and watch subscriptions**: the count of a client is what it is subscribed to; whoever
  listens is found by what ends it; nothing stays at the node that somebody could give back.
* **Downstream side**: pending counters return to zero on every path; limits hold however
  connections come and go; a shutdown ends.

## 2. Modules

| Module | Models | Extends / uses |
|---|---|---|
| `CreateOnce` | abstract: what a single-flight creator promises its callers | |
| `ConcurrentCreator` | `util/concurrent-creator.ts` | implements `CreateOnce` |
| `FollowLifecycle` | `follow.ts`, `unfollow.ts`, `state/index.ts`, `shared.ts`, and what they need of `server.ts`, `client.ts` and the micro-scheduler | the creator is inlined as `flight` |
| `FollowClaims` | what README and comments say of follows | `FollowLifecycle` |
| `FollowStream` | `state/manager.ts`, `state/blocks.ts` | |
| `FollowStreamClaims` | what the comments of the manager say | `FollowStream` |
| `RequestReply` | abstract: what a server promises its callers | |
| `UpstreamServer` | `server.ts` | implements `RequestReply` |
| `MinHeap` | `util/min-heap.ts`, as operators on a sequence | |
| `UpstreamPool` | `pool.ts`, `registry.ts`, shutdown | `MinHeap` |
| `Filter` | what is left of a sequence when only some items stay | |
| `Recency` | abstract: a recency order of bounded length | `Filter` |
| `LruCache` | `util/cache/lru.ts` | implements `Recency` |
| `OperationCache` | `ops/handler.ts`, `forward.ts`, with the cache and without | `Recency` |
| `PinnedBlocks` | `state/pinned.ts`, `unpin.ts`, the unsubscriber of `follow.ts` | `Filter` |
| `Subscriptions` | `legacy/`, `common/subscription.ts`, `transaction/watch.ts`, `unfollow.ts` for ids of such subscriptions, and the unsubscribers, notifications and close functions they use | |
| `TokenBucket` | `util/token-bucket.ts`, as operators on a record | |
| `JsonRpcSession` | `ws/handler.ts`, `ws/rate-limiter.ts`, `ws/metrics.ts`, `protocol.ts`, `downstream/client.ts`, shutdown of `proxy.ts` | `TokenBucket` |
| `InductionLemmas` | lemmas: induction on natural numbers, recursive functions, filtered sequences | TLAPS |
| `FollowLifecycleProofs` | theorems on `FollowLifecycle` and `ConcurrentCreator` | both |
| `FollowStateProofs` | theorems on `FollowStream` and `PinnedBlocks` | both |
| `CacheProofs` | theorems on `LruCache` and `OperationCache` | both |
| `UpstreamPoolProofs`, `UpstreamServerProofs`, `SubscriptionsProofs`, `JsonRpcSessionProofs` | theorems on the module of that name | that module |
| `MC*` | instances for TLC | |

A definition named `X_Something` in front of `X` is a plausible bug of `X`: it replaces
`X` to show that a property notices.  Two components that share a module of proofs are both
extended by it, so one of each pair has names of its own: `Creator...` and `MaxWaiters` in
`ConcurrentCreator`, `Pins...`, `Subscriber`, `Pinnable` in `PinnedBlocks`, `Ops...`,
`CacheKey`, `CacheSize` in `OperationCache`.

### How state and actions correspond to the code

**Atomicity.**  One action is what the event loop runs without interruption: a handler up
to its first `await`, a continuation, a timer, a websocket event.  Microtasks run before
the next such event, so most actions of a model are guarded by `Idle`: no hand-out
and no flush is under way.  Each task of the micro-scheduler is a step of its own,
because a task that throws ends the flush and leaves the others for whoever enqueues next
(`Flush`: another user of the scheduler).

**`CreateOnce`.**  `outcome` is what a caller sees: nothing before it calls, `pending`, then how
the creation ended; `party` is who shares the creation of a key.  `Seen` and `Sharing` map the
concurrent creator to it, where a call has its outcome when the promise settles, not
when it resumes.

**`ConcurrentCreator`.**  A flight is named by the invocation that began it. `creating[k]`
is the entry of the map; `promise`, `waiting` are fields of the entry, which
survive its removal as they do in the closures of the waiters.

**`FollowLifecycle`.**  A follow is named by the request that created it.  `pool[u]` is the
pool object captured before the await, named by the request that made the group create it;
`rank[u] > 0` says that the pool lists u, in insertion order; `key[u]` is the follow key;
`index`, `least` are `localIdIndex` and `leastLoaded`; `unsubs` the unsubscribers of the
server; `closeFns` those of the client; `releasing` the follows whose
`doDestroy` awaits the answer to the unfollow; `alive` the follows the node serves.  The
observation of Bun that `ws.close` runs the close handler synchronously is used in
`ServerStop`: close functions run inside `abort()`.  `manager[u]` is the `StateManager` a follow
was created with, `managers` the ones that `stateManagers` still finds under their keys:
`CreateOk` takes the one it finds (`state/index.ts:26`), and the cleanup of a follow deletes
whatever is under its key (`Forget`, `state/index.ts:43`), be it another one's.  Both are `None` or
empty after `cleanup` of the server, which clears its `states`.  `CreateLate` is a
success that comes after the request timed out: the answer is taken for a notification
(`server.ts:275`), the node follows, and nobody knows of it.  `forsaken` and `purged` are
history: follows of the node nobody will unfollow (such a one, or one the watchdog gave up), and
follows that lost their last client inside the loop that computes `leastLoaded`
(`shared.ts:129`, where `subscribersCount` purges closed clients), and may stay `leastLoaded` though
they are destroyed.  Metrics and the events of a follow are left out, and pinned blocks have a
module of their own; a request that waits for its connection is in `UpstreamServer`.  After
`stop()` the answers to unfollows do not matter any more and are dropped.

**`FollowStream`.**  One follow and its clients, with a node that conforms to the
`chainHead` specification: it reports blocks after `initialized`, finalizes an ancestor
of its best block, and prunes everything that is not on top of it.  The node is external:
`parent`, `ahead`, `final`, `best`, `unsent`.  `tracker` and `snap` are the state of the
manager; `stream[c]` how far `withUpdater` got for a client; `view[c]` what a client can tell
from its events, with `ok` lost at the first event that makes no sense.  A finality
notification is one of one block: the ancestors of h among the
blocks ahead are gone with it.
A `StateManager` is found under the follow key, so a follow whose key collides shares the one of
another.  `other` is that other follow: it finds this one's manager (`Collide`), or was there first
and this one finds its (`phase = "unborn"`, then `Found`).  Its events go through the same `update()`
(the `Keep...` operators); its clients are not modelled, only that the manager hears an
event or does not (`OtherStep`).  It sees the same chain at its own pace (`OnLine`).
When it is stopped or silent, `resetState` replaces snapshot and `initialized$` under the
clients of this one (`Reset`, `Subject`).  There is one other follow at most.

**`UpstreamServer`.**  `socket` stands for the websocket, `timer` for the
reconnect timer, `pending` for the map of resolvers, `tasks` for answers in the
micro-scheduler, `atNode` for requests the node may answer, at any time or never.

**`MinHeap`.**  A sift is its loop: `UpTurn`, `DownTurn` take a heap and a position to the next,
and stay where they are once the loop has ended, so as many turns as there are items are
enough.

**`UpstreamPool`.**  `heap[p]` is the array of the heap; its index map is the inverse of the
array.  `starters` (connections with the client that `start()` counts), `stale` (counters
reset without the heap being told) and `mixed` (pools in which another connection was sifted
before the reset ones were) are history variables of the properties.  `Rest(c)` lets
the idle time of an unused connection pass.  `Visit` is a turn of the loop in `sweep()`, which takes
items out of the array it walks; clients that the abort in `stop()` closes release the
connection in the middle of it (`left`).

**`LruCache`.**  Nodes are named by their key, which the map makes unique.

**`OperationCache`.**  Events of an operation are numbers: items, the end and a failure;
`got` is what each request was sent.  A request whose key is `Absent` is one of a method without
a cache: `IsCached` chooses between the two handlers, which share `Miss`, `Refused`, `Lost`
and `Close`.  `waitingForContinue` ends an operation for both, so what the node
sends after a `chainHead_v1_continue`, which is forwarded when no method is cached, reaches nobody.
The answer is handled by a task of the micro-scheduler, and the observers of `notification$` are
there only then.  As a rule that is before the next event, but a task that throws leaves the ring
to the next user, so `Early` lets events of one operation come before: nobody hears them
(`missed`), and an operation that ended that way is never over for the handler.  `Lost` and
`Stopped` are two things: a lost connection or follow sends nothing more, and the handler goes on
listening; a stopped one completes `notification$` (`server.ts:111`), so `done$` completes without a
terminal event, and the entry becomes complete with what was buffered by then (`cut`).

**`PinnedBlocks`.**  One follow.  `still[h]` is the set `stillPinned` has for a block, `order` the
order of insertion of that Map, which is the order of eviction.  `holds` and `spent` are what a
conforming client remembers: blocks it was told of and has not unpinned, and those it has.
`late` and `begun` are history: a block is late for a client that was told of it after somebody
had unpinned it.  A client that joins may be told of any reported blocks: what a snapshot has
is the matter of `FollowStream`.  Unfollow calls the unsubscriber, which tells the pinned
blocks first; Close calls the close function, which does not.  A destroyed follow is
a new one in the same state.  Unpinning hashes the client was never told of is not modelled.
Unpin and unsubscribe look the follow up in the pool `groups` has for the method.  `found` says that
this is the pool of the follow; it is not when another pool of that name emptied and took it
out of `groups` (`Orphaned`, `shared.ts:30` and `179`), or from the start, when the pool was lost while
the node was asked.  Then every unpin is ignored (`UnpinIgnored`, history `ignored`).

**`Subscriptions`.**  A subscription is named by the request that made it.  `status` says what its
handler does: `asking` awaits the answer, `deaf` awaits one that cannot come because the
connection was lost (its timeout ends it), `active` listens to `notification$`.  `unsubs` and
`closeFns` are the two registries by which something ends it, `live` is what the node keeps.
`Unfollow` is `chainHead_v1_unfollow` with the id of such a subscription: it passes the id as it is
to `upstream.unsubscribe` and so ends it, while `LegacyUnsubscribe` prefixes it once more and finds
nothing.  A client sends ids of its own only.
A connection goes `open`, `closing` (its websocket is not OPEN, `onclose` to come), `down`
(reconnect timer) and back, or `stopped` (`stop()` ran, `onclose` to come) and `ended`.
Requests of both kinds share the limit of pending requests with each other only.
`late`, `orphans` and `raced` are history: subscriptions made after their client closed, those
the node made after the request had timed out, and clients whose legacy count was written
from a stale value.

**`JsonRpcSession`.**  `socket` and `client` are a websocket and its `ws.data.client`, which a
connection that the rate limiter terminates never gets.  A message is a slot
`h \in Handler` that waits for its connection or is in the handler of its method; what
that does is in the other modules.  Time is `Tick`; `TokenBucket` counts tokens in parts of
one `Window`-th, so that a refill of `capacity / windowMs` per millisecond is exact.  The other
limit of the same class, `startRequest` of the client, uses the same operators.

## 3. Runs

`tlc -config <cfg> <module>` in this directory; numbers are distinct states.

| Run | Module, cfg | Checks | States |
|---|---|---|---|
| `concurrent_creator` | `MCConcurrentCreator` | invariants, refinement of `CreateOnce`, liveness | 10 157 |
| `follow_lifecycle` | `MCFollowLifecycle` | invariants, one action property, liveness | 106 523 |
| `follow_stream` | `MCFollowStream` | invariants | 2 512 950 |
| `upstream_server` | `MCUpstreamServer` | invariants, action properties, refinement of `RequestReply` with its fairness | 209 896 |
| `upstream_pool` | `MCUpstreamPool` | invariants, action properties, liveness, all heaps of four items | 116 744 |
| `lru_cache` | `MCLruCache` | invariants, refinement of `Recency` | 747 |
| `operation_cache` | `MCOperationCache` | invariants | 6 822 250 |
| `pinned_blocks` | `MCPinnedBlocks` | invariants | 4 833 745 |
| `subscriptions` | `MCSubscriptions` | invariants | 1 306 272 |
| `json_rpc_session` | `MCJsonRpcSession` | invariants, liveness, all short histories of a bucket | 1 027 440 |
| `follow_isolation` | `MCFollowClaims`, `ClaimFollowIsolation.cfg` | violated | |
| `keeps_listening` | `MCFollowStream`, `ClaimKeepsListening.cfg` | violated | |

### What the passing runs show

* `concurrent_creator`: four invocations, two keys, `MaxWaiters = 3`, so that two may wait, the
  third is refused, and a fourth may begin a new flight while waiters of the old one still
  resume.  `FlightsSound`: an older flight never deletes the entry of a newer one, and the
  count of waiters is right and bounded at every moment.  `CreatesOnce`: what callers see is
  `CreateOnce`, so all who share a flight get its outcome, and whoever calls after it settled, but
  before they resumed, begins a new one.  `EveryCallReturns`.
* `follow_lifecycle`: three requests of two clients, so that one client follows twice and two
  share a follow; two follows per pool make key collisions possible; two requests may wait for
  one creation, so that a task that throws leaves one behind it.  `SlotsSound`: the entries a pool
  lists are live, one under each key; it says nothing of `leastLoaded`, which need not be one.
  `HandsOutLive`: what is handed out, or kept as the fallback for the follow limit, is live
  and served by the node at that moment.  It names the two exceptions of the code: the fallback was
  selected before the await, and `leastLoaded` may be in `purged`; clients that are handed such a
  follow are told an id and get no events.  `NoIdleFollow`: every follow has a subscriber or one on its
  way.  `NodeServesUsed` is the same from the side of the node: what it serves is a live follow
  somebody is on or about to be, but for `forsaken`.  `ManagersCurrent`: a manager a new
  follow may find has only follows that still run, so no follow starts with an old snapshot, however
  keys collide.
  `SubscribersSound`: closed clients never count, and `localSubs`, `localIdIndex` and the
  unsubscribers agree along all of unfollow, close, release, abort, disconnect and a thrown task.
  `PoolBound`: the limit holds although the size is read before the await.  `RequestsSettle`.
* `follow_stream`: every tree of three blocks, two of them ahead of finality at a time, a
  tracker with room for three hashes, the least that can work, and three events of another
  follow that shares the manager.  `SameView`: a live client's view is that of the node whenever it
  joined.  `SnapshotExact`: the snapshot is exactly what is ahead of finality, and the tracker,
  which forgets the oldest hashes, knows all of it and lets nothing wait (`KnownCovers`).  Both
  are of a manager one follow feeds (`Alone`).  Where two do, after a key collision, neither
  holds: without that premise TLC finds both violated, since the snapshot takes the events of both
  follows, and whoever joins late is told of a block twice.  What is checked there is the type.
* `upstream_server`: `AnswersMatch`, `RequestsSound`: no answer, late or across a reconnect,
  settles another request, and no resolver outlives its request.  `OneDialer`,
  `StoppedStaysQuiet`: the reconnect timer.  `ServesRequests`: the server
  implements `RequestReply`, in particular every request ends.
* `upstream_pool`: one pool of one to two connections with one client each, two clients: the
  second makes it grow, and with the client that `start()` counts the limit is
  reached and passed.  Three slots let a new connection open while a
  stopped one is still closing.  `PoolSound`: heap and pool are
  the same connections, within bounds, the least loaded on top, but in a pool of `mixed` or with a
  counter in `stale`.  `NeverOvercounted`, `Sticky`,
  `OverloadIsLast`, `Shrinks`; `HeapRestored` checks the operators of `MinHeap` on
  every heap of up to four items with keys from 0 to 2, against what a heap is.
* `lru_cache`: `EvictsLeastRecent` is the refinement of `Recency`, `ListSound` relates map, links,
  head and tail.
* `operation_cache`: two keys, or none where the method is not cached, and room for one entry, so that entries are evicted while
  their operation runs and two operations run on one key; one event may come early.  `SameStory`: what a
  request was sent is a prefix of what was heard of its operation, and all of it while it runs.
  `CacheIsGood`: a completed entry is the whole story of a good operation, or of one whose connection was
  stopped, which is what came until then: the code caches that as complete, too.  `ObserversOpen`:
  closed clients are not observed.
* `pinned_blocks`: two clients, three blocks, and a Map that holds two entries.  `ReleasedByAll`:
  the node is never asked to unpin a block a subscriber holds, unless that one
  was told of it late.  `EntriesSound`: the Map is bounded, its order is that of its entries, and a
  block that somebody unpinned lingers at the node only for somebody who holds it or is gone
  without unpinning it, because of an eviction, or because an unpin was ignored when the follow was not
  found.
* `subscriptions`: four requests of one client on two connections, so that two are active
  while two more are asked for.  `CountsExact`: the quota of watched transactions is exact however they
  end, and the legacy count is until a stale value is written; the overshoot of the quota is
  bounded by the limit of pending requests.  `Accounted`: whoever listens has an unsubscriber
  at a connection that may be lost, or the connection is stopped and will complete.
  `GivenBack`: nothing stays at the node but for the three cases it names.
* `json_rpc_session`: two websockets of one address with a limit of one connection per window, two
  requests each at a time and three in all, so that either limit is met; one refused
  connection.  `PendingExact`: counters are what is being handled, for
  clients that closed or were terminated, too.
  `ConnectBurst`: at most one connection over the limit at a time.  `BurstBounded`: in every
  history of nine ticks and calls, a bucket of capacity and window up to 3 lets pass no more,
  from any moment to any other, than its capacity plus the refill of the time between, and
  gives all its capacity after a quiet window.  `ShutdownEnds`: after a shutdown all counters return to zero.

### What the violated runs show

Each one is a finding, with the sentence it contradicts in `PROJECT.json`.

* `follow_isolation`.  Keys are made from the size of the pool.  Follows 0 and 1 exist; 0 is
  released; the next follow gets key 1, too, and replaces the first one in the map.  The one that
  is destroyed releases key 1 once more when its unfollow was answered, and takes the clients of
  the follow that has the key by then off it, without telling them.
* `keeps_listening`.  Two clients wait for `initialized`; one leaves; `liveSub` is closed by its
  teardown; nobody hears `initialized`.

Further disagreements met while modelling, which no run checks: a full pool overloads
its least loaded connection, though `src/README.md:63` says that `max_clients_per_connection`
limits the clients of each (`OverloadIsLast` is what does hold); a heap may stay
out of order for good, though `src/README.md:61` says that an upstream "uses least-connections load
balancing": `cleanup` resets a counter without telling the heap (`server.ts:73`), and when another
reset connection is sifted first it stops under that one; once that one moves, a larger one
comes above it, and nothing sifts it again (`mixed` of `UpstreamPool`; it takes four connections of
a pool and the loss of two); `leastLoaded` and pools are
per pool object, of which a method can have several (`shared.ts:79`); the watchdog's
"full restart" (`manager.ts:258`) is a clean-up only; `cleanup` of the server calls unsubscribers
before `abort`, so clients are not closed by "upstream disconnected" when the node drops;
methods no upstream has are refused with 1013, not forwarded; the cache reads `maxSize`, not
`max_entries`; a subscription that waits in the micro-scheduler does not keep its follow,
which is destroyed when the last subscriber leaves before it runs, though `shared.ts:191` says
"once the upstream is no longer needed"; clients attached to a running operation never get its
terminal event, though `src/README.md:34` says they "attach to the live stream"; an operation
whose connection was stopped is cached as a complete one, and replayed without its end
(`cut` of `CacheIsGood`); two follows under one key share one manager and so one snapshot, though
`src/README.md:67` calls clients fully isolated (`state/index.ts:26`, the premise `Alone`); a block that waited for
its parent would be applied before it and never be sent to live clients (`manager.ts:286`,
"ordering handled here"), with a node that reports blocks out of order; a
block is unpinned under a client that joined after its first unpin, though `pinned.ts:11` says "only
when the last caller unpins" (the exception `late` of `ReleasedByAll`); `legacy/unsubscribe.ts:10`
logs that it unsubscribes, and makes the id, which is a local id already, one once more, so that it
finds nothing (`LegacyUnsubscribe`; `chainHead_v1_unfollow` with the same id does end it); a
follow that is in a pool lookups do not find has every unpin ignored without a word (`pinned.ts:58`); the legacy limit counts concurrent subscriptions as one (`raced`); the gauge
called "Current number of active WebSocket connections" (`ws/metrics.ts:8`) loses one for every
refused connection (the theorem `GaugeDriftHolds` says by how much it is off).

### Bounds

| Bound | Value | Why it is enough |
|---|---|---|
| invocations, keys, `MaxWaiters` of the creator | 4, 2, 3 | creator, waiter, refused one and a new flight at once |
| clients / follow requests | 2 / 3 | a follow shared by two, a client with two, a collision of keys |
| `MaxFollows`, `MaxWaiting` | 2, 3 (2 in the violated runs) | smallest with a collision, and with three tasks in one flush; with 3 no follow request is refused for want of a waiting place, which the creator's run exercises |
| `MaxBlock`, `Window`, `MaxKnown`, `MaxEvents` | 3, 2, 3, 3 | a fork, its pruning, and an eviction of the tracker; the other follow is initialized, reports and finalizes a block; `Window < MaxKnown` is assumed: 512 in the code; longer chains are covered by the proof |
| slots of the pool | 3 | one connection more than the maximum, while a stopped one closes; a heap has two items, larger ones are covered by `HeapRestored` and the proof |
| `CacheSize`, `MaxItems`, `MaxEarly` | 1, 2, 1 | eviction under a running operation; before, between and after items; an item or the end comes early |
| `Subscriber`, `Pinnable`, `MaxHashes` | 2, 3, 3 | one who leaves or joins while the other unpins; two entries side by side and an eviction: 512 in the code |
| requests, connections, `MaxPerClient`, `MaxPending` | 4, 2, 2, 2 | two active and two pending at once, which passes the limit and loses updates; a client moves from one connection to another |
| websockets, requests, `MaxConnects`, `MaxRequests`, `Window` | 2, 3, 1, 2, 2 | both limits of pending requests and both buckets refuse; a partial refill |
| `MaxRefused` | 1 | one refused connection shows the drift; the proof covers any number |

Deadlock is not checked where the system may stop: all clients gone and the server stopped,
all requests ended, or the bound of a model reached.

### Fairness

* `ConcurrentCreator`: settled promises resume their waiters, and the creating function ends,
  because it awaits `server.request`, which has a timeout.
* `FollowLifecycle`: the event loop drains hand-outs and tasks, and the request to the node is
  answered or times out.  Nothing is assumed of clients, the node or the connection.
* `UpstreamServer`: timers fire and the loop drains its queues.  Fairness of timers and resumed
  handlers is strong, because a flush of the micro-scheduler may come first each time, but
  not for ever.  The node may never answer and never accept.
* `UpstreamPool`: time passes and the sweep interval fires.
* `JsonRpcSession`: a websocket that was closed by the proxy gets its close event; handlers return,
  because every request and every wait for a connection has a timeout.
* `FollowStream`, `LruCache`, `OperationCache`, `PinnedBlocks`, `Subscriptions` state safety only and
  have no fairness.

## 4. Proofs

`tlapm` proves the following for all values of the constants, from the named assumptions of
the modules.

* **Concurrent creator** (`FollowLifecycleProofs`): `CreatorInv` is inductive: the parts of
  `FlightsSound` (type, `SingleFlight`, `WaitingIsExact`, `WaitersBounded`) and `Started`.
  `Started` (an idle invocation has no promise and no waiters) is what makes a new flight begin
  with a count of zero.  Counting waiters uses the cardinality theorems for adding and removing
  one element.  `CreatesOnceSafely` is the safety half of `CreatesOnce`.  It adds `CreatorsWait` (a
  creator awaits its own promise, and whoever has not returned awaits one that was made) to the
  invariant; with it those who share a flight are its waiters and its creator
  (`PendingSize`), so the limit of the abstract party is the guard on `waiting`.
* **Follow lifecycle** (`FollowLifecycleProofs`): `Inv` is type, `SlotsSound`, `CloseFnsCover`,
  and the parts `LocalsOpen` and `RegistriesAgree` of `SubscribersSound`.  `CloseFnsCover` (who is subscribed has the close function
  that undoes it) carries `LocalsOpen` over `Close` and `ServerStop`; `SlotsSound` makes the eviction
  of a slot an eviction of one follow.  The proof goes by action; the lemmas say what `Left`,
  `Discard`, `Evicted` and `PhaseAfter` do once for all of them.  `NoIdleFollow` is inductive on top
  of `Inv`: a follow that loses its last subscriber is destroyed in the same step
  (`DiscardKeeps`), and a queued hand-out or task ends as a subscriber, as a task, or as
  the destruction of the follow.  `NodeServesUsed` adds that what the node serves is a live follow
  but for `forsaken` ones, and takes the subscriber from `NoIdleFollow`.  For `ManagersCurrent`: a manager
  that is found is under its key, a new follow takes the one of its key, so all who feed a manager have
  the same key, and the first of them to be cleaned up deletes it.  `HandsOutLive` needs that
  `leastLoaded` is live unless it is `purged`: every release of an entry computes it anew.
  `PoolBound`: the size of the pool is read before the await and the follow added after it, so the bound
  cannot come from that guard.  It comes from the keys (`Bounded`): the size that was read is
  the key, and a pool lists one follow under each (`KeysFit`).  When there is no room the request must be
  handed `leastLoaded` instead, so a pool with entries always has one (`LeastKnown`), through every
  eviction.  The theorem is for `MaxFollows # 0`: a pool whose limit is 0 still
  gets its first entry.
* **State manager** (`FollowStateProofs`): `IInv` adds to `SameView` that a snapshot shows the final
  block and lists what is ahead of it, parents first (`Kept`), that nobody is told of anything
  before there is one, which only a follow that listened from the start gets (`Waits`), and that
  `liveSub` is open only while nobody has left (`Streams`).  All of it is of a manager that nobody
  else feeds (`Alone`): `StreamInv` is `Alone => IInv`, and no step makes `Alone` true again.  The tracker forgets hashes by
  age, not by need: `Tracks` says that its last known hashes are the final block and, on top of it, all
  that is ahead.  There is room for them because at most `Window` blocks are ahead and
  `Window < MaxKnown`.  `TrackerKnows` concludes `KnownCovers`, which is part of `SnapshotExact`.
* **Pinned blocks** (`FollowStateProofs`): `PinsInv` adds to `ReleasedByAll` that an entry names
  every subscriber that was told of the block before the first unpin and holds it (`Owed`),
  and that a block that is neither unpinned nor forgotten has an entry (`Lingering`).  `Ordered` ties the
  order of the Map to its entries, which bounds it; `LingersForSomeone` is proved on top, so that
  `EntriesSound` holds in all its parts.  An unpin that is ignored puts its block into `ignored`, and what
  `PinsInv` says of entries does not ask whether the follow is found.
* **Upstream server** (`UpstreamServerProofs`): `Inv` adds three facts to what the run checks.
  `IdsFresh`: an id is given once, so a late answer finds its own request or none.  `TasksSound`:
  a resolver in the ring has left `pending` and carries its own answer, so a timeout
  and an answer cannot both settle a request.  `TimerSound`: the timer is armed only by a running
  server with the current backoff, which exceeds the previous delay when the node is dialled;
  from it come `OneDialer`, `StoppedStaysQuiet` and `WaitsLonger`.  `ServesRequestsSafely` is
  the safety half of the property `ServesRequests`: initial states and steps map to initial
  states and steps (or stutters) of `RequestReply`.
* **Upstream pool** (`UpstreamPoolProofs`), in three layers.  *Counters*: `Inv` is `NeverOvercounted` with
  the types of the counters.  `Releasing` says what `release()` leaves, for a client with or without a
  connection and for a counter that a lost link has reset; every way of coming and leaving
  is built on it.  *Heap*: `Rising` and `Sinking` are the loop invariants of the two sifts
  (everything is in order but for the item at the position, whose children are in order with
  its parent), and a sift takes no more turns than there are items.  `UpdateFacts`,
  `PushFacts` and `RemoveFacts` conclude `Restores`: if the heap was in order by some
  earlier keys that agree with the present ones except at one item, it is in order now, and
  its items are the right ones; for any heap and any keys.  `OperationsRestore` states the three
  results together, and `HeapRestored`, which the run evaluates, is what they say of heaps
  of the size of a pool.  *Pools*: `PoolInv` adds that heaps and open
  connections agree, sizes are in bounds, and `InOrder`: each heap that is not
  `mixed` is in order by the counters its connections had before a lost link reset them.
  That is what makes it inductive: `LinkDown` leaves the array as it is, and `Restores` needs to know by
  which keys it was in order.  `SweptFacts` carries this through a walk over an array
  that shrinks as it is walked.  `PoolSound` is the consequence when no
  counter is stale, `OverloadIsLast` follows from it for the step of `ResolveUpstream`, and `Sticky`
  step by step.
* **LRU cache** (`CacheProofs`): `Linked` says that there is a sequence of all the keys of the map, each
  once, that `next` walks from the head and `prev` from the tail.  `ListSound` follows, and so does
  the refinement `EvictsLeastRecent`, whose mapping is that sequence: every step of the
  linked list is one of `Recency`.
* **Operation cache** (`CacheProofs`): `OpsInv` relates who is attached to whom
  (`Attached`), what an entry and its buffer are (`EntrySound`), and what each request was sent,
  event by event (`Stories`), all of it in terms of what was heard (`HeardSound`: what is missed came
  before the answer, and an operation that runs or was stopped was heard without an end).  `Attached` in both directions is needed: an open client
  served from a running operation is attached, so no event passes it by.  `OpsTypeOK` adds the length
  of the recency order and that buffers hold no failure.  An operation without a cache is
  never a source for others: who was served from the cache asked for a cached method (`SourceSound`).
* **Subscriptions** (`SubscriptionsProofs`): `Linked` ties requests and subscriptions to the state of their
  connection: an answer comes only over one that has not closed, and whoever listens has an
  unsubscriber or a completion to come.  With `Leavable` (a client that is open has
  a close function for all it listens to) it carries `GivenBack` over `Close`.  `Counts` and `Few` are
  about cardinalities; `CleanupEffect` says once for every way to end what a cleanup takes off.
  `LegacyUnsubscribe` changes nothing because a local id of a local id is none (`NothingFound`),
  which is an assumption on ids: the node does not make ones that look like local ids.
* **Downstream side** (`JsonRpcSessionProofs`): lemmas on `TokenBucket` bound what a refill gives.
  `Paid` says that the connections of an address since the last tick cost a token each but for
  the first; `ConnectBurst` is its consequence.  `Counted` and `GaugeDrift` are inductive with the type.
  No run checks `GaugeDrift`: it is how the gauge deviates from what it is called, proved for any
  number of refused connections.
  `BurstsBounded` is about a bucket alone, for any capacity, window and history.  From a moment
  on, what has been let pass and what a call would find in the bucket is paid for by the
  capacity and the ticks in between (`PassedPay`), which is the upper bound.  For the lower one,
  a bucket is full after a quiet window (`FullAfterQuiet`), and each call takes at most one
  token from it (`CallsTake`).  `BurstBounded` is its instances on short histories.

Sequences that are filtered, walks and sifts are recursive functions.  `InductionLemmas` proves what
is needed of them: a set of natural numbers that is not empty has a least element, from
which induction follows for a set given as such (`Induct`, no operator as a parameter),
and from that the existence and values of a function defined by recursion (`Recursive`,
`Recursion`) and what `Within` of a sequence is.

Only model-checked: liveness (`EveryCallReturns`, `RequestsSettle`, `Shrinks`, `ShutdownEnds`, and the
liveness halves of `CreatesOnce` and `ServesRequests`), which is out of the
prover's reach.  Every other property of the passing runs is stated by a theorem.

## 5. Not modelled

* The rx plumbing as such: a subscription is open or not, and an event reaches all that are open.
* `states` of the server (created once per connection, cleared by `cleanup`), metrics, statistics,
  logging.
* The ring of the micro-scheduler overflows at 4096 tasks; in the models it is unbounded.
* Runtime fields of follow events (`finalizedBlockRuntime` in a replay is that of the first
  `initialized` event).
* A node that reports a block before its parent, which the `chainHead` specification excludes.
* A third follow under one key, and what the clients of the other follow on a shared manager see, which
  is the same thing with the names changed.
* Requests with ids the client was not given: clients are taken to send only their own.
* Messages that are not valid requests, other websocket events than open, message and close, the
  error middlewares, and the address of a client behind a trusted proxy.
* The header cache: one read-through of the LRU cache around one request.
* Forwarding handlers, presets, configuration, CLI, address arithmetic: no state, or covered by
  unit tests.

## 6. Plan

Done: the core (concurrent creator, follow lifecycle, follow stream, server, pool, caches), pinned
blocks, subscriptions that are not shared, the downstream side, and the proofs listed above, which
cover every invariant and action property of the runs and the safety of every refinement.

Left:

1. What a client of a shared manager may still rely on, and whether separate keys (a counter instead
   of the size of the pool) would make `SameView` hold without a premise and `FollowIsolation` at all.
2. A composition of `PinnedBlocks` and `FollowStream`, in which the snapshot a late joiner is told
   of is that of the manager.
3. Liveness of `Subscriptions`: `deaf` requests end, stopped connections complete.
4. The runtime fields of a replay.
