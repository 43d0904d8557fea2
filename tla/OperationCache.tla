---------------------------- MODULE OperationCache ----------------------------
(***************************************************************************)
(* chainHead operations (storage, body, call) and their cache:              *)
(* ops/handler.ts over the forwarding handler of chain-head/forward.ts.      *)
(*                                                                         *)
(* An operation is named by the request that started it.  Its events are     *)
(* numbered items and one terminal event: done, or one of                   *)
(* FLUSH_CACHE_EVENTS (inaccessible, error, waitingForContinue).  One step   *)
(* is one event of the loop, or the task that handles an answer: events may   *)
(* come between the answer and that task, and nobody hears them.             *)
(*                                                                         *)
(* The cache is one per method and shared by all upstreams; its linked list  *)
(* is in LruCache, here it is what Recency says of it.  A request of a       *)
(* method that is not cached has the key Absent.                            *)
(***************************************************************************)
EXTENDS Naturals, Sequences, FiniteSets, SequencesExt

CONSTANTS Client,
          Request,   \* chainHead_v1_storage/body/call requests
          Owner,     \* the client of each request
          CacheKey,  \* block hash and parameters
          CacheSize, \* maxSize of the cache
          MaxItems,  \* bound: items of one operation
          MaxEarly,  \* bound: events that come early, of one operation only
          Absent

ASSUME CacheAssumption ==
  /\ IsFiniteSet(Request) /\ Owner \in [Request -> Client]
  /\ CacheSize \in Nat /\ MaxItems \in Nat /\ MaxEarly \in Nat
  /\ Absent \notin Request \cup CacheKey

VARIABLES
  open,      \* connected clients
  key,       \* keyOf each request, or Absent where the method is not cached
  status,    \* how far each request got
  order,     \* cached keys, the one used last in front
  entry,     \* cache entries: an operation, and whether it is complete
  source,    \* the operation whose events a request is given
  got,       \* the events each client was sent for a request
  emitted,   \* what the node sent for an operation
  missed,    \* how much of it came before the answer was handled
  buffer,    \* `buffer` of an operation
  live,      \* operations whose events the handler still listens to
  lost,      \* operations the node will send nothing more for
  observers, \* requests attached to `notifications` of an operation
  cut        \* history: operations whose connection was stopped before they ended

cache == <<order, entry>>
replies == <<status, source, got>>
operations == <<emitted, missed, buffer, live, lost, observers, cut>>
opsVars == <<open, key, replies, cache, operations>>

\* Events, numbered as the node sends them: the items, and the two ends.
Item == 1..MaxItems
End == MaxItems + 1
Failure == MaxItems + 2
Event == Item \cup {End, Failure}
Entry == [op : Request, complete : BOOLEAN]

OpsTypeOK ==
  /\ open \subseteq Client
  /\ key \in [Request -> CacheKey \cup {Absent}]
  /\ status \in [Request -> {"new", "asked", "refused", "started", "hit"}]
  /\ order \in Seq(CacheKey) /\ Len(order) <= CacheSize
  /\ entry \in [CacheKey -> Entry \cup {Absent}]
  /\ source \in [Request -> Request \cup {Absent}]
  /\ got \in [Request -> Seq(Event)]
  /\ emitted \in [Request -> Seq(Event)]
  /\ buffer \in [Request -> Seq(Event \ {Failure})]
  /\ live \subseteq Request
  /\ lost \subseteq Request
  /\ observers \in [Request -> SUBSET Request]
  /\ missed \in [Request -> Nat] /\ \A o \in Request : missed[o] <= Len(emitted[o])
  /\ cut \subseteq Request

OpsInit ==
  /\ open = Client
  /\ key \in [Request -> CacheKey \cup {Absent}]
  /\ status = [r \in Request |-> "new"]
  /\ order = <<>> /\ entry = [k \in CacheKey |-> Absent]
  /\ source = [r \in Request |-> Absent]
  /\ got = [r \in Request |-> <<>>]
  /\ emitted = [o \in Request |-> <<>>]
  /\ buffer = [o \in Request |-> <<>>]
  /\ missed = [o \in Request |-> 0]
  /\ live = {} /\ lost = {} /\ cut = {}
  /\ observers = [o \in Request |-> {}]

Lru == INSTANCE Recency WITH Key <- CacheKey, Value <- Entry, MaxSize <- CacheSize, None <- Absent,
                            value <- entry, result <- Absent

-----------------------------------------------------------------------------
\* isCacheEnabledFor its method.
IsCached(r) == key[r] # Absent

\* Bug: nothing is evicted.
CacheSet_Unbounded(k, e) ==
  /\ order' = <<k>> \o Lru!Without(order, k)
  /\ entry' = [entry EXCEPT ![k] = e]

\* cache.set and cache.remove.
CacheSet(k, e) ==
  /\ order' = Lru!Stored(order, k)
  /\ entry' = [l \in CacheKey |-> IF ~Lru!Cached(order', l) THEN Absent
                             ELSE IF l = k THEN e ELSE entry[l]]
CacheRemove(k) ==
  /\ order' = Lru!Without(order, k)
  /\ entry' = [entry EXCEPT ![k] = Absent]

\* `send` to the clients of requests R: nothing arrives at one that is closed.
Sent(R, e) ==
  [r \in Request |-> IF r \in R /\ Owner[r] \in open THEN Append(got[r], e) ELSE got[r]]

\* Bug: the client is attached without the replay.
Hit_NoReplay(r) ==
  /\ status[r] = "new" /\ Owner[r] \in open
  /\ IsCached(r) /\ entry[key[r]] # Absent
  /\ LET e == entry[key[r]]
     IN /\ source' = [source EXCEPT ![r] = e.op]
        /\ observers' = IF e.complete THEN observers
                        ELSE [observers EXCEPT ![e.op] = @ \cup {r}]
  /\ status' = [status EXCEPT ![r] = "hit"]
  /\ order' = Lru!Used(order, key[r])
  /\ UNCHANGED <<open, key, entry, got, emitted, missed, buffer, live, lost, cut>>

\* beforeRequest finds an entry: the client is sent the original answer and the
\* buffer, and is attached to what is still to come.
Hit(r) ==
  /\ status[r] = "new" /\ Owner[r] \in open
  /\ IsCached(r) /\ entry[key[r]] # Absent
  /\ LET e == entry[key[r]]
     IN /\ source' = [source EXCEPT ![r] = e.op]
        /\ got' = [got EXCEPT ![r] = buffer[e.op]]
        /\ observers' = IF e.complete THEN observers
                        ELSE [observers EXCEPT ![e.op] = @ \cup {r}]
  /\ status' = [status EXCEPT ![r] = "hit"]
  /\ order' = Lru!Used(order, key[r])
  /\ UNCHANGED <<open, key, entry, emitted, missed, buffer, live, lost, cut>>

\* beforeRequest finds none, or there is no cache to look in: the request is forwarded.
Miss(r) ==
  /\ status[r] = "new" /\ Owner[r] \in open
  /\ IsCached(r) => entry[key[r]] = Absent
  /\ status' = [status EXCEPT ![r] = "asked"]
  /\ UNCHANGED <<open, key, source, got, cache, operations>>

\* The client has no follow; or the node answers with an error or limitReached, or
\* does not answer.
Refused(r) ==
  /\ \/ status[r] = "new" /\ Owner[r] \in open
     \/ status[r] = "asked"
  /\ status' = [status EXCEPT ![r] = "refused"]
  /\ UNCHANGED <<open, key, source, got, cache, operations>>

\* afterResponse of a started operation: an entry of its own, whatever is cached
\* under the key by now.
Started(r) ==
  /\ status[r] = "asked" /\ IsCached(r)
  /\ status' = [status EXCEPT ![r] = "started"]
  /\ source' = [source EXCEPT ![r] = r]
  /\ live' = live \cup {r}
  /\ CacheSet(key[r], [op |-> r, complete |-> FALSE])
  /\ UNCHANGED <<open, key, got, emitted, missed, buffer, lost, observers, cut>>

\* The same without a cache: the events go to the client that asked, and nowhere else.
ForwardStarted(r) ==
  /\ status[r] = "asked" /\ ~IsCached(r)
  /\ status' = [status EXCEPT ![r] = "started"]
  /\ source' = [source EXCEPT ![r] = r]
  /\ live' = live \cup {r}
  /\ UNCHANGED <<open, key, got, cache, emitted, missed, buffer, lost, observers, cut>>

-----------------------------------------------------------------------------
\* The node has more to send: it did not end the operation.
Goes(o) == \A i \in 1..Len(emitted[o]) : emitted[o][i] \in Item
Running(o) == o \in live \ lost /\ Goes(o)

\* An event that comes before the task of the answer, kept back by one that threw.
Early(o, e) ==
  /\ status[o] = "asked" /\ Goes(o)
  /\ missed[o] < MaxEarly /\ \A p \in Request \ {o} : missed[p] = 0
  /\ e \in {Len(emitted[o]) + 1} \cap Item \/ e \in {End, Failure}
  /\ emitted' = [emitted EXCEPT ![o] = Append(@, e)]
  /\ missed' = [missed EXCEPT ![o] = @ + 1]
  /\ UNCHANGED <<open, key, replies, cache, buffer, live, lost, observers, cut>>

\* An event of an operation: buffered, forwarded to the client that started it, and
\* to the ones attached.
Notification(o) ==
  LET e == Len(emitted[o]) + 1
  IN /\ Running(o) /\ IsCached(o) /\ e \in Item
     /\ emitted' = [emitted EXCEPT ![o] = Append(@, e)]
     /\ buffer' = [buffer EXCEPT ![o] = Append(@, e)]
     /\ got' = Sent({o} \cup observers[o], e)
  /\ UNCHANGED <<open, key, status, source, cache, missed, live, lost, observers, cut>>

\* Bug: the entry is left as it is.
Done_NotCompleted(o) ==
  /\ Running(o) /\ IsCached(o)
  /\ emitted' = [emitted EXCEPT ![o] = Append(@, End)]
  /\ buffer' = [buffer EXCEPT ![o] = Append(@, End)]
  /\ got' = Sent({o}, End)
  /\ observers' = [observers EXCEPT ![o] = {}]
  /\ live' = live \ {o}
  /\ UNCHANGED <<open, key, status, source, missed, lost, cache, cut>>

\* The operation is done: its client gets the event, the ones attached do not, and
\* the entry of the key becomes this operation, complete.
Done(o) ==
  /\ Running(o) /\ IsCached(o)
  /\ emitted' = [emitted EXCEPT ![o] = Append(@, End)]
  /\ buffer' = [buffer EXCEPT ![o] = Append(@, End)]
  /\ got' = Sent({o}, End)
  /\ observers' = [observers EXCEPT ![o] = {}]
  /\ live' = live \ {o}
  /\ CacheSet(key[o], [op |-> o, complete |-> TRUE])
  /\ UNCHANGED <<open, key, status, source, missed, lost, cut>>

\* It fails: its client gets the event, and whatever is under the key is removed.
Flush(o) ==
  /\ Running(o) /\ IsCached(o)
  /\ emitted' = [emitted EXCEPT ![o] = Append(@, Failure)]
  /\ got' = Sent({o}, Failure)
  /\ observers' = [observers EXCEPT ![o] = {}]
  /\ live' = live \ {o}
  /\ CacheRemove(key[o])
  /\ UNCHANGED <<open, key, status, source, missed, buffer, lost, cut>>

\* An event of an operation of a method without a cache; a terminal one is the last that
\* is forwarded, also waitingForContinue.
Forwarded(o, e) ==
  /\ Running(o) /\ ~IsCached(o)
  /\ e \in {Len(emitted[o]) + 1} \cap Item \/ e \in {End, Failure}
  /\ emitted' = [emitted EXCEPT ![o] = Append(@, e)]
  /\ got' = Sent({o}, e)
  /\ live' = IF e \in Item THEN live ELSE live \ {o}
  /\ UNCHANGED <<open, key, status, source, cache, missed, buffer, lost, observers, cut>>

\* The connection is lost or the follow is gone: the node sends nothing more, and the
\* handler goes on listening.
Lost(o) ==
  /\ Running(o)
  /\ lost' = lost \cup {o}
  /\ UNCHANGED <<open, key, replies, cache, emitted, missed, buffer, live, observers, cut>>

\* The connection is stopped, which completes upstream.notification$ and so done$, one
\* operation after the other: whoever is attached is detached, and the entry of the key
\* becomes this operation, complete with what was buffered by then.
Stopped(o) ==
  /\ o \in live
  /\ live' = live \ {o}
  /\ cut' = cut \cup {o}
  /\ observers' = [observers EXCEPT ![o] = {}]
  /\ IF IsCached(o) THEN CacheSet(key[o], [op |-> o, complete |-> TRUE])
                    ELSE UNCHANGED cache
  /\ UNCHANGED <<open, key, replies, emitted, missed, buffer, lost>>

\* Bug: onClose does not detach.
Detached_Not(c) == observers
Detached(c) == [o \in Request |-> {r \in observers[o] : Owner[r] # c}]

\* A client closes: the requests it attached are detached; an operation it started
\* goes on.
Close(c) ==
  /\ c \in open
  /\ open' = open \ {c}
  /\ observers' = Detached(c)
  /\ UNCHANGED <<key, replies, cache, emitted, missed, buffer, live, lost, cut>>

OpsNext ==
  \/ \E r \in Request : Hit(r) \/ Miss(r) \/ Refused(r) \/ Started(r) \/ ForwardStarted(r)
  \/ \E o \in Request : Notification(o) \/ Done(o) \/ Flush(o) \/ Lost(o) \/ Stopped(o)
  \/ \E o \in Request, e \in Event : Early(o, e) \/ Forwarded(o, e)
  \/ \E c \in Client : Close(c)

OpsSpec == OpsInit /\ [][OpsNext]_opsVars

-----------------------------------------------------------------------------
Served(r) == status[r] \in {"started", "hit"}

\* What the handler heard of an operation.
Heard(o) == SubSeq(emitted[o], missed[o] + 1, Len(emitted[o]))

\* Whoever started the operation or joined it later, from whichever upstream, is sent
\* the events that came after its answer was handled, in order, without gap or repetition
\* between replay and live stream; and as long as the operation runs an open client has
\* seen all of them.
SameStory ==
  \A r \in Request : Served(r) =>
    /\ IsPrefix(got[r], Heard(source[r]))
    /\ Owner[r] \in open /\ source[r] \in live => got[r] = Heard(source[r])

\* A complete entry is an operation that ended well and is kept to its end, unless its
\* connection was stopped: then it is what came until then.  No entry is an operation
\* that failed, so no failure is replayed, and an incomplete one is still listened to.
CacheIsGood ==
  \A k \in CacheKey : entry[k] # Absent =>
    LET o == entry[k].op
        e == Heard(o)
    IN /\ entry[k].complete => /\ buffer[o] = e
                               /\ o \in cut \/ (e # <<>> /\ e[Len(e)] = End)
       /\ o \in cut => entry[k].complete /\ \A i \in 1..Len(e) : e[i] \in Item
       /\ ~entry[k].complete => o \in live

\* Nobody listens for a client that is gone, nor to an operation that is over.
ObserversOpen ==
  \A o \in Request : \A r \in observers[o] : Owner[r] \in open /\ o \in live
=============================================================================
