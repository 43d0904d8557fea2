----------------------------- MODULE FollowStream -----------------------------
(***************************************************************************)
(* The events of one chainHead follow: the snapshot that state/manager.ts    *)
(* keeps of them with the block tracker of state/blocks.ts, and the stream   *)
(* it makes of snapshot and live events for each client.                    *)
(*                                                                         *)
(* One step is one event: of the node, of a client or of a timer.  Blocks    *)
(* are numbered; 0 is the one finalized when the follow starts.  A client's  *)
(* view is what it can tell from the events it was sent.  Who subscribes and *)
(* when the follow is given up is in FollowLifecycle.                       *)
(*                                                                         *)
(* A manager is found under the follow key, and keys may collide: another    *)
(* follow of the same node, with clients of its own, may feed it too.  It is  *)
(* there first or comes later.                                             *)
(***************************************************************************)
EXTENDS Filter, FiniteSets, SequencesExt

CONSTANTS Client,
          MaxBlock, \* bound: blocks of the chain
          Window,   \* bound: blocks the node reports ahead of finality
          MaxKnown, \* maxKnown of the tracker
          MaxEvents,\* bound: events of another follow that has the same manager
          None

ASSUME StreamAssumption ==
  /\ IsFiniteSet(Client)
  /\ {MaxBlock, Window, MaxKnown, MaxEvents} \subseteq Nat /\ Window < MaxKnown
  /\ None \notin Nat

VARIABLES
  parent,  \* of each block
  ahead,   \* blocks the node reported and did not finalize or prune
  final,   \* the last block it finalized; None before `initialized`
  best,    \* its best block
  unsent,  \* blocks it has not reported
  tracker, \* known hashes, as they were added, and the pending blocks
  snap,    \* snapshot: finalized (None: not initialized), best, newBlocks
  liveSub, \* the manager's own subscription to live$ is open
  stream,  \* how far the stream of each client is
  view,    \* of each client; nothing when its stream is not live
  phase,   \* the follow is not created yet (it will find a manager), runs, or is over
  other    \* the other follow that found this manager, or the first one; or None

node == <<parent, ahead, final, best, unsent>>
manager == <<tracker, snap, liveSub, phase>>
vars == <<node, manager, stream, view, other>>

Block == 1..MaxBlock
Hash == 0..MaxBlock
View == [final : Hash \cup {None}, best : Hash \cup {None}, blocks : SUBSET Block,
         ok : BOOLEAN]
Nothing == [final |-> None, best |-> None, blocks |-> {}, ok |-> FALSE]

\* What the other follow reported, and the `initialized$` this one waits on: the one of
\* the manager, or one that the reset by the other follow left behind.
Other == [on : BOOLEAN, final : Hash \cup {None}, ahead : SUBSET Block,
          subject : {"shared", "emitted", "completed"}, events : 0..MaxEvents]
ASSUME NobodyAssumption == None \notin Other
Starting == [on |-> TRUE, final |-> None, ahead |-> {}, subject |-> "shared",
             events |-> 0]

TypeOK ==
  /\ parent \in [Block -> Hash]
  /\ ahead \subseteq Block
  /\ final \in Hash \cup {None}
  /\ best \in Hash
  /\ unsent \subseteq Block
  /\ tracker.known \in Seq(Hash) /\ Len(tracker.known) <= MaxKnown
  /\ tracker.pending \in Seq(Block)
  /\ snap.final \in Hash \cup {None} /\ snap.best \in Hash \cup {None}
  /\ snap.newBlocks \in Seq(Block)
  /\ liveSub \in BOOLEAN
  /\ stream \in [Client -> {"absent", "waiting", "live", "ended", "left"}]
  /\ \A c \in Client : view[c] \in View
  /\ phase \in {"unborn", "on", "over"}
  /\ other \in Other \cup {None}

NoSnapshot == [final |-> None, best |-> None, newBlocks |-> <<>>]

\* The follow was created with a manager of its own, and at least one client is on it; or
\* another follow was, whose manager this one will find.
Init ==
  /\ parent \in {f \in [Block -> Hash] : \A b \in Block : f[b] < b}
  /\ ahead = {} /\ final = None /\ best = 0 /\ unsent = Block
  /\ tracker = [known |-> <<>>, pending |-> <<>>]
  /\ snap = NoSnapshot
  /\ view = [c \in Client |-> Nothing]
  /\ \/ /\ phase = "on" /\ other = None /\ liveSub = TRUE
        /\ stream \in [Client -> {"absent", "waiting"}]
        /\ \E c \in Client : stream[c] = "waiting"
     \/ /\ phase = "unborn" /\ other = Starting /\ liveSub = FALSE
        /\ stream = [c \in Client |-> "absent"]

\* Nobody else ever fed the manager.
Alone == other = None

-----------------------------------------------------------------------------
\* live$ is shared: it listens to the node as long as somebody subscribes to it.
Listening == phase = "on" /\ (liveSub \/ \E c \in Client : stream[c] = "live")

Knows(t, h) == Contains(t.known, h)

\* remember(): the oldest hash makes room.
Remember(t, h) ==
  IF Knows(t, h) THEN t
  ELSE [t EXCEPT !.known = IF Len(@) = MaxKnown THEN Append(Tail(@), h) ELSE Append(@, h)]

\* forget() of each hash: also drops pending blocks with such a hash or on top of one.
Forget(t, hashes) ==
  [known |-> Within(t.known, Hash \ hashes),
   pending |-> Within(t.pending, {b \in Block : {b, parent[b]} \cap hashes = {}})]

\* flushPending(): the tracker it leaves, and the blocks it applies, in order.
FlushPending(t) ==
  LET from[u \in [known : Seq(Hash), pending : Seq(Block)], out \in Seq(Block), i \in Nat] ==
        LET ready == {j \in i..Len(u.pending) : Knows(u, parent[u.pending[j]])}
        IN IF ready = {}
           THEN IF i = 1 THEN <<u, out>> ELSE from[u, out, 1]
           ELSE LET j == CHOOSE j \in ready : \A k \in ready : j <= k
                    b == u.pending[j]
                IN from[[Remember(u, b) EXCEPT !.pending = RemoveAt(@, j)],
                        Append(out, b), j]
  IN IF t.pending = <<>> THEN <<t, <<>>>> ELSE from[t, <<>>, 1]

-----------------------------------------------------------------------------
\* What a client makes of an event; `ok` is lost with one it cannot make sense of.
SeeInitialized(h) == [final |-> h, best |-> h, blocks |-> {}, ok |-> TRUE]
SeeBlock(v, b) ==
  [v EXCEPT !.blocks = @ \cup {b},
            !.ok = @ /\ b \notin v.blocks /\ parent[b] \in v.blocks \cup {v.final}]
SeeBest(v, b) == [v EXCEPT !.best = b, !.ok = @ /\ b \in v.blocks \cup {v.final}]
SeeFinalized(v, h, gone) ==
  [v EXCEPT !.final = h, !.blocks = @ \ gone,
            !.ok = @ /\ gone \subseteq v.blocks /\ (v.best \in gone => v.best = h)]

\* snapshotEvents(): the initialized event, the new blocks on known parents, and the
\* best block.
Replay(s, t) ==
  LET shown == Within(s.newBlocks, {b \in Block : Knows(t, parent[b])})
      seen[i \in 0..Len(shown)] ==
        IF i = 0 THEN SeeInitialized(s.final) ELSE SeeBlock(seen[i - 1], shown[i])
      blocks == seen[Len(shown)]
  IN IF s.best = None THEN blocks ELSE SeeBest(blocks, s.best)

\* An event is sent to every client whose stream is live.
Deliver(seen) ==
  view' = [c \in Client |-> IF stream[c] = "live" THEN seen[c] ELSE view[c]]

\* update() of each event, whichever follow it is of.  `initialized` then looks at pending
\* blocks.
KeepInitialized(h) ==
  LET flushed == FlushPending(Remember(tracker, h))
  IN /\ tracker' = flushed[1]
     /\ snap' = [snap EXCEPT !.final = h, !.newBlocks = @ \o flushed[2]]

\* A new block on a parent the tracker does not know is kept for later.  Otherwise what
\* waited for it is added to the snapshot, then it is.
KeepBlock(b) ==
  IF Knows(tracker, parent[b])
  THEN LET flushed == FlushPending(Remember(tracker, b))
       IN /\ tracker' = flushed[1]
          /\ snap' = [snap EXCEPT !.newBlocks = (@ \o flushed[2]) \o <<b>>]
  ELSE /\ tracker' = [tracker EXCEPT !.pending = IF Contains(@, b) THEN @ ELSE Append(@, b)]
       /\ UNCHANGED snap

KeepBest(b) == tracker' = Remember(tracker, b) /\ snap' = [snap EXCEPT !.best = b]

\* Whoever waited for `initialized` is sent the snapshot and goes on with the live events.
Replayed(h) ==
  /\ stream' = [c \in Client |-> IF stream[c] = "waiting" THEN "live" ELSE stream[c]]
  /\ view' = [c \in Client |->
                IF stream[c] = "waiting"
                THEN Replay([snap EXCEPT !.final = h], Remember(tracker, h)) ELSE view[c]]

\* `initialized`.
Initialized ==
  /\ phase = "on" /\ final = None
  /\ final' = 0
  /\ IF Listening THEN KeepInitialized(0) /\ Replayed(0)
     ELSE UNCHANGED <<tracker, snap, stream, view>>
  /\ UNCHANGED <<parent, ahead, best, unsent, liveSub, phase, other>>

\* `newBlock`; a block that is kept for later is sent to nobody.
NewBlock(b) ==
  /\ phase = "on" /\ final # None
  /\ b \in unsent /\ Cardinality(ahead) < Window
  /\ parent[b] \in ahead \cup {final}
  /\ unsent' = unsent \ {b}
  /\ ahead' = ahead \cup {b}
  /\ LET seen == [c \in Client |-> SeeBlock(view[c], b)]
     IN IF Listening /\ Knows(tracker, parent[b]) THEN Deliver(seen) ELSE UNCHANGED view
  /\ IF Listening THEN KeepBlock(b) ELSE UNCHANGED <<tracker, snap>>
  /\ UNCHANGED <<parent, final, best, liveSub, stream, phase, other>>

\* `bestBlockChanged`.
BestBlockChanged(b) ==
  /\ phase = "on" /\ b \in ahead \ {best}
  /\ best' = b
  /\ LET seen == [c \in Client |-> SeeBest(view[c], b)]
     IN IF Listening THEN KeepBest(b) /\ Deliver(seen) ELSE UNCHANGED <<tracker, snap, view>>
  /\ UNCHANGED <<parent, ahead, final, unsent, liveSub, stream, phase, other>>

Ancestors(b) ==
  LET up[c \in Hash] == IF c \in ahead THEN {c} \cup up[parent[c]] ELSE {}
  IN up[b]

\* Bugs: a block stays in the snapshot when it is finalized; when it is pruned.
Trimmed_OffByOne(newBlocks, h, pruned) ==
  LET rest == Within(newBlocks, {b \in Block : {b, parent[b]} \cap pruned = {}})
      at == {i \in 1..Len(rest) : rest[i] = h}
  IN IF at = {} THEN rest
     ELSE LET i == CHOOSE i \in at : \A j \in at : i <= j
          IN SubSeq(rest, i, Len(rest))
Trimmed_KeepsPruned(newBlocks, h, pruned) ==
  LET at == {i \in 1..Len(newBlocks) : newBlocks[i] = h}
  IN IF at = {} THEN newBlocks
     ELSE LET i == CHOOSE i \in at : \A j \in at : i <= j
          IN SubSeq(newBlocks, i + 1, Len(newBlocks))

\* The new blocks of the snapshot without pruned ones, and without what came before
\* the finalized block.
Trimmed(newBlocks, h, pruned) ==
  LET rest == Within(newBlocks, {b \in Block : {b, parent[b]} \cap pruned = {}})
      at == {i \in 1..Len(rest) : rest[i] = h}
  IN IF at = {} THEN rest
     ELSE LET i == CHOOSE i \in at : \A j \in at : i <= j
          IN SubSeq(rest, i + 1, Len(rest))

KeepFinalized(h, pruned) ==
  LET trimmed == Trimmed(snap.newBlocks, h, pruned)
      flushed == FlushPending(Remember(Forget(tracker, pruned), h))
  IN /\ tracker' = flushed[1]
     /\ snap' = [final |-> IF snap.final = None THEN None ELSE h,
                 best |-> IF snap.best \in pruned \cup {h} THEN None ELSE snap.best,
                 newBlocks |-> trimmed \o flushed[2]]

\* A block and all it is on top of.  The node finalizes blocks of one line only, also when
\* one follow hears of it later than the other.
Line(b) ==
  LET up[c \in Hash] == {c} \cup IF c = 0 THEN {} ELSE up[parent[c]]
  IN up[b]
OnLine(h, f) == f # None => h \in Line(f) \/ f \in Line(h)

\* `finalized`: the node finalizes h and its ancestors and prunes what is not on top
\* of it; its best block is h or on top of it by then.
Finalized(h) ==
  LET gone == {b \in ahead : h \notin Ancestors(b)} \cup {h}
      seen == [c \in Client |-> SeeFinalized(view[c], h, gone)]
  IN /\ phase = "on" /\ h \in ahead /\ h \in Ancestors(best)
     /\ ~Alone => OnLine(h, other.final)
     /\ final' = h
     /\ ahead' = ahead \ gone
     /\ IF Listening THEN KeepFinalized(h, gone \ Ancestors(h)) /\ Deliver(seen)
        ELSE UNCHANGED <<tracker, snap, view>>
     /\ UNCHANGED <<parent, best, unsent, liveSub, stream, phase, other>>

-----------------------------------------------------------------------------
\* What `initialized$` is to a client that subscribes.
Subject ==
  IF ~Alone /\ other.subject # "shared" THEN other.subject
  ELSE IF snap.final = None THEN "pending" ELSE "emitted"

\* A client subscribes: it is sent the snapshot and goes on with the live events, or
\* waits for `initialized`; or its stream ends at once.
Join(c) ==
  /\ phase = "on" /\ stream[c] = "absent"
  /\ \/ /\ Subject = "pending"
        /\ stream' = [stream EXCEPT ![c] = "waiting"]
        /\ UNCHANGED <<view, liveSub>>
     \/ /\ Subject = "emitted"
        /\ stream' = [stream EXCEPT ![c] = "live"]
        /\ view' = IF snap.final = None THEN view
                   ELSE [view EXCEPT ![c] = Replay(snap, tracker)]
        /\ UNCHANGED liveSub
     \/ /\ Subject = "completed"
        /\ stream' = [stream EXCEPT ![c] = "ended"]
        /\ liveSub' = FALSE
        /\ UNCHANGED view
  /\ UNCHANGED <<node, tracker, snap, phase, other>>

\* Its stream ends without a word when `initialized` does not come in ten seconds;
\* the teardown of a stream closes liveSub, too.
InitTimeout(c) ==
  /\ phase = "on" /\ stream[c] = "waiting"
  /\ stream' = [stream EXCEPT ![c] = "ended"]
  /\ liveSub' = FALSE
  /\ UNCHANGED <<node, tracker, snap, phase, view, other>>

\* A client leaves; the last one takes the follow along.
Leave(c) ==
  /\ phase = "on" /\ stream[c] \in {"waiting", "live", "ended"}
  /\ stream' = [stream EXCEPT ![c] = "left"]
  /\ liveSub' = FALSE
  /\ phase' = IF \E d \in Client \ {c} : stream[d] \in {"waiting", "live", "ended"}
              THEN "on" ELSE "over"
  /\ view' = [view EXCEPT ![c] = Nothing]
  /\ UNCHANGED <<node, tracker, snap, other>>

\* resetState() forgets what the manager knows.
Reset ==
  /\ tracker' = [tracker EXCEPT !.known = <<>>]
  /\ snap' = NoSnapshot

\* The node stops the follow, or was silent for a minute (watchdog): every stream ends.
StreamEnds ==
  /\ Listening
  /\ phase' = "over"
  /\ stream' = [c \in Client |-> IF stream[c] \in {"waiting", "live"} THEN "ended" ELSE stream[c]]
  /\ view' = [c \in Client |-> Nothing]
  /\ Reset
  /\ UNCHANGED <<node, liveSub, other>>

-----------------------------------------------------------------------------
\* A follow is created under a key that is taken and finds the manager there: another
\* follow that of this one, or this one that of another.  A manager whose follow is over
\* is not found any more.
Collide ==
  /\ phase = "on" /\ Alone
  /\ other' = Starting
  /\ UNCHANGED <<node, manager, stream, view>>
Found ==
  /\ phase = "unborn"
  /\ phase' = "on" /\ liveSub' = TRUE
  /\ UNCHANGED <<node, tracker, snap, stream, view, other>>

\* The other follow runs; its clients are not of interest, only that the manager hears
\* its events as long as it listens to them for one of these.
OtherOn == phase # "over" /\ ~Alone /\ other.on
OtherStep(told) ==
  /\ other.events < MaxEvents
  /\ \/ told \/ UNCHANGED <<tracker, snap, stream, view>>
  /\ UNCHANGED <<node, liveSub, phase>>

OtherInitialized(h) ==
  /\ OtherOn /\ other.final = None /\ OnLine(h, final)
  /\ other' = [other EXCEPT !.final = h, !.events = @ + 1]
  /\ OtherStep(KeepInitialized(h) /\ Replayed(h))
OtherNewBlock(b) ==
  /\ OtherOn /\ other.final # None
  /\ b \notin other.ahead /\ Cardinality(other.ahead) < Window
  /\ parent[b] \in other.ahead \cup {other.final}
  /\ other' = [other EXCEPT !.ahead = @ \cup {b}, !.events = @ + 1]
  /\ OtherStep(KeepBlock(b) /\ UNCHANGED <<stream, view>>)
OtherBest(b) ==
  /\ OtherOn /\ b \in other.ahead
  /\ other' = [other EXCEPT !.events = @ + 1]
  /\ OtherStep(KeepBest(b) /\ UNCHANGED <<stream, view>>)
OtherFinalized(h) ==
  LET gone == {b \in other.ahead : h \notin Line(b)} \cup {h}
  IN /\ OtherOn /\ h \in other.ahead /\ OnLine(h, final)
     /\ other' = [other EXCEPT !.final = h, !.ahead = @ \ gone, !.events = @ + 1]
     /\ OtherStep(KeepFinalized(h, gone \ Line(h)) /\ UNCHANGED <<stream, view>>)

\* The other follow is stopped or silent: resetState() ends the streams of this one that
\* wait, and leaves the live ones without a snapshot behind them.
OtherEnds ==
  /\ OtherOn /\ phase = "on"
  /\ Reset
  /\ other' = [other EXCEPT !.on = FALSE,
                            !.subject = IF snap.final = None THEN "completed" ELSE "emitted"]
  /\ stream' = [c \in Client |-> IF stream[c] = "waiting" THEN "ended" ELSE stream[c]]
  /\ liveSub' = (liveSub /\ \A c \in Client : stream[c] # "waiting")
  /\ UNCHANGED <<node, phase, view>>

\* The last client of the other follow leaves.
OtherLeaves ==
  /\ OtherOn /\ phase = "on"
  /\ other' = [other EXCEPT !.on = FALSE]
  /\ UNCHANGED <<node, manager, stream, view>>

NodeStep ==
  \/ Initialized
  \/ \E b \in Block : NewBlock(b) \/ BestBlockChanged(b) \/ Finalized(b)
ClientStep(c) == Join(c) \/ InitTimeout(c) \/ Leave(c)
SharedStep ==
  \/ Collide \/ Found \/ OtherEnds \/ OtherLeaves
  \/ \E h \in Hash : OtherInitialized(h)
  \/ \E b \in Block : OtherNewBlock(b) \/ OtherBest(b) \/ OtherFinalized(b)
Next == NodeStep \/ StreamEnds \/ SharedStep \/ \E c \in Client : ClientStep(c)

Spec == Init /\ [][Next]_vars

-----------------------------------------------------------------------------
\* A client whose stream is live knows what it would know from a follow of its own,
\* whenever it joined: the snapshot and the live events together are a legal follow.
\* Only for a manager that no other follow found under its key.
SameView ==
  \A c \in Client : Alone /\ phase = "on" /\ stream[c] = "live" =>
    view[c] = [final |-> final, best |-> best, blocks |-> ahead, ok |-> TRUE]

\* Although the tracker forgets, a block on top of the finalized one or ahead of it is
\* never taken for one with an unknown parent.
KnownCovers ==
  /\ ahead \cup {final} \subseteq Range(tracker.known)
  /\ tracker.pending = <<>>

\* While the manager listens, and to one follow only, the snapshot holds every block ahead
\* of finality once and nothing else: it does not grow with the chain, forks leave it, and
\* it may go on, since the tracker knows the parent of every block to come.
SnapshotExact ==
  /\ TypeOK
  /\ Alone /\ Listening /\ final # None =>
       /\ snap.final = final
       /\ Range(snap.newBlocks) = ahead /\ Len(snap.newBlocks) = Cardinality(ahead)
       /\ KnownCovers
=============================================================================
