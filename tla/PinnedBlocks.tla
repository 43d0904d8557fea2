----------------------------- MODULE PinnedBlocks -----------------------------
(***************************************************************************)
(* Virtual unpinning of the blocks of one shared follow                     *)
(* (chain-head/state/pinned.ts), called by chainHead_v1_unpin and by the    *)
(* unsubscriber of each client.  The follow itself, with its subscribers    *)
(* as FollowLifecycle has them, is reduced to who is subscribed, and to      *)
(* whether it is found.                                                    *)
(*                                                                         *)
(* One step is one turn of the event loop, but for the loop over the hashes *)
(* of one unpin, which takes a step per hash before the next event (the     *)
(* guard Idle).                                                             *)
(***************************************************************************)
EXTENDS Filter, FiniteSets

CONSTANTS Subscriber,
          Pinnable,
          MaxHashes  \* MAX_HASHES_PER_UPSTREAM

ASSUME PinnedAssumption == MaxHashes \in Nat \ {0, 1}

VARIABLES
  subs,      \* localSubs of the follow
  found,     \* the pool it is listed in is the one that lookups find
  still,     \* stillPinned: who has to unpin a block yet; {} when it has no entry
  order,     \* its hashes as the Map has them, the oldest first
  todo,      \* rest of the unpin being handled: <<client, hash>> pairs
  reported,  \* blocks the node reported
  unpinned,  \* blocks the node was sent an unpin of
  holds,     \* blocks each client was told of and has not unpinned
  spent,     \* those it has unpinned
  begun,     \* history: blocks that somebody unpinned
  late,      \* history: blocks a client holds and was told of after that
  forgotten, \* history: blocks whose entry was evicted
  ignored    \* history: blocks that somebody unpinned when the follow was not found

pins == <<still, order, todo>>
nodeBlocks == <<reported, unpinned>>
views == <<holds, spent>>
history == <<begun, late, forgotten, ignored>>
pinsVars == <<subs, found, pins, nodeBlocks, views, history>>

\* The Map has an entry exactly for the blocks that somebody has to unpin yet, and
\* stays below its maximum.
PinsTypeOK ==
  /\ subs \subseteq Subscriber /\ found \in BOOLEAN
  /\ still \in [Pinnable -> SUBSET Subscriber]
  /\ order \in Seq(Pinnable)
  /\ Len(order) < MaxHashes
  /\ {order[i] : i \in 1..Len(order)} = {h \in Pinnable : still[h] # {}}
  /\ todo \in Seq(Subscriber \X Pinnable)
  /\ unpinned \subseteq begun /\ begun \subseteq reported /\ reported \subseteq Pinnable
  /\ holds \in [Subscriber -> SUBSET Pinnable]
  /\ spent \in [Subscriber -> SUBSET Pinnable]
  /\ \A c \in Subscriber : late[c] \subseteq holds[c] \ spent[c]
  /\ forgotten \subseteq Pinnable /\ ignored \subseteq begun

PinsInit ==
  /\ subs = {} /\ found \in BOOLEAN
  /\ still = [h \in Pinnable |-> {}]
  /\ order = <<>> /\ todo = <<>>
  /\ reported = {} /\ unpinned = {}
  /\ holds = [c \in Subscriber |-> {}]
  /\ spent = [c \in Subscriber |-> {}]
  /\ late = [c \in Subscriber |-> {}]
  /\ begun = {} /\ forgotten = {} /\ ignored = {}

-----------------------------------------------------------------------------
Idle == todo = <<>>

\* Local ids of clients that closed and that some set still has.  Such an id is not used
\* again; any other client that is not on the follow may be a new one.
Dead == {c \in Subscriber \ subs : \E h \in Pinnable : c \in still[h]}

\* The node reports a new block to everybody on the follow.
Report(h) ==
  /\ Idle /\ h \notin reported
  /\ reported' = reported \cup {h}
  /\ holds' = [c \in Subscriber |-> holds[c] \cup {b \in {h} : c \in subs}]
  /\ UNCHANGED <<subs, found, pins, unpinned, spent, history>>

\* subscribeLocal: the client is told of the blocks in the snapshot, which leaves out
\* what was finalized or pruned before.
Subscribe(c, snapshot) ==
  /\ Idle /\ c \notin subs \cup Dead
  /\ subs' = subs \cup {c}
  /\ holds' = [holds EXCEPT ![c] = snapshot]
  /\ late' = [late EXCEPT ![c] = snapshot \cap begun]
  /\ UNCHANGED <<found, pins, nodeBlocks, spent, begun, forgotten, ignored>>

\* chainHead_v1_unpin of one hash or of a list, for blocks the client was told of, also
\* more than once.
Unpin(c, hashes) ==
  /\ Idle /\ c \in subs
  /\ \A i \in 1..Len(hashes) : hashes[i] \in holds[c] \cup spent[c]
  /\ todo' = [i \in 1..Len(hashes) |-> <<c, hashes[i]>>]
  /\ UNCHANGED <<subs, found, still, order, nodeBlocks, views, history>>

\* Bug: the first to unpin is the only one who has to.
Pinners_OnlyMe(c, h) == (IF still[h] # {} THEN still[h] \cap subs ELSE {c}) \ {c}

\* Who has to unpin h when c has: at first everybody on the follow, later whoever is
\* left of those.
Pinners(c, h) == (IF still[h] # {} THEN still[h] \cap subs ELSE subs) \ {c}

\* A new entry makes the Map lose its oldest one at the maximum.
Evicted(h) == IF still[h] = {} /\ Len(order) + 1 >= MaxHashes THEN {Head(order)} ELSE {}

\* The loop body of unpinLocal.
UnpinEntry(c, h) ==
  LET entries == IF still[h] # {} THEN order ELSE Append(order, h)
      dropped == Evicted(h) \cup {b \in {h} : Pinners(c, h) = {}}
  IN /\ still' = [b \in Pinnable |-> IF b \in dropped THEN {}
                                   ELSE IF b = h THEN Pinners(c, h) ELSE still[b]]
     /\ order' = Within(entries, Pinnable \ dropped)
     /\ unpinned' = unpinned \cup {b \in {h} : Pinners(c, h) = {}}
     /\ forgotten' = forgotten \cup Evicted(h)
     /\ UNCHANGED ignored

\* A follow that is not found: the client is not told that nothing came of it.
UnpinIgnored(h) ==
  /\ ignored' = ignored \cup {h}
  /\ UNCHANGED <<still, order, unpinned, forgotten>>

\* unpinLocal, one hash of it.
UnpinNext ==
  /\ todo # <<>>
  /\ LET c == Head(todo)[1]
         h == Head(todo)[2]
     IN /\ IF found THEN UnpinEntry(c, h) ELSE UnpinIgnored(h)
        /\ holds' = [holds EXCEPT ![c] = @ \ {h}]
        /\ spent' = [spent EXCEPT ![c] = @ \cup {h}]
        /\ late' = [late EXCEPT ![c] = @ \ {h}]
        /\ begun' = begun \cup {h}
  /\ todo' = Tail(todo)
  /\ UNCHANGED <<subs, found, reported>>

\* The pool of the follow is not the one lookups find any more: another one of its name
\* emptied and took it out of `groups`.
Orphaned ==
  /\ Idle /\ found
  /\ found' = FALSE
  /\ UNCHANGED <<subs, pins, nodeBlocks, views, history>>

\* The follow is destroyed, `unfollow` forgets what was pinned on it, and the node what it
\* reported.  Who subscribes next is on a new follow, in the pool lookups find or in one
\* that they lost while the node was asked.
Destroyed ==
  /\ subs' = {} /\ found' \in BOOLEAN
  /\ still' = [h \in Pinnable |-> {}]
  /\ order' = <<>>
  /\ reported' = {} /\ unpinned' = {}
  /\ holds' = [c \in Subscriber |-> {}]
  /\ spent' = [c \in Subscriber |-> {}]
  /\ late' = [c \in Subscriber |-> {}]
  /\ begun' = {} /\ forgotten' = {} /\ ignored' = {}

\* One of several clients leaves the follow.
Leaves(c) ==
  /\ subs' = subs \ {c}
  /\ holds' = [holds EXCEPT ![c] = {}]
  /\ spent' = [spent EXCEPT ![c] = {}]
  /\ late' = [late EXCEPT ![c] = {}]
  /\ UNCHANGED <<found, reported, begun, forgotten, ignored>>

\* Bug: an entry nobody is left in is dropped without the node being told.
GivenUp_Silently(c) == {}

\* Blocks that only c had to unpin yet.
GivenUp(c) == {h \in Pinnable : still[h] = {c}}

\* The unsubscriber, called by chainHead_v1_unfollow: unsubscribeLocal of the pinned
\* blocks, which needs to find the follow, then of the follow, which the last one to leave
\* destroys.
Unfollow(c) ==
  /\ Idle /\ c \in subs
  /\ IF subs = {c}
     THEN Destroyed
     ELSE /\ Leaves(c)
          /\ IF found
             THEN /\ still' = [h \in Pinnable |-> still[h] \ {c}]
                  /\ order' = Within(order, {h \in Pinnable : still[h] # {c}})
                  /\ unpinned' = unpinned \cup GivenUp(c)
             ELSE UNCHANGED <<still, order, unpinned>>
  /\ UNCHANGED todo

\* The websocket of a client closes: its close function leaves the follow and drops the
\* unsubscriber, and the pinned blocks are not told.
Close(c) ==
  /\ Idle /\ c \in subs
  /\ IF subs = {c}
     THEN Destroyed
     ELSE Leaves(c) /\ UNCHANGED <<still, order, unpinned>>
  /\ UNCHANGED todo

\* The follow ends for everybody: the connection is lost, or the manager gives up.
End ==
  /\ Idle /\ subs # {}
  /\ Destroyed
  /\ UNCHANGED todo

PinsNext ==
  \/ \E h \in Pinnable : Report(h)
  \/ \E c \in Subscriber, snapshot \in SUBSET reported : Subscribe(c, snapshot)
  \/ \E c \in Subscriber, g, h \in Pinnable : Unpin(c, <<h>>) \/ (g # h /\ Unpin(c, <<g, h>>))
  \/ UnpinNext \/ Orphaned
  \/ \E c \in Subscriber : Unfollow(c) \/ Close(c)
  \/ End

PinsSpec == PinsInit /\ [][PinsNext]_pinsVars

-----------------------------------------------------------------------------
\* The node is asked to unpin a block only when every subscriber has unpinned it that
\* was told of it before the first unpin, whoever came, left or closed meanwhile.
ReleasedByAll ==
  \A h \in unpinned, c \in subs : h \in holds[c] => h \in late[c]

\* A block that somebody unpinned stays pinned at the node only because of a client that
\* holds it, that was never told of it, or that is gone without unpinning it (it closed, or
\* the follow was not found when it unfollowed), or because its entry was evicted, or an
\* unpin of it was ignored since the follow was not found; never because of a client whose
\* unpin was heard.
LingersForSomeone ==
  \A h \in begun \ (unpinned \cup forgotten \cup ignored) :
    \E c \in still[h] : c \in Dead \/ h \notin spent[c]

\* The Map is below its maximum, and what it has and what it lost account for every block
\* that lingers.
EntriesSound == PinsTypeOK /\ LingersForSomeone
=============================================================================
