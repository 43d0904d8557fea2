-------------------------- MODULE ConcurrentCreator --------------------------
(***************************************************************************)
(* The single-flight creator of util/concurrent-creator.ts.  While one     *)
(* caller runs `createFn` for a key, later callers of that key wait on its  *)
(* promise instead of starting another; at most MaxWaiters - 1 of them,     *)
(* the others fail with TooManyWaitersError.                                *)
(*                                                                         *)
(* Call is the set of invocations of getOrCreate.  An invocation that runs  *)
(* createFn also names the entry {promise, waiting} it puts into `creating`:*)
(* the object stays reachable from its waiters after the entry is deleted.  *)
(* Every `await` is a point where the other invocations may run.            *)
(***************************************************************************)
EXTENDS Naturals, FiniteSets

CONSTANTS Call,       \* invocations of getOrCreate
          Key,        \* keys they may ask for
          MaxWaiters, \* options.maxWaiting
          NoCall      \* absence of an entry in the map

ASSUME CreatorAssumption ==
  /\ IsFiniteSet(Call)
  /\ MaxWaiters \in Nat
  /\ NoCall \notin Call

VARIABLES
  creating,   \* the map: key -> the invocation whose promise is pending
  waiting,    \* the `waiting` field of the entry an invocation created
  promise,    \* the promise of an entry: pending, or how it settled
  pc,         \* where each invocation stands
  awaits      \* the invocation whose promise each invocation awaits

creatorVars == <<creating, waiting, promise, pc, awaits>>

Outcome == {"ok", "error"}
Returned == Outcome \cup {"tooMany"}

CreatorTypeOK ==
  /\ creating \in [Key -> Call \cup {NoCall}]
  /\ waiting \in [Call -> Nat]
  /\ promise \in [Call -> {"none", "pending"} \cup Outcome]
  /\ pc \in [Call -> {"idle", "creator", "waiter"} \cup Returned]
  /\ awaits \in [Call -> Call \cup {NoCall}]

CreatorInit ==
  /\ creating = [k \in Key |-> NoCall]
  /\ waiting = [c \in Call |-> 0]
  /\ promise = [c \in Call |-> "none"]
  /\ pc = [c \in Call |-> "idle"]
  /\ awaits = [c \in Call |-> NoCall]

-----------------------------------------------------------------------------
\* getOrCreate(key) finds no entry: start createFn and publish its promise.
Create(c, k) ==
  /\ pc[c] = "idle"
  /\ creating[k] = NoCall
  /\ creating' = [creating EXCEPT ![k] = c]
  /\ promise' = [promise EXCEPT ![c] = "pending"]
  /\ pc' = [pc EXCEPT ![c] = "creator"]
  /\ awaits' = [awaits EXCEPT ![c] = c]
  /\ UNCHANGED waiting

\* Bug: one waiter more than there may be.
Join_OffByOne(c, k) ==
  /\ pc[c] = "idle"
  /\ creating[k] # NoCall
  /\ waiting[creating[k]] + 1 <= MaxWaiters
  /\ waiting' = [waiting EXCEPT ![creating[k]] = @ + 1]
  /\ pc' = [pc EXCEPT ![c] = "waiter"]
  /\ awaits' = [awaits EXCEPT ![c] = creating[k]]
  /\ UNCHANGED <<creating, promise>>

\* getOrCreate(key) finds an entry that may take one more waiter.
Join(c, k) ==
  /\ pc[c] = "idle"
  /\ creating[k] # NoCall
  /\ waiting[creating[k]] + 1 < MaxWaiters
  /\ waiting' = [waiting EXCEPT ![creating[k]] = @ + 1]
  /\ pc' = [pc EXCEPT ![c] = "waiter"]
  /\ awaits' = [awaits EXCEPT ![c] = creating[k]]
  /\ UNCHANGED <<creating, promise>>

\* getOrCreate(key) finds an entry that is full: TooManyWaitersError.
TooManyWaiters(c, k) ==
  /\ pc[c] = "idle"
  /\ creating[k] # NoCall
  /\ waiting[creating[k]] + 1 >= MaxWaiters
  /\ pc' = [pc EXCEPT ![c] = "tooMany"]
  /\ UNCHANGED <<creating, waiting, promise, awaits>>

\* Bug: the entry stays in the map.
Settle_Kept(c, k, outcome) ==
  /\ promise[c] = "pending"
  /\ creating[k] = c
  /\ promise' = [promise EXCEPT ![c] = outcome]
  /\ UNCHANGED <<creating, waiting, pc, awaits>>

\* createFn returns or throws: the finally block deletes the entry of the key
\* and the promise settles with that outcome.
Settle(c, k, outcome) ==
  /\ promise[c] = "pending"
  /\ creating[k] = c
  /\ creating' = [creating EXCEPT ![k] = NoCall]
  /\ promise' = [promise EXCEPT ![c] = outcome]
  /\ UNCHANGED <<waiting, pc, awaits>>

\* The creator goes on after `await promise`.
CreatorReturns(c) ==
  /\ pc[c] = "creator"
  /\ promise[c] \in Outcome
  /\ pc' = [pc EXCEPT ![c] = promise[c]]
  /\ UNCHANGED <<creating, waiting, promise, awaits>>

\* Bug: only a fulfilled promise is handled.
WaiterReturns_OnlyOk(c) ==
  /\ pc[c] = "waiter"
  /\ promise[awaits[c]] = "ok"
  /\ waiting' = [waiting EXCEPT ![awaits[c]] = @ - 1]
  /\ pc' = [pc EXCEPT ![c] = "ok"]
  /\ UNCHANGED <<creating, promise, awaits>>

\* A waiter goes on after `await existing.promise`, through its finally block.
WaiterReturns(c) ==
  /\ pc[c] = "waiter"
  /\ promise[awaits[c]] \in Outcome
  /\ waiting' = [waiting EXCEPT ![awaits[c]] = @ - 1]
  /\ pc' = [pc EXCEPT ![c] = promise[awaits[c]]]
  /\ UNCHANGED <<creating, promise, awaits>>

CallStep(c, k) == Create(c, k) \/ Join(c, k) \/ TooManyWaiters(c, k)
SettleStep(c) == \E k \in Key, outcome \in Outcome : Settle(c, k, outcome)
ReturnStep(c) == CreatorReturns(c) \/ WaiterReturns(c)

CreatorNext ==
  \E c \in Call : \/ \E k \in Key : CallStep(c, k)
                  \/ SettleStep(c)
                  \/ ReturnStep(c)

\* createFn ends: in this code base it is bounded by a request timeout.  The
\* event loop runs the continuation of a settled promise.
CreatorFairness == \A c \in Call : WF_creatorVars(SettleStep(c)) /\ WF_creatorVars(ReturnStep(c))

CreatorSpec == CreatorInit /\ [][CreatorNext]_creatorVars /\ CreatorFairness

-----------------------------------------------------------------------------
WaitersOn(g) == {c \in Call : pc[c] = "waiter" /\ awaits[c] = g}

\* One flight per key: a pending promise is the entry of exactly one key, so the
\* finally block of an older flight never deletes the entry of a newer one.
SingleFlight ==
  /\ \A g \in Call : promise[g] = "pending" => \E k \in Key : creating[k] = g
  /\ \A k \in Key : creating[k] # NoCall => promise[creating[k]] = "pending"
  /\ \A k, l \in Key : creating[k] = creating[l] /\ creating[k] # NoCall => k = l

\* The `waiting` field counts the invocations that really wait on the promise,
\* also after the entry has left the map and while the waiters resume one by one.
WaitingIsExact == \A g \in Call : waiting[g] = Cardinality(WaitersOn(g))

\* No more than MaxWaiters - 1 invocations ever wait on one promise.
WaitersBounded == \A g \in Call : waiting[g] < MaxWaiters \/ waiting[g] = 0

\* What makes the invariants above inductive: an idle invocation has left no trace,
\* and a waiter awaits the promise of some invocation.
Started ==
  /\ \A c \in Call : pc[c] = "idle" => promise[c] = "none" /\ waiting[c] = 0
  /\ \A c \in Call : pc[c] = "waiter" => awaits[c] \in Call

\* The map, the promises and their waiting counts are right at every moment: also when an
\* older flight settles after a newer one began, and while waiters resume one by one.
FlightsSound == CreatorTypeOK /\ SingleFlight /\ WaitingIsExact /\ WaitersBounded

CreatorInv == CreatorTypeOK /\ SingleFlight /\ WaitingIsExact /\ WaitersBounded /\ Started

\* What callers see is CreateOnce: the outcome of a flight is that of all who wait on it from
\* the moment it settles, whenever they resume, and a call that comes then begins a new one.
Pending(g) == {c \in Call : pc[c] \in {"creator", "waiter"} /\ awaits[c] = g}
Seen == [c \in Call |->
  IF pc[c] = "idle" THEN "none"
  ELSE IF pc[c] = "tooMany" THEN "error"
  ELSE IF pc[c] \in Outcome THEN pc[c] ELSE promise[awaits[c]]]
Sharing == [k \in Key |-> IF creating[k] = NoCall THEN {} ELSE Pending(creating[k])]
Once == INSTANCE CreateOnce WITH Limit <- MaxWaiters, outcome <- Seen, party <- Sharing
CreatesOnce == Once!Spec

\* Every invocation that got in comes back: nobody waits on a promise forever.
EveryCallReturns ==
  \A c \in Call : pc[c] \in {"creator", "waiter"} ~> pc[c] \in Returned
=============================================================================
