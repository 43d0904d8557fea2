------------------------ MODULE FollowLifecycleProofs ------------------------
(* Safety of the follow lifecycle, for any number of clients and requests; and  *)
(* of the single-flight creator that makes its follows.                       *)
EXTENDS FollowLifecycle, ConcurrentCreator, InductionLemmas

\* The invariant the steps preserve together.
Inv == TypeOK /\ SlotsSound /\ CloseFnsCover /\ LocalsOpen /\ RegistriesAgree

\* Sizes are numbers.
LEMMA SizeType == ASSUME NEW S \in SUBSET Request PROVE Cardinality(S) \in Nat
  BY FollowAssumption, FS_Subset, FS_CardinalityType
LEMMA ListedType == \A p : Listed(p) \subseteq Request
  BY DEF Listed
LEMMA SlotType == \A p, k : Slot(p, k) \subseteq Request
  BY DEF Slot, Listed

\* leastLoaded is an entry of the pool or nothing.
LEMMA LeastLoadedType ==
  ASSUME NEW S \in SUBSET Request PROVE LeastLoaded(S) \in S \cup {None}
         BY DEF LeastLoaded

LEMMA LeastAfterType ==
  ASSUME NEW touched, least \in [Request -> MaybeRequest]
  PROVE  LeastAfter(touched) \in [Request -> MaybeRequest]
<1>1. \A p : (Least(p) \in MaybeRequest)'
  BY DEF Least, LeastLoaded, Listed, MaybeRequest
<1> QED BY <1>1 DEF LeastAfter

LEMMA LeftType ==
  ASSUME TypeOK, NEW L PROVE Left(L) \in [Request -> SUBSET Client]
         BY DEF TypeOK, Left

LEMMA EmptiedType ==
  ASSUME NEW L PROVE Emptied(L) \subseteq Request
         BY DEF Emptied

\* What subscriptions that leave look like afterwards.
LEMMA DiscardType ==
  ASSUME TypeOK, NEW left \in [Request -> SUBSET Client], NEW ended, NEW evicted,
         Discard(left, ended, evicted)
  PROVE  /\ locals' \in [Request -> SUBSET Client]
         /\ rank' \in [Request -> Nat]
         /\ pool' \in [Request -> MaybeRequest]
         /\ key' \in [Request -> Nat]
  BY DEF TypeOK, Discard

LEMMA PhaseType ==
  ASSUME TypeOK, NEW left, NEW ended, NEW evicted
  PROVE  PhaseAfter(left, ended, evicted) \in
           [Request -> {"absent", "live", "stopped", "destroyed"}]
  BY DEF TypeOK, PhaseAfter

LEMMA GroupType ==
  ASSUME TypeOK, NEW released PROVE GroupAfter(released) \in MaybeRequest
         BY DEF TypeOK, GroupAfter, MaybeRequest

LEMMA ForgetType ==
  ASSUME TypeOK, Forget
  PROVE  manager' \in [Request -> MaybeRequest] /\ managers' \subseteq Request
         BY DEF TypeOK, Forget

LEMMA LeaveType ==
  ASSUME TypeOK, NEW L, Leave(L)
  PROVE  /\ locals' \in [Request -> SUBSET Client]
         /\ rank' \in [Request -> Nat]
         /\ pool' \in [Request -> MaybeRequest]
         /\ key' \in [Request -> Nat]
         /\ phase' \in [Request -> {"absent", "live", "stopped", "destroyed"}]
         /\ index' \subseteq Client \X Request
         /\ group' \in MaybeRequest
         /\ least' \in [Request -> MaybeRequest]
         /\ alive' \subseteq Request
         /\ releasing' \subseteq Request
         /\ manager' \in [Request -> MaybeRequest]
         /\ managers' \subseteq Request
<1>1. /\ locals' \in [Request -> SUBSET Client] /\ rank' \in [Request -> Nat]
      /\ pool' \in [Request -> MaybeRequest] /\ key' \in [Request -> Nat]
  BY LeftType, DiscardType DEF Leave
<1>2. phase' \in [Request -> {"absent", "live", "stopped", "destroyed"}]
  BY PhaseType DEF Leave
<1>3. group' \in MaybeRequest
  BY GroupType DEF Leave
<1>4. least' \in [Request -> MaybeRequest]
  BY LeastAfterType DEF Leave, TypeOK
<1>5. index' \subseteq Client \X Request
  BY DEF Leave, TypeOK
<1>6. alive' \subseteq Request /\ releasing' \subseteq Request
  BY DEF Leave, TypeOK, Unfollowing, Dropped
<1>7. manager' \in [Request -> MaybeRequest] /\ managers' \subseteq Request
  BY ForgetType DEF Leave
<1> QED BY <1>1, <1>2, <1>3, <1>4, <1>5, <1>6, <1>7

LEMMA ReleaseType ==
  ASSUME TypeOK, NEW p, NEW k, ReleaseSlot(p, k)
  PROVE  /\ locals' \in [Request -> SUBSET Client]
         /\ rank' \in [Request -> Nat]
         /\ pool' \in [Request -> MaybeRequest]
         /\ key' \in [Request -> Nat]
         /\ index' \subseteq Client \X Request
         /\ unsubs' \subseteq Client \X Request
         /\ group' \in MaybeRequest
         /\ least' \in [Request -> MaybeRequest]
<1>1. /\ locals' \in [Request -> SUBSET Client] /\ rank' \in [Request -> Nat]
      /\ pool' \in [Request -> MaybeRequest] /\ key' \in [Request -> Nat]
  BY DiscardType DEF ReleaseSlot, TypeOK
<1>2. group' \in MaybeRequest
  BY GroupType DEF ReleaseSlot
<1>3. least' \in [Request -> MaybeRequest]
  BY LeastAfterType DEF ReleaseSlot, TypeOK
<1>4. index' \subseteq Client \X Request /\ unsubs' \subseteq Client \X Request
  BY DEF ReleaseSlot, TypeOK
<1> QED BY <1>1, <1>2, <1>3, <1>4

-----------------------------------------------------------------------------
(* Entries of a pool.  Whatever leaves a pool is out of it, and a follow that *)
(* is destroyed or loses its stream is one of those.                          *)

LEMMA SlotsAfterDiscard ==
  ASSUME TypeOK, SlotsSound, NEW left, NEW ended, NEW evicted,
         Discard(left, ended, evicted),
         phase' \in [Request -> {"absent", "live", "stopped", "destroyed"}],
         \A u \in Request \ (ended \cup evicted) : rank[u] > 0 => phase'[u] = phase[u]
  PROVE  SlotsSound'
  BY DEF TypeOK, SlotsSound, Discard, Slot, Listed

LEMMA LeaveSlots ==
  ASSUME TypeOK, SlotsSound, NEW L, Leave(L)
  PROVE  SlotsSound'
<1>1. Discard(Left(L), Emptied(L), Evicted(Emptied(L)))
  BY DEF Leave
<1>2. \A u \in Request \ (Emptied(L) \cup Evicted(Emptied(L))) : phase'[u] = phase[u]
  BY DEF Leave, PhaseAfter
<1>3. phase' \in [Request -> {"absent", "live", "stopped", "destroyed"}]
  BY LeaveType
<1> QED BY <1>1, <1>2, <1>3, SlotsAfterDiscard

\* The entry under the key a subscription was created with holds the key alone.
LEMMA ReleaseSlots ==
  ASSUME TypeOK, SlotsSound, NEW p, NEW k, ReleaseSlot(p, k),
         phase' \in [Request -> {"absent", "live", "stopped", "destroyed"}],
         \A u \in Request \ Slot(p, k) : rank[u] > 0 => phase'[u] = phase[u]
  PROVE  SlotsSound'
<1>1. Discard(locals, {}, Slot(p, k))
  BY DEF ReleaseSlot
<1> QED BY <1>1, SlotsAfterDiscard

-----------------------------------------------------------------------------
(* The registries of local ids.                                              *)

\* Pairs of a client and a shared subscription it is a local of.
LEMMA LeaveRegistries ==
  ASSUME TypeOK, LocalsOpen, RegistriesAgree, NEW L, Leave(L)
  PROVE  /\ \A u \in Request : locals'[u] \subseteq locals[u]
         /\ \A c \in Client, u \in Request : <<c, u>> \in L => c \notin locals'[u]
         /\ \A c \in Client, u \in Request :
              <<c, u>> \in index' <=> c \in locals'[u]
         /\ \A c \in Client, u \in Request :
              <<c, u>> \in L \cup Gone <=> \/ <<c, u>> \in L
                                           \/ c \in locals[u] /\ c \notin locals'[u]
<1>1. Discard(Left(L), Emptied(L), Evicted(Emptied(L))) /\ index' = index \ (L \cup Gone)
  BY DEF Leave
<1>2. /\ \A u \in Request : locals'[u] \subseteq locals[u]
      /\ \A c \in Client, u \in Request : <<c, u>> \in L => c \notin locals'[u]
  BY <1>1 DEF Discard, Left
<1>3. \A c \in Client, u \in Request :
        <<c, u>> \in Gone <=> c \in locals[u] /\ c \notin locals'[u]
  BY DEF Gone
<1> QED BY <1>1, <1>2, <1>3 DEF RegistriesAgree

LEMMA ReleaseRegistries ==
  ASSUME TypeOK, LocalsOpen, RegistriesAgree, NEW p, NEW k, ReleaseSlot(p, k)
  PROVE  /\ \A u \in Request : locals'[u] \subseteq locals[u]
         /\ \A c \in Client, u \in Request :
              <<c, u>> \in index' <=> c \in locals'[u]
         /\ \A c \in Client, u \in Request :
              <<c, u>> \in unsubs' <=> /\ <<c, u>> \in unsubs
                                       /\ c \in locals[u] => c \in locals'[u]
<1>1. Discard(locals, {}, Slot(p, k))
  BY DEF ReleaseSlot
<1>2. \A u \in Request : locals'[u] \subseteq locals[u]
  BY <1>1 DEF Discard
<1>3. \A c \in Client, u \in Request :
        <<c, u>> \in Gone <=> c \in locals[u] /\ c \notin locals'[u]
  BY DEF Gone
<1> QED BY <1>2, <1>3 DEF ReleaseSlot, RegistriesAgree, TypeOK

-----------------------------------------------------------------------------
(* One lemma per action.                                                     *)

LEMMA NoFlightType == NoFlight \in Flight
<1>1. <<>> \in Seq(Request)
  OBVIOUS
<1> QED BY <1>1 DEF NoFlight, Flight, MaybeRequest

LEMMA InitInv == Init => Inv
<1> SUFFICES ASSUME Init PROVE Inv
  OBVIOUS
<1>1. flight \in Flight
  BY NoFlightType DEF Init
<1>2. grants \in Seq(Request \X Request) /\ tasks \in Seq(Client \X Request)
  BY DEF Init
<1>3. TypeOK
  BY <1>1, <1>2 DEF Init, TypeOK, MaybeRequest
<1>4. SlotsSound /\ CloseFnsCover /\ LocalsOpen /\ RegistriesAgree
  BY DEF Init, SlotsSound, CloseFnsCover, LocalsOpen, RegistriesAgree
<1> QED BY <1>3, <1>4 DEF Inv

\* Steps that touch neither pools nor subscribers keep what is said of them.
LEMMA Untouched ==
  ASSUME SlotsSound, CloseFnsCover, LocalsOpen, RegistriesAgree,
         UNCHANGED <<open, closeFns, pool, key, rank, locals, phase, index, unsubs>>,
         conn' # "stopped" => conn # "stopped"
  PROVE  SlotsSound' /\ CloseFnsCover' /\ LocalsOpen' /\ RegistriesAgree'
  BY DEF SlotsSound, Slot, Listed, CloseFnsCover, LocalsOpen, RegistriesAgree

LEMMA StartFollowInv ==
  ASSUME Inv, NEW r \in Request, StartFollow(r) PROVE Inv'
<1> USE DEF Inv
<1>1. PoolFor(r) \in Request
  BY DEF PoolFor, TypeOK, MaybeRequest
<1>2. Reuse(PoolFor(r)) \in MaybeRequest
  BY <1>1 DEF Reuse, TypeOK, MaybeRequest
<1>3. grants' \in Seq(Request \X Request)
  <2>1. CASE Reuse(PoolFor(r)) = None
    BY <2>1 DEF StartFollow, TypeOK
  <2>2. CASE Reuse(PoolFor(r)) # None
    <3>1. <<r, Reuse(PoolFor(r))>> \in Request \X Request
      BY <1>2, <2>2 DEF MaybeRequest
    <3>2. grants' = <<<<r, Reuse(PoolFor(r))>>>>
      BY <2>2 DEF StartFollow
    <3> QED BY <3>1, <3>2
  <2> QED BY <2>1, <2>2
<1>4. flight' \in Flight
  <2>1. CASE UNCHANGED flight
    BY <2>1 DEF TypeOK
  <2>2. CASE flight' = [creator |-> r, waiters |-> <<>>, pool |-> PoolFor(r),
                        key |-> Cardinality(Listed(PoolFor(r))),
                        selected |-> least[PoolFor(r)], lost |-> FALSE]
    <3>1. Cardinality(Listed(PoolFor(r))) \in Nat
      BY SizeType, ListedType
    <3>2. least[PoolFor(r)] \in MaybeRequest /\ r \in MaybeRequest
      BY <1>1 DEF TypeOK, MaybeRequest
    <3>3. PoolFor(r) \in MaybeRequest /\ <<>> \in Seq(Request)
      BY <1>1 DEF MaybeRequest
    <3> QED BY <2>2, <3>1, <3>2, <3>3 DEF Flight
  <2> QED BY <2>1, <2>2 DEF StartFollow
<1>5. TypeOK'
  BY <1>1, <1>3, <1>4 DEF StartFollow, TypeOK, MaybeRequest, subs, node
<1> QED BY <1>5, Untouched DEF StartFollow, subs, node

LEMMA JoinFollowInv ==
  ASSUME Inv, NEW r \in Request, JoinFollow(r) PROVE Inv'
<1> USE DEF Inv
<1>1. flight' \in Flight
  <2>1. Append(flight.waiters, r) \in Seq(Request)
    BY DEF TypeOK, Flight
  <2>2. CASE UNCHANGED flight
    BY <2>2 DEF TypeOK
  <2>3. CASE flight' = [flight EXCEPT !.waiters = Append(@, r)]
    BY <2>1, <2>3 DEF TypeOK, Flight
  <2> QED BY <2>2, <2>3 DEF JoinFollow
<1>2. TypeOK'
  BY <1>1 DEF JoinFollow, TypeOK, MaybeRequest, PoolFor, queue, subs, server, node
<1> QED BY <1>2, Untouched DEF JoinFollow, queue, subs, server, node

\* Participants of a flight are requests, and each of them gets the same follow.
LEMMA HandOutType ==
  ASSUME TypeOK, flight.creator # None, NEW u \in Request, HandOut(u)
  PROVE  grants' \in Seq(Request \X Request)
<1>1. flight.creator \in Request /\ flight.waiters \in Seq(Request)
  BY DEF TypeOK, Flight, MaybeRequest
<1>2. Participants \in Seq(Request)
  BY <1>1 DEF Participants
<1> QED BY <1>2 DEF HandOut

\* The new entry takes the key from whatever held it.
LEMMA CreateOkInv == ASSUME Inv, CreateOk PROVE Inv'
<1> USE DEF Inv
<1> DEFINE u == flight.creator
           p == flight.pool
           old == Slot(p, flight.key)
<1>1. u \in Request /\ p \in MaybeRequest /\ flight.key \in Nat
  BY DEF CreateOk, TypeOK, Flight, MaybeRequest
<1>2. /\ pool' = [pool EXCEPT ![u] = p] /\ key' = [key EXCEPT ![u] = flight.key]
      /\ phase' = [phase EXCEPT ![u] = "live"]
      /\ UNCHANGED <<open, closeFns, locals, index, unsubs, conn>>
  BY DEF CreateOk, clients
<1>3. /\ rank' \in [Request -> Nat] /\ rank'[u] > 0
      /\ \A v \in Request \ {u} : rank'[v] = IF v \in old THEN 0 ELSE rank[v]
  <2> DEFINE n == Cardinality({w \in Request : phase[w] # "absent"})
  <2>1. n \in Nat
    BY SizeType
  <2>2. old # {} => (CHOOSE w \in old : TRUE) \in old
    OBVIOUS
  <2>3. \A w \in old : rank[w] \in Nat /\ rank[w] > 0
    BY DEF Slot, Listed, TypeOK
  <2>4. rank' = [v \in Request |->
          IF v = u THEN IF old = {} THEN 1 + n ELSE rank[CHOOSE w \in old : TRUE]
          ELSE IF v \in old THEN 0 ELSE rank[v]]
    BY DEF CreateOk
  <2> HIDE DEF n, old
  <2> QED BY <1>1, <2>1, <2>2, <2>3, <2>4 DEF TypeOK
<1>4. SlotsSound'
  BY <1>1, <1>2, <1>3 DEF TypeOK, SlotsSound, Slot, Listed
<1>5. CloseFnsCover' /\ LocalsOpen' /\ RegistriesAgree'
  BY <1>2 DEF CloseFnsCover, LocalsOpen, RegistriesAgree
<1>6. grants' \in Seq(Request \X Request)
  BY <1>1, HandOutType DEF CreateOk
<1>7. least' \in [Request -> MaybeRequest]
  BY <1>1 DEF CreateOk, TypeOK, MaybeRequest
<1>8. TypeOK'
  <2>1. /\ UNCHANGED <<open, status, closeFns, tasks, scheduled, group, releasing>>
        /\ limitReached' = FALSE /\ flight' \in Flight
        /\ alive' = alive \cup {u} /\ UNCHANGED <<forsaken, purged>>
    BY NoFlightType DEF CreateOk, clients
  <2>2. /\ pool' \in [Request -> MaybeRequest] /\ key' \in [Request -> Nat]
        /\ phase' \in [Request -> {"absent", "live", "stopped", "destroyed"}]
    BY <1>1, <1>2 DEF TypeOK
  <2>3. manager' \in [Request -> MaybeRequest] /\ managers' \subseteq Request
    <3>1. Manager(u, flight.key) \in Request
      BY <1>1 DEF Manager, TypeOK
    <3> QED BY <1>1, <3>1 DEF CreateOk, TypeOK, MaybeRequest
  <2> QED BY <1>1, <1>2, <1>3, <1>6, <1>7, <2>1, <2>2, <2>3 DEF TypeOK
<1> QED BY <1>4, <1>5, <1>8

LEMMA RefuseType ==
  ASSUME TypeOK, Refuse
  PROVE  status' \in [Request -> {"new", "waiting", "granted", "denied", "ignored"}]
  BY DEF Refuse, TypeOK

LEMMA CreateLimitInv == ASSUME Inv, CreateLimit PROVE Inv'
<1> USE DEF Inv
<1>1. grants' \in Seq(Request \X Request)
      /\ status' \in [Request -> {"new", "waiting", "granted", "denied", "ignored"}]
  <2>1. CASE flight.selected # None
    <3>1. flight.selected \in Request
      BY <2>1 DEF TypeOK, Flight, MaybeRequest
    <3> QED BY <2>1, <3>1, HandOutType DEF CreateLimit, TypeOK
  <2>2. CASE flight.selected = None
    BY <2>2, RefuseType DEF CreateLimit, TypeOK
  <2> QED BY <2>1, <2>2
<1>2. TypeOK'
  BY <1>1, NoFlightType DEF CreateLimit, TypeOK, pools, subs, node
<1> QED BY <1>2, Untouched DEF CreateLimit, pools, subs

LEMMA CreateFailInv == ASSUME Inv, CreateFail PROVE Inv'
<1> USE DEF Inv
<1>1. TypeOK'
  BY RefuseType, NoFlightType DEF CreateFail, TypeOK, queue, pools, subs, server, node
<1> QED BY <1>1, Untouched DEF CreateFail, pools, subs, server

LEMMA CreateLateInv == ASSUME Inv, CreateLate PROVE Inv'
<1> USE DEF Inv
<1>1. alive' \subseteq Request /\ forsaken' \subseteq Request
  BY DEF CreateLate, TypeOK, Flight, MaybeRequest
<1>2. TypeOK'
  BY <1>1, RefuseType, NoFlightType DEF CreateLate, TypeOK, queue, pools, subs, server
<1> QED BY <1>2, Untouched DEF CreateLate, pools, subs, server

LEMMA AssignInv == ASSUME Inv, Assign PROVE Inv'
<1> USE DEF Inv
<1> DEFINE r == Head(grants)[1]
           u == Head(grants)[2]
<1>1. Head(grants) \in Request \X Request /\ grants' \in Seq(Request \X Request)
  BY DEF Assign, TypeOK
<1>2. r \in Request /\ u \in Request
  BY <1>1
<1>3. Owner[r] \in Client
  BY <1>2, FollowAssumption
<1>4. tasks' \in Seq(Client \X Request) /\ scheduled' \in BOOLEAN
      /\ status' \in [Request -> {"new", "waiting", "granted", "denied", "ignored"}]
  <2>1. CASE Owner[r] \in locals[u]
    BY <1>2, <2>1 DEF Assign, TypeOK
  <2>2. CASE Owner[r] \notin locals[u]
    <3>1. /\ status' = [status EXCEPT ![r] = "granted"] /\ scheduled' = TRUE
          /\ tasks' = Append(tasks, <<Owner[r], u>>)
      BY <2>2 DEF Assign
    <3>2. <<Owner[r], u>> \in Client \X Request /\ tasks \in Seq(Client \X Request)
      BY <1>2, <1>3 DEF TypeOK
    <3>3. Append(tasks, <<Owner[r], u>>) \in Seq(Client \X Request)
      BY <3>2
    <3> QED BY <1>2, <3>1, <3>3 DEF TypeOK
  <2> QED BY <2>1, <2>2
<1>5. TypeOK'
  BY <1>1, <1>4 DEF Assign, TypeOK, pools, subs, server, node
<1> QED BY <1>5, Untouched DEF Assign, pools, subs, server

\* The flush starts, ends, or stops at a task that throws.
LEMMA QueueInv ==
  ASSUME Inv, tasks' \in Seq(Client \X Request), scheduled' \in BOOLEAN,
         UNCHANGED <<clients, flight, grants, pools, subs, server, node>>
  PROVE  Inv'
<1>1. TypeOK'
  BY DEF Inv, TypeOK, clients, pools, subs, server, node
<1> QED BY <1>1, Untouched DEF Inv, clients, pools, subs, server

LEMMA NextTaskType ==
  ASSUME TypeOK, NEW c, NEW u, NextTask(c, u)
  PROVE  tasks' \in Seq(Client \X Request)
  BY DEF TypeOK, NextTask

LEMMA SubscribeInv ==
  ASSUME Inv, NEW c \in Client, NEW u \in Request, Subscribe(c, u) PROVE Inv'
<1> USE DEF Inv
<1>1. tasks' \in Seq(Client \X Request)
  BY NextTaskType DEF Subscribe
<1>2. least' \in [Request -> MaybeRequest]
  BY LeastAfterType DEF Subscribe, TypeOK
<1>3. /\ UNCHANGED <<group, pool, key, rank, open, status, flight, grants, scheduled>>
      /\ UNCHANGED <<phase, conn, limitReached, alive, releasing>>
      /\ UNCHANGED <<manager, managers, forsaken, purged>>
      /\ c \in open /\ c \notin locals[u]
      /\ locals' = [locals EXCEPT ![u] = @ \cup {c}]
      /\ closeFns' = [closeFns EXCEPT ![c] = @ \cup {u}]
      /\ index' = index \cup {<<c, u>>}
      /\ unsubs' = unsubs \cup {<<c, u>>}
  BY DEF Subscribe, Joins, node
<1>4. TypeOK'
  BY <1>1, <1>2, <1>3 DEF TypeOK
<1>5. SlotsSound'
  BY <1>3 DEF SlotsSound, Slot, Listed
<1>6. CloseFnsCover' /\ LocalsOpen'
  BY <1>3 DEF CloseFnsCover, LocalsOpen, TypeOK
<1>7. RegistriesAgree'
  BY <1>3 DEF RegistriesAgree, TypeOK
<1> QED BY <1>4, <1>5, <1>6, <1>7

LEMMA SubscribeClosedInv ==
  ASSUME Inv, NEW c \in Client, NEW u \in Request, SubscribeClosed(c, u) PROVE Inv'
<1> USE DEF Inv
<1> DEFINE L == {<<c, u>>}
           ended == Emptied(L)
<1>1. /\ Discard(locals, ended, Evicted(ended))
      /\ phase' = PhaseAfter(locals, ended, Evicted(ended))
      /\ index' = index \ (L \cup Gone)
      /\ unsubs' = (unsubs \ Gone) \cup L
      /\ UNCHANGED <<open, status, closeFns, flight, grants, scheduled, conn, limitReached>>
      /\ c \notin open
  BY DEF SubscribeClosed, clients
<1>2. /\ locals' \in [Request -> SUBSET Client] /\ rank' \in [Request -> Nat]
      /\ pool' \in [Request -> MaybeRequest] /\ key' \in [Request -> Nat]
  BY <1>1, DiscardType DEF TypeOK
<1>3. phase' \in [Request -> {"absent", "live", "stopped", "destroyed"}]
  BY <1>1, PhaseType
<1>4. least' \in [Request -> MaybeRequest]
  <2>1. Least(pool[u]) \in MaybeRequest
    BY LeastLoadedType, ListedType DEF Least, MaybeRequest
  <2>2. LeastAfter({pool[u]}) \in [Request -> MaybeRequest]
    BY LeastAfterType DEF TypeOK
  <2> QED BY <2>1, <2>2 DEF SubscribeClosed, TypeOK
<1>5. tasks' \in Seq(Client \X Request)
  BY NextTaskType DEF SubscribeClosed
<1>6. group' \in MaybeRequest
  BY GroupType DEF SubscribeClosed
<1>7. /\ alive' \subseteq Request /\ releasing' \subseteq Request
      /\ forsaken' \subseteq Request /\ purged' \subseteq Request
      /\ manager' \in [Request -> MaybeRequest] /\ managers' \subseteq Request
  BY ForgetType DEF SubscribeClosed, TypeOK, Unfollowing, Dropped
<1>8. TypeOK'
  <2>1. index' \subseteq Client \X Request /\ unsubs' \subseteq Client \X Request
    BY <1>1 DEF TypeOK
  <2>2. UNCHANGED <<open, status, closeFns, flight, grants, scheduled, conn, limitReached>>
    BY <1>1
  <2> HIDE DEF L, ended
  <2> QED BY <1>2, <1>3, <1>4, <1>5, <1>6, <1>7, <2>1, <2>2 DEF TypeOK
<1>9. SlotsSound'
  <2>1. \A v \in Request \ (ended \cup Evicted(ended)) : phase'[v] = phase[v]
    BY <1>1 DEF PhaseAfter
  <2> HIDE DEF ended
  <2> QED BY <1>1, <1>3, <2>1, SlotsAfterDiscard DEF TypeOK
<1>10. \A v \in Request : locals'[v] \subseteq locals[v]
  BY <1>1 DEF Discard
<1>11. CloseFnsCover' /\ LocalsOpen'
  BY <1>1, <1>10 DEF CloseFnsCover, LocalsOpen
<1>12. RegistriesAgree'
  <2>1. \A d \in Client, v \in Request :
          <<d, v>> \in Gone <=> d \in locals[v] /\ d \notin locals'[v]
    BY DEF Gone
  <2>2. c \notin locals[u]
    BY <1>1 DEF LocalsOpen
  <2>3. \A d \in Client, v \in Request : <<d, v>> \in index' <=> d \in locals'[v]
    BY <1>1, <1>10, <2>1, <2>2 DEF RegistriesAgree
  <2>4. ASSUME conn' # "stopped", NEW d \in open', NEW v \in Request
        PROVE  <<d, v>> \in unsubs' <=> d \in locals'[v]
    <3>1. d \in Client /\ d # c /\ (<<d, v>> \in unsubs <=> d \in locals[v])
      BY <1>1, <2>4 DEF RegistriesAgree, TypeOK
    <3> QED BY <1>1, <1>10, <2>1, <3>1
  <2> QED BY <2>3, <2>4 DEF RegistriesAgree
<1> QED BY <1>8, <1>9, <1>11, <1>12

LEMMA UnfollowInv ==
  ASSUME Inv, NEW c \in Client, NEW u \in Request, Unfollow(c, u) PROVE Inv'
<1> USE DEF Inv
<1> DEFINE L == {<<c, u>>}
<1>1. /\ Leave(L) /\ unsubs' = unsubs \ (L \cup Gone)
      /\ UNCHANGED <<open, status, closeFns, flight, grants, tasks, scheduled, conn>>
      /\ UNCHANGED <<forsaken, purged>>
      /\ limitReached' \in BOOLEAN
  BY DEF Unfollow, clients, queue, TypeOK
<1> HIDE DEF L
<1>2. unsubs' \subseteq Client \X Request
  BY <1>1 DEF TypeOK
<1>3. TypeOK'
  BY <1>1, <1>2, LeaveType DEF TypeOK
<1>4. SlotsSound'
  BY <1>1, LeaveSlots
<1>5. CloseFnsCover' /\ LocalsOpen'
  BY <1>1, LeaveRegistries DEF CloseFnsCover, LocalsOpen
<1>6. RegistriesAgree'
  BY <1>1, LeaveRegistries DEF RegistriesAgree, TypeOK
<1> QED BY <1>3, <1>4, <1>5, <1>6

LEMMA CloseInv ==
  ASSUME Inv, NEW c \in Client, Close(c) PROVE Inv'
<1> USE DEF Inv
<1> DEFINE L == {<<c, u>> : u \in closeFns[c]}
<1>1. /\ Leave(L) /\ unsubs' = unsubs \ (L \cup Gone)
      /\ UNCHANGED <<status, closeFns, flight, grants, tasks, scheduled, conn, limitReached>>
      /\ UNCHANGED <<forsaken, purged>>
      /\ open' = open \ {c}
  BY DEF Close, queue
<1>2. \A u \in Request : c \in locals[u] => <<c, u>> \in L
  BY DEF CloseFnsCover
<1> HIDE DEF L
<1>3. unsubs' \subseteq Client \X Request
  BY <1>1 DEF TypeOK
<1>4. TypeOK'
  BY <1>1, <1>3, LeaveType DEF TypeOK
<1>5. SlotsSound'
  BY <1>1, LeaveSlots
<1>6. \A u \in Request : locals'[u] \subseteq locals[u] /\ c \notin locals'[u]
  BY <1>1, <1>2, LeaveRegistries
<1>7. CloseFnsCover' /\ LocalsOpen'
  BY <1>1, <1>6 DEF CloseFnsCover, LocalsOpen
<1>8. RegistriesAgree'
  BY <1>1, LeaveRegistries DEF RegistriesAgree, TypeOK
<1> QED BY <1>4, <1>5, <1>7, <1>8

LEMMA UnfollowSettledInv ==
  ASSUME Inv, NEW u \in Request, UnfollowSettled(u) PROVE Inv'
<1> USE DEF Inv
<1> DEFINE p == pool[u]
           k == key[u]
<1>1. /\ ReleaseSlot(p, k) /\ phase' = PhaseAfter(locals, {}, Slot(p, k))
      /\ UNCHANGED <<open, status, closeFns, flight, grants, tasks, scheduled>>
      /\ UNCHANGED <<conn, limitReached>>
  BY DEF UnfollowSettled, clients, queue
<1>2. /\ alive' \subseteq Request /\ releasing' \subseteq Request
      /\ forsaken' \subseteq Request /\ purged' \subseteq Request
      /\ manager' \in [Request -> MaybeRequest] /\ managers' \subseteq Request
  BY ForgetType DEF UnfollowSettled, TypeOK, Dropped
<1> HIDE DEF p, k
<1>3. phase' \in [Request -> {"absent", "live", "stopped", "destroyed"}]
  BY <1>1, PhaseType
<1>4. TypeOK'
  BY <1>1, <1>2, <1>3, ReleaseType DEF TypeOK
<1>5. \A v \in Request \ Slot(p, k) : phase'[v] = phase[v]
  BY <1>1 DEF PhaseAfter
<1>6. SlotsSound'
  BY <1>1, <1>3, <1>5, ReleaseSlots
<1>7. CloseFnsCover' /\ LocalsOpen' /\ RegistriesAgree'
  BY <1>1, ReleaseRegistries DEF CloseFnsCover, LocalsOpen, RegistriesAgree, TypeOK
<1> QED BY <1>4, <1>6, <1>7

LEMMA StreamEndsInv ==
  ASSUME Inv, NEW u \in Request, NEW b \in BOOLEAN, StreamEnds(u, b) PROVE Inv'
<1> USE DEF Inv
<1> DEFINE p == pool[u]
           k == key[u]
           after == PhaseAfter(locals, {}, Slot(p, k))
<1>1. /\ ReleaseSlot(p, k)
      /\ phase' = [after EXCEPT ![u] = IF @ = "destroyed" THEN @ ELSE "stopped"]
      /\ UNCHANGED <<open, status, closeFns, flight, grants, tasks, scheduled>>
      /\ UNCHANGED <<conn, limitReached>>
  BY DEF StreamEnds, clients, queue
<1>2. /\ alive' \subseteq Request /\ releasing' \subseteq Request
      /\ forsaken' \subseteq Request /\ purged' \subseteq Request
      /\ manager' \in [Request -> MaybeRequest] /\ managers' \subseteq Request
  BY ForgetType DEF StreamEnds, TypeOK, Dropped
<1>3. after \in [Request -> {"absent", "live", "stopped", "destroyed"}]
  BY PhaseType
<1>4. phase' \in [Request -> {"absent", "live", "stopped", "destroyed"}]
  BY <1>1, <1>3
<1>5. \A v \in Request \ Slot(p, k) : rank[v] > 0 => phase'[v] = phase[v]
  <2>1. rank[u] > 0 => u \in Slot(p, k)
    BY DEF Slot, Listed
  <2>2. \A v \in Request \ Slot(p, k) : after[v] = phase[v]
    BY DEF PhaseAfter
  <2>3. \A v \in Request \ {u} : phase'[v] = after[v]
    BY <1>1, <1>3
  <2> QED BY <2>1, <2>2, <2>3
<1> HIDE DEF p, k, after
<1>6. TypeOK'
  BY <1>1, <1>2, <1>4, ReleaseType DEF TypeOK
<1>7. SlotsSound'
  BY <1>1, <1>4, <1>5, ReleaseSlots
<1>8. CloseFnsCover' /\ LocalsOpen' /\ RegistriesAgree'
  BY <1>1, ReleaseRegistries DEF CloseFnsCover, LocalsOpen, RegistriesAgree, TypeOK
<1> QED BY <1>6, <1>7, <1>8

LEMMA LostFlightType ==
  ASSUME TypeOK, flight' = [flight EXCEPT !.lost = (flight.creator # None)]
  PROVE  flight' \in Flight
  BY DEF TypeOK, Flight

\* least' when the connection is lost or stopped.
LEMMA LeastForgotten ==
  ASSUME TypeOK, NEW touched,
         least' = [p \in Request |-> IF p = group THEN None ELSE LeastAfter(touched)[p]]
  PROVE  least' \in [Request -> MaybeRequest]
<1>1. LeastAfter(touched) \in [Request -> MaybeRequest]
  BY LeastAfterType DEF TypeOK
<1> QED BY <1>1 DEF MaybeRequest

\* Everybody who is connected leaves: the unsubscribers know all of them.
LEMMA DisconnectInv == ASSUME Inv, Disconnect PROVE Inv'
<1> USE DEF Inv
<1> DEFINE ended == Emptied(unsubs) \cup Aborted
<1>1. /\ Discard(Left(unsubs), ended, Evicted(ended))
      /\ phase' = PhaseAfter(Left(unsubs), ended, Evicted(ended))
      /\ index' = index \ (unsubs \cup Gone)
      /\ conn = "up" /\ conn' = "down" /\ unsubs' = {} /\ group' = None /\ alive' = {}
      /\ limitReached' \in BOOLEAN
      /\ flight' = [flight EXCEPT !.lost = (flight.creator # None)]
      /\ UNCHANGED <<open, status, closeFns, grants, tasks, scheduled, releasing>>
      /\ manager' = [u \in Request |-> None] /\ managers' = {}
      /\ UNCHANGED <<forsaken, purged>>
  BY DEF Disconnect, clients, queue, TypeOK
<1>2. least' \in [Request -> MaybeRequest]
  BY LeastForgotten DEF Disconnect
<1> HIDE DEF ended
<1>3. /\ locals' \in [Request -> SUBSET Client] /\ rank' \in [Request -> Nat]
      /\ pool' \in [Request -> MaybeRequest] /\ key' \in [Request -> Nat]
  BY <1>1, LeftType, DiscardType
<1>4. phase' \in [Request -> {"absent", "live", "stopped", "destroyed"}]
  BY <1>1, PhaseType
<1>5. TypeOK'
  BY <1>1, <1>2, <1>3, <1>4, LostFlightType DEF TypeOK, MaybeRequest
<1>6. SlotsSound'
  <2>1. \A v \in Request \ (ended \cup Evicted(ended)) : phase'[v] = phase[v]
    BY <1>1 DEF PhaseAfter
  <2> QED BY <1>1, <1>4, <2>1, SlotsAfterDiscard
<1>7. /\ \A u \in Request : locals'[u] \subseteq locals[u]
      /\ \A c \in Client, u \in Request : <<c, u>> \in unsubs => c \notin locals'[u]
  BY <1>1 DEF Discard, Left
<1>8. CloseFnsCover' /\ LocalsOpen'
  BY <1>1, <1>7 DEF CloseFnsCover, LocalsOpen
<1>9. RegistriesAgree'
  <2>1. \A c \in Client, u \in Request :
          <<c, u>> \in Gone <=> c \in locals[u] /\ c \notin locals'[u]
    BY DEF Gone
  <2>2. \A c \in Client, u \in Request : <<c, u>> \in index' <=> c \in locals'[u]
    BY <1>1, <1>7, <2>1 DEF RegistriesAgree
  <2>3. \A c \in open', u \in Request : c \notin locals'[u]
    BY <1>1, <1>7 DEF RegistriesAgree, TypeOK
  <2> QED BY <1>1, <2>2, <2>3 DEF RegistriesAgree
<1> QED BY <1>5, <1>6, <1>8, <1>9

\* The clients abort() closes leave everything they had joined.
LEMMA ServerStopInv == ASSUME Inv, ServerStop PROVE Inv'
<1> USE DEF Inv
<1> DEFINE closed == UNION {locals[u] : u \in Aborted}
           L == {e \in Client \X Request : e[1] \in closed /\ e[2] \in closeFns[e[1]]}
           ended == Emptied(L) \cup Aborted
<1>1. /\ Discard(Left(L), ended, Evicted(ended))
      /\ phase' = PhaseAfter(Left(L), ended, Evicted(ended))
      /\ index' = index \ (L \cup Gone)
      /\ open' = open \ closed
      /\ least' = [p \in Request |->
           IF p = group THEN None ELSE LeastAfter({pool[e[2]] : e \in L})[p]]
  BY DEF ServerStop
<1>2. /\ conn' = "stopped" /\ unsubs' = {} /\ group' = None /\ alive' = {} /\ releasing' = {}
      /\ flight' = [flight EXCEPT !.lost = (flight.creator # None)]
      /\ UNCHANGED <<status, closeFns, grants, tasks, scheduled, limitReached>>
      /\ manager' = [u \in Request |-> None] /\ managers' = {}
      /\ UNCHANGED <<forsaken, purged>>
  BY DEF ServerStop, queue
<1>3. \A c \in closed, u \in Request : c \in locals[u] => <<c, u>> \in L
  BY DEF CloseFnsCover, TypeOK
<1> HIDE DEF closed, L, ended
<1>4. least' \in [Request -> MaybeRequest]
  BY <1>1, LeastForgotten
<1>5. /\ locals' \in [Request -> SUBSET Client] /\ rank' \in [Request -> Nat]
      /\ pool' \in [Request -> MaybeRequest] /\ key' \in [Request -> Nat]
  BY <1>1, LeftType, DiscardType
<1>6. phase' \in [Request -> {"absent", "live", "stopped", "destroyed"}]
  BY <1>1, PhaseType
<1>7. TypeOK'
  BY <1>1, <1>2, <1>4, <1>5, <1>6, LostFlightType DEF TypeOK, MaybeRequest
<1>8. SlotsSound'
  <2>1. \A v \in Request \ (ended \cup Evicted(ended)) : phase'[v] = phase[v]
    BY <1>1 DEF PhaseAfter
  <2> QED BY <1>1, <1>6, <2>1, SlotsAfterDiscard
<1>9. /\ \A u \in Request : locals'[u] \subseteq locals[u]
      /\ \A c \in Client, u \in Request : <<c, u>> \in L => c \notin locals'[u]
  BY <1>1 DEF Discard, Left
<1>10. CloseFnsCover' /\ LocalsOpen'
  BY <1>1, <1>2, <1>3, <1>9 DEF CloseFnsCover, LocalsOpen, TypeOK
<1>11. RegistriesAgree'
  <2>1. \A c \in Client, u \in Request :
          <<c, u>> \in Gone <=> c \in locals[u] /\ c \notin locals'[u]
    BY DEF Gone
  <2> QED BY <1>1, <1>2, <1>9, <2>1 DEF RegistriesAgree
<1> QED BY <1>7, <1>8, <1>10, <1>11

\* Every step keeps the invariant.
LEMMA NextInv == Inv /\ [Next]_vars => Inv'
<1> SUFFICES ASSUME Inv, [Next]_vars PROVE Inv'
  OBVIOUS
<1>1. ASSUME NEW r \in Request, StartFollow(r) \/ JoinFollow(r) PROVE Inv'
  BY <1>1, StartFollowInv, JoinFollowInv
<1>2. CASE Answer
  BY <1>2, CreateOkInv, CreateLimitInv, CreateFailInv, CreateLateInv DEF Answer
<1>3. CASE Assign
  BY <1>3, AssignInv
<1>4. CASE FlushDone
  BY <1>4, QueueInv DEF FlushDone, Inv, TypeOK
<1>5. ASSUME NEW c \in Client, NEW u \in Request,
             Subscribe(c, u) \/ SubscribeTwice(c, u) \/ SubscribeClosed(c, u)
      PROVE  Inv'
  <2>1. CASE SubscribeTwice(c, u)
    <3>1. tasks' \in Seq(Client \X Request)
      BY <2>1, NextTaskType DEF SubscribeTwice, Inv
    <3> QED BY <2>1, <3>1, QueueInv DEF SubscribeTwice
  <2> QED BY <1>5, <2>1, SubscribeInv, SubscribeClosedInv
<1>6. CASE Flush
  BY <1>6, QueueInv DEF Flush, Inv, TypeOK
<1>7. ASSUME NEW c \in Client, Close(c) \/ \E u \in Request : Unfollow(c, u) PROVE Inv'
  BY <1>7, CloseInv, UnfollowInv
<1>8. ASSUME NEW u \in Request, UnfollowSettled(u) \/ \E b \in BOOLEAN : StreamEnds(u, b)
      PROVE  Inv'
  BY <1>8, UnfollowSettledInv, StreamEndsInv
<1>9. CASE Disconnect
  BY <1>9, DisconnectInv
<1>10. CASE Reconnect
  <2>1. TypeOK'
    BY <1>10 DEF Reconnect, Inv, TypeOK, clients, queue, pools, subs, node
  <2> QED BY <1>10, <2>1, Untouched DEF Reconnect, Inv, clients, pools, subs
<1>11. CASE ServerStop
  BY <1>11, ServerStopInv
<1>12. CASE UNCHANGED vars
  <2>1. TypeOK'
    BY <1>12 DEF vars, Inv, TypeOK, clients, queue, pools, subs, server, node
  <2> QED BY <1>12, <2>1, Untouched DEF vars, Inv, clients, pools, subs, server
<1> QED BY <1>1, <1>2, <1>3, <1>4, <1>5, <1>6, <1>7, <1>8, <1>9, <1>10, <1>11, <1>12
        DEF Next, TaskStep

\* The inductive invariant holds in every reachable state.
THEOREM Invariance == Spec => []Inv
  BY InitInv, NextInv, PTL DEF Spec

\* The state of the follow handler, its pools and its registries is well formed.
THEOREM TypeCorrect == Spec => []TypeOK
  BY Invariance, PTL DEF Inv

\* A pool lists only live follows, one under each key, however creations, late
\* releases and stop events interleave.
THEOREM SlotsSoundHolds == Spec => []SlotsSound
  BY Invariance, PTL DEF Inv

\* No closed client is ever a subscriber between two events; and localSubs, the pool's
\* index and the server's unsubscribers agree on who is subscribed, so an unfollow or a
\* disconnect finds exactly the subscribers.
THEOREM SubscribersSoundHolds == Spec => []SubscribersSound
<1>1. Inv => SubscribersSound
  BY DEF Inv, SubscribersSound
<1> QED BY <1>1, Invariance, PTL

-----------------------------------------------------------------------------
(* A follow somebody listens to, or soon will.                               *)

Kept(u) == phase[u] \in {"live", "stopped"}
Queued(u) == \/ \E i \in 1..Len(grants) : grants[i][2] = u
             \/ \E i \in 1..Len(tasks) : tasks[i][2] = u
Busy(u) == locals[u] # {} \/ Queued(u)

LEMMA NoIdleIs == NoIdleFollow <=> \A u \in Request : Kept(u) => Busy(u)
  BY DEF NoIdleFollow, Wanted, Kept, Busy, Queued

\* What is taken off a queue is its head.
LEMMA TailKeeps ==
  ASSUME NEW S, NEW q \in Seq(S), q # <<>>, NEW i \in 1..Len(q), i # 1
  PROVE  \E j \in 1..Len(Tail(q)) : Tail(q)[j] = q[i]
<1>1. i - 1 \in 1..Len(Tail(q)) /\ Tail(q)[i - 1] = q[i]
  OBVIOUS
<1> QED BY <1>1
LEMMA HeadIsFirst == \A q : Head(q) = q[1]
  BY DEF Head

\* A follow that loses its last subscriber is destroyed in the same step.
LEMMA DiscardKeeps ==
  ASSUME TypeOK, NoIdleFollow, NEW left, NEW ended, NEW evicted,
         Discard(left, ended, evicted), phase' = PhaseAfter(left, ended, evicted),
         NEW u \in Request,
         Kept(u) /\ left[u] = {} => locals[u] = {} \/ u \in ended,
         Queued(u) /\ locals[u] = {} => Queued(u)'
  PROVE  Kept(u)' => Busy(u)'
<1> SUFFICES ASSUME Kept(u)' PROVE Busy(u)'
  OBVIOUS
<1>1. u \notin ended /\ (u \in evicted => left[u] = {}) /\ Kept(u)
  BY DEF PhaseAfter, Kept
<1>2. locals'[u] = left[u]
  BY <1>1 DEF Discard
<1>3. CASE left[u] # {}
  BY <1>2, <1>3 DEF Busy
<1>4. CASE left[u] = {}
  <2>1. locals[u] = {} /\ Queued(u)
    BY <1>1, <1>4, NoIdleIs DEF Busy
  <2> QED BY <2>1 DEF Busy
<1> QED BY <1>3, <1>4

LEMMA LeaveKeeps ==
  ASSUME TypeOK, NoIdleFollow, NEW L, NEW more,
         LET ended == Emptied(L) \cup more
         IN /\ Discard(Left(L), ended, Evicted(ended))
            /\ phase' = PhaseAfter(Left(L), ended, Evicted(ended)),
         UNCHANGED <<grants, tasks>>
  PROVE  NoIdleFollow'
<1> DEFINE ended == Emptied(L) \cup more
<1>1. ASSUME NEW u \in Request PROVE Kept(u)' => Busy(u)'
  <2>1. Kept(u) /\ Left(L)[u] = {} => locals[u] = {} \/ u \in ended
    BY DEF Kept, Emptied, Left, TypeOK
  <2>2. Queued(u) => Queued(u)'
    BY DEF Queued
  <2> QED BY <2>1, <2>2, DiscardKeeps
<1> QED BY <1>1 DEF NoIdleFollow, Wanted, Kept, Busy, Queued

\* The events that take subscribers away.
LEMMA DepartureKeeps ==
  ASSUME Inv, NoIdleFollow,
         \/ \E c \in Client : Close(c) \/ \E u \in Request : Unfollow(c, u)
         \/ Disconnect \/ ServerStop
  PROVE  NoIdleFollow'
<1>1. TypeOK /\ UNCHANGED <<grants, tasks>>
  BY DEF Inv, Close, Unfollow, Disconnect, ServerStop, queue
<1>2. ASSUME NEW L, Leave(L) PROVE NoIdleFollow'
  <2>1. LET ended == Emptied(L) \cup {}
        IN /\ Discard(Left(L), ended, Evicted(ended))
           /\ phase' = PhaseAfter(Left(L), ended, Evicted(ended))
    BY <1>2 DEF Leave
  <2> QED BY <1>1, <2>1, LeaveKeeps
<1>3. CASE Disconnect
  BY <1>1, <1>3, LeaveKeeps DEF Disconnect
<1>4. CASE ServerStop
  BY <1>1, <1>4, LeaveKeeps DEF ServerStop
<1> QED BY <1>2, <1>3, <1>4 DEF Close, Unfollow

\* A key that is released, by an answer to an unfollow or the end of a stream.
LEMMA ReleaseKeeps ==
  ASSUME Inv, NoIdleFollow, NEW u \in Request,
         UnfollowSettled(u) \/ \E b \in BOOLEAN : StreamEnds(u, b)
  PROVE  NoIdleFollow'
<1> DEFINE held == Slot(pool[u], key[u])
           after == PhaseAfter(locals, {}, held)
<1>1. TypeOK /\ UNCHANGED <<grants, tasks>> /\ Discard(locals, {}, held)
  BY DEF Inv, UnfollowSettled, StreamEnds, queue, ReleaseSlot
<1>2. ASSUME NEW v \in Request PROVE Kept(v)' => after[v] \in {"live", "stopped"}
  <2>1. CASE phase' = after
    BY <2>1 DEF Kept
  <2>2. CASE /\ phase[u] = "live"
             /\ phase' = [after EXCEPT ![u] = IF @ = "destroyed" THEN @ ELSE "stopped"]
    <3>1. after \in [Request -> {"absent", "live", "stopped", "destroyed"}]
      BY <1>1, PhaseType
    <3>2. after[u] \in {"live", "destroyed"}
      BY <2>2 DEF PhaseAfter
    <3> QED BY <2>2, <3>1, <3>2 DEF Kept
  <2> QED BY <2>1, <2>2 DEF UnfollowSettled, StreamEnds
<1>3. ASSUME NEW v \in Request, Kept(v)' PROVE Busy(v)'
  <2>1. after[v] \in {"live", "stopped"}
    BY <1>2, <1>3
  <2>2. Kept(v) /\ (v \in held => locals[v] = {})
    BY <2>1 DEF PhaseAfter, Kept
  <2>3. locals'[v] = locals[v]
    BY <1>1, <2>2 DEF Discard, TypeOK
  <2> QED BY <1>1, <2>2, <2>3, NoIdleIs DEF Busy, Queued
<1> QED BY <1>3 DEF NoIdleFollow, Wanted, Kept, Busy, Queued

\* A follow that is created or chosen is queued for the requests that asked for it.
LEMMA RequestKeeps ==
  ASSUME Inv, NoIdleFollow,
         Answer \/ \E r \in Request : StartFollow(r) \/ JoinFollow(r)
  PROVE  NoIdleFollow'
<1>1. locals' = locals /\ tasks' = tasks
  BY DEF Answer, CreateOk, CreateLimit, CreateFail, CreateLate, StartFollow, JoinFollow,
         clients, queue, pools, subs
<1>2. grants = <<>>
  BY DEF Answer, CreateOk, CreateLimit, CreateFail, CreateLate, StartFollow, JoinFollow, Idle
<1>3. ASSUME NEW u \in Request, Queued(u) PROVE \E i \in 1..Len(tasks) : tasks[i][2] = u
  BY <1>2, <1>3 DEF Queued
<1>4. CASE UNCHANGED phase
  BY <1>1, <1>3, <1>4 DEF NoIdleFollow, Wanted, Queued
<1>5. CASE CreateOk
  <2> DEFINE u == flight.creator
  <2>1. u \in Request /\ flight.waiters \in Seq(Request)
    BY <1>5 DEF CreateOk, Inv, TypeOK, Flight, MaybeRequest
  <2>2. Len(Participants) \in Nat /\ 1 <= Len(Participants)
    BY <2>1 DEF Participants
  <2>3. grants' = [i \in 1..Len(Participants) |-> <<Participants[i], u>>]
    BY <1>5 DEF CreateOk, HandOut
  <2>4. 1 \in 1..Len(grants') /\ grants'[1][2] = u
    BY <2>2, <2>3
  <2>5. phase' = [phase EXCEPT ![u] = "live"]
    BY <1>5 DEF CreateOk
  <2>6. ASSUME NEW v \in Request, Kept(v)' PROVE Busy(v)'
    <3>1. CASE v = u
      BY <2>4, <3>1 DEF Busy, Queued
    <3>2. CASE v # u
      <4>1. Kept(v)
        BY <2>5, <2>6, <3>2 DEF Kept, Inv, TypeOK
      <4> QED BY <1>1, <1>3, <4>1, NoIdleIs DEF Busy, Queued
    <3> QED BY <3>1, <3>2
  <2> QED BY <2>6 DEF NoIdleFollow, Wanted, Kept, Busy, Queued
<1> QED BY <1>4, <1>5 DEF Answer, CreateLimit, CreateFail, CreateLate, StartFollow,
        JoinFollow, subs

\* A request that is handed a follow joins it by a task, unless its client has.
LEMMA AssignKeeps == ASSUME Inv, NoIdleFollow, Assign PROVE NoIdleFollow'
<1> DEFINE r == Head(grants)[1]
           w == Head(grants)[2]
<1>1. /\ grants # <<>> /\ grants' = Tail(grants) /\ grants \in Seq(Request \X Request)
      /\ tasks \in Seq(Client \X Request) /\ UNCHANGED <<locals, phase>>
  BY DEF Assign, subs, Inv, TypeOK
<1>2. \/ locals[w] # {} /\ tasks' = tasks
      \/ tasks' = Append(tasks, <<Owner[r], w>>)
  BY DEF Assign
<1>3. w = grants[1][2]
  BY HeadIsFirst
<1>4. \A i \in 1..Len(tasks) : i \in 1..Len(tasks') /\ tasks'[i] = tasks[i]
  BY <1>1, <1>2
<1>5. ASSUME NEW u \in Request, Queued(u) PROVE Busy(u)'
  <2>1. CASE \E i \in 1..Len(tasks) : tasks[i][2] = u
    BY <1>4, <2>1 DEF Busy, Queued
  <2>2. CASE u = w
    <3>1. CASE locals[w] # {}
      BY <1>1, <2>2, <3>1 DEF Busy
    <3>2. CASE tasks' = Append(tasks, <<Owner[r], w>>)
      <4>1. Len(tasks) + 1 \in 1..Len(tasks') /\ tasks'[Len(tasks) + 1][2] = w
        BY <1>1, <3>2
      <4> QED BY <2>2, <4>1 DEF Busy, Queued
    <3> QED BY <1>2, <3>1, <3>2
  <2>3. CASE u # w /\ \E i \in 1..Len(grants) : grants[i][2] = u
    <3>1. PICK i \in 1..Len(grants) : grants[i][2] = u
      BY <2>3
    <3>2. i # 1
      BY <1>3, <2>3, <3>1
    <3>3. PICK j \in 1..Len(Tail(grants)) : Tail(grants)[j] = grants[i]
      BY <1>1, <3>2, TailKeeps
    <3> QED BY <1>1, <3>1, <3>3 DEF Busy, Queued
  <2> QED BY <1>5, <2>1, <2>2, <2>3 DEF Queued
<1> QED BY <1>1, <1>5, NoIdleIs DEF NoIdleFollow, Wanted, Kept, Busy, Queued

\* A task that was run has brought its subscriber, found it there, or destroyed the
\* follow that nobody else listens to.
LEMMA TaskKeeps ==
  ASSUME Inv, NoIdleFollow, NEW c \in Client, NEW u \in Request,
         Subscribe(c, u) \/ SubscribeTwice(c, u) \/ SubscribeClosed(c, u)
  PROVE  NoIdleFollow'
<1>1. /\ tasks # <<>> /\ tasks[1] = <<c, u>> /\ tasks' = Tail(tasks) /\ grants' = grants
      /\ tasks \in Seq(Client \X Request)
  BY HeadIsFirst DEF Subscribe, SubscribeTwice, SubscribeClosed, NextTask, Inv, TypeOK
<1>2. ASSUME NEW v \in Request, v # u, Queued(v) PROVE Queued(v)'
  <2>1. CASE \E i \in 1..Len(grants) : grants[i][2] = v
    BY <1>1, <2>1 DEF Queued
  <2>2. CASE \E i \in 1..Len(tasks) : tasks[i][2] = v
    <3>1. PICK i \in 1..Len(tasks) : tasks[i][2] = v
      BY <2>2
    <3>2. i # 1
      BY <1>1, <1>2, <3>1
    <3>3. PICK j \in 1..Len(Tail(tasks)) : Tail(tasks)[j] = tasks[i]
      BY <1>1, <3>2, TailKeeps
    <3> QED BY <1>1, <3>1, <3>3 DEF Queued
  <2> QED BY <1>2, <2>1, <2>2 DEF Queued
<1>3. CASE Subscribe(c, u) \/ SubscribeTwice(c, u)
  <2>1. /\ phase' = phase /\ locals'[u] # {}
        /\ \A v \in Request : v # u => locals'[v] = locals[v]
    <3>1. CASE Subscribe(c, u)
      BY <3>1 DEF Subscribe, Inv, TypeOK
    <3>2. CASE SubscribeTwice(c, u)
      BY <3>2 DEF SubscribeTwice, subs
    <3> QED BY <1>3, <3>1, <3>2
  <2>2. ASSUME NEW v \in Request, Kept(v)' PROVE Busy(v)'
    BY <1>2, <2>1, <2>2, NoIdleIs DEF Busy, Kept
  <2> QED BY <2>2 DEF NoIdleFollow, Wanted, Kept, Busy, Queued
<1>4. CASE SubscribeClosed(c, u)
  <2> DEFINE ended == Emptied({<<c, u>>})
  <2>1. /\ Discard(locals, ended, Evicted(ended))
        /\ phase' = PhaseAfter(locals, ended, Evicted(ended))
        /\ c \notin locals[u]
    BY <1>4 DEF SubscribeClosed
  <2>2. Kept(u) /\ locals[u] = {} => u \in ended
    BY DEF Emptied, Left, Kept
  <2>3. ASSUME NEW v \in Request, Kept(v)' PROVE Busy(v)'
    <3>1. CASE v # u
      BY <1>2, <2>1, <2>3, <3>1, DiscardKeeps DEF Inv
    <3>2. CASE v = u
      <4>1. u \notin ended /\ Kept(u) /\ (u \in Evicted(ended) => locals[u] = {})
        BY <2>1, <2>3, <3>2 DEF PhaseAfter, Kept
      <4>2. locals'[u] = locals[u] /\ locals[u] # {}
        BY <2>1, <2>2, <4>1 DEF Discard
      <4> QED BY <3>2, <4>2 DEF Busy
    <3> QED BY <3>1, <3>2
  <2> QED BY <2>3 DEF NoIdleFollow, Wanted, Kept, Busy, Queued
<1> QED BY <1>3, <1>4

\* An upstream follow nobody listens to is given back: a follow that is not destroyed
\* has a subscriber, or a request in the queues that becomes one.
THEOREM NoIdleFollowHolds == Spec => []NoIdleFollow
<1>1. Init => NoIdleFollow
  BY DEF Init, NoIdleFollow, Wanted
<1>2. Inv /\ NoIdleFollow /\ [Next]_vars => NoIdleFollow'
  <2> SUFFICES ASSUME Inv, NoIdleFollow, [Next]_vars PROVE NoIdleFollow'
    OBVIOUS
  <2>1. CASE UNCHANGED <<locals, phase, grants, tasks>>
    BY <2>1 DEF NoIdleFollow, Wanted
  <2>2. UNCHANGED vars \/ FlushDone \/ Flush \/ Reconnect
          => UNCHANGED <<locals, phase, grants, tasks>>
    BY DEF vars, FlushDone, Flush, Reconnect, queue, subs
  <2> QED BY <2>1, <2>2, DepartureKeeps, ReleaseKeeps, RequestKeeps, AssignKeeps,
             TaskKeeps DEF Next, TaskStep
<1> QED BY <1>1, <1>2, Invariance, PTL DEF Spec

-----------------------------------------------------------------------------
(* What the node serves.                                                      *)

ServedLive == \A u \in alive \ forsaken : phase[u] = "live"

\* A follow that was live and is not destroyed by the step still is.
LEMMA ServedAfter ==
  ASSUME TypeOK, ServedLive, NEW left, NEW ended, NEW evicted,
         phase' = PhaseAfter(left, ended, evicted),
         alive' \subseteq alive \ Dropped, forsaken \subseteq forsaken'
  PROVE  ServedLive'
<1>1. \A u \in Request : phase'[u] \in {"destroyed", phase[u]}
  BY DEF PhaseAfter
<1> QED BY <1>1 DEF ServedLive, Dropped, TypeOK

LEMMA ServedStep ==
  ASSUME Inv, ServedLive, [Next]_vars PROVE ServedLive'
<1>1. TypeOK
  BY DEF Inv
<1>2. CASE UNCHANGED <<alive, forsaken, phase>>
  BY <1>2 DEF ServedLive
<1>3. CASE CreateOk
  BY <1>1, <1>3 DEF CreateOk, ServedLive, TypeOK, Flight, MaybeRequest
<1>4. CASE CreateLate
  BY <1>4 DEF CreateLate, ServedLive, subs
<1>5. ASSUME NEW L, Leave(L), UNCHANGED forsaken PROVE ServedLive'
  BY <1>1, <1>5, ServedAfter DEF Leave, Unfollowing
<1>6. ASSUME NEW c \in Client, NEW u \in Request, SubscribeClosed(c, u) PROVE ServedLive'
  BY <1>1, <1>6, ServedAfter DEF SubscribeClosed, Unfollowing
<1>7. ASSUME NEW u \in Request, UnfollowSettled(u) PROVE ServedLive'
  BY <1>1, <1>7, ServedAfter DEF UnfollowSettled
<1>8. ASSUME NEW u \in Request, NEW b \in BOOLEAN, StreamEnds(u, b) PROVE ServedLive'
  <2> DEFINE after == PhaseAfter(locals, {}, Slot(pool[u], key[u]))
  <2>1. \A v \in Request : after[v] \in {"destroyed", phase[v]}
    BY DEF PhaseAfter
  <2>2. after \in [Request -> {"absent", "live", "stopped", "destroyed"}]
    BY <1>1, PhaseType
  <2>3. phase' = [after EXCEPT ![u] = IF @ = "destroyed" THEN @ ELSE "stopped"]
    BY <1>8 DEF StreamEnds
  <2> HIDE DEF after
  <2>4. \A v \in Request \ {u} : phase'[v] \in {"destroyed", phase[v]}
    BY <2>1, <2>2, <2>3
  <2>5. ASSUME NEW v \in alive' \ forsaken' PROVE phase'[v] = "live"
    <3>1. v \in alive \ forsaken /\ v # u /\ v \notin Dropped
      BY <1>8, <2>5 DEF StreamEnds
    <3> QED BY <1>1, <2>4, <3>1 DEF ServedLive, Dropped, TypeOK
  <2> QED BY <2>5 DEF ServedLive
<1>9. CASE Disconnect \/ ServerStop
  BY <1>9 DEF Disconnect, ServerStop, ServedLive
<1>10. UNCHANGED <<alive, forsaken, phase>> \/ CreateOk \/ CreateLate
       \/ (\E L : Leave(L) /\ UNCHANGED forsaken)
       \/ (\E c \in Client, u \in Request : SubscribeClosed(c, u))
       \/ (\E u \in Request : UnfollowSettled(u) \/ \E b \in BOOLEAN : StreamEnds(u, b))
       \/ Disconnect \/ ServerStop
  BY DEF Next, TaskStep, Answer, StartFollow, JoinFollow, CreateLimit, CreateFail, Assign,
         FlushDone, Flush, Subscribe, SubscribeTwice, Close, Unfollow, Reconnect, vars,
         subs, node
<1> QED BY <1>2, <1>3, <1>4, <1>5, <1>6, <1>7, <1>8, <1>9, <1>10

\* What the node serves on this connection is live here, and somebody is on it or about to
\* be: whoever leaves last, on whatever path, has it unfollowed.  Follows the watchdog gave
\* up and follows of requests that timed out are the only ones the node keeps for nobody.
THEOREM NodeServesUsedHolds == Spec => []NodeServesUsed
<1>1. Init => ServedLive
  BY DEF Init, ServedLive
<1>2. Inv /\ ServedLive /\ [Next]_vars => ServedLive'
  BY ServedStep
<1>3. Inv /\ ServedLive /\ NoIdleFollow => NodeServesUsed
  BY DEF Inv, TypeOK, ServedLive, NoIdleFollow, NodeServesUsed
<1> QED BY <1>1, <1>2, <1>3, Invariance, NoIdleFollowHolds, PTL DEF Spec

-----------------------------------------------------------------------------
(* The state managers, and what is handed out.                                *)

\* A request that was not sent has named no pool and no follow; one that is being answered
\* has not made its follow yet.
Fresh ==
  /\ \A r \in Request : status[r] = "new" =>
       phase[r] = "absent" /\ \A u \in Request : pool[u] # r
  /\ group # None => status[group] # "new"
  /\ flight.creator # None =>
       /\ phase[flight.creator] = "absent" /\ status[flight.creator] # "new"
       /\ flight.pool \in Request /\ status[flight.pool] # "new"

\* What a step that takes subscribers or follows away leaves of them.
Departs ==
  /\ UNCHANGED <<status, grants, pool, key>>
  /\ flight'.creator = flight.creator /\ flight'.pool = flight.pool
  /\ flight'.selected = flight.selected
  /\ group' \in {group, None}
  /\ \A u \in Request : rank'[u] > 0 => rank[u] > 0
  /\ \A u \in Request : phase[u] = "absent" <=> phase'[u] = "absent"
  /\ group' # None => \A u \in alive : phase'[u] = "live" => u \in alive'
  /\ purged \subseteq purged'

\* A follow that is listed or ended was there before.
LEMMA PhaseDeparts ==
  ASSUME NEW left, NEW ended, NEW evicted,
         \A u \in ended \cup evicted : phase[u] # "absent"
  PROVE  \A u \in Request :
           /\ phase[u] = "absent" <=> PhaseAfter(left, ended, evicted)[u] = "absent"
           /\ PhaseAfter(left, ended, evicted)[u] \in {"destroyed", phase[u]}
  BY DEF PhaseAfter

LEMMA Present ==
  ASSUME TypeOK, SlotsSound
  PROVE  /\ \A L : \A u \in Emptied(L) \cup Aborted : phase[u] # "absent"
         /\ \A S : \A u \in Evicted(S) : phase[u] # "absent"
         /\ \A p, k : \A u \in Slot(p, k) : phase[u] # "absent"
  BY DEF Emptied, Aborted, Evicted, Slot, Listed, SlotsSound

LEMMA DiscardDeparts ==
  ASSUME NEW left, NEW ended, NEW evicted, Discard(left, ended, evicted)
  PROVE  UNCHANGED <<pool, key>> /\ \A u \in Request : rank'[u] > 0 => rank[u] > 0
         BY DEF Discard

LEMMA LeaveDeparts ==
  ASSUME Inv, NEW L, Leave(L), UNCHANGED <<status, grants, flight, purged>>
  PROVE  Departs
<1> DEFINE ended == Emptied(L)
<1>1. /\ Discard(Left(L), ended, Evicted(ended))
      /\ phase' = PhaseAfter(Left(L), ended, Evicted(ended))
      /\ Unfollowing(Dropped) /\ group' \in {group, None}
  BY DEF Leave, GroupAfter
<1>2. \A u \in ended \cup Evicted(ended) : phase[u] # "absent"
  BY Present DEF Inv
<1>3. \A u \in alive : phase'[u] = "live" => u \in alive'
  BY <1>1 DEF Unfollowing, Dropped
<1> HIDE DEF ended
<1> QED BY <1>1, <1>2, <1>3, PhaseDeparts, DiscardDeparts DEF Departs

LEMMA ClosedDeparts ==
  ASSUME Inv, NEW c \in Client, NEW u \in Request, SubscribeClosed(c, u)
  PROVE  Departs
<1> DEFINE ended == Emptied({<<c, u>>})
<1>1. /\ Discard(locals, ended, Evicted(ended))
      /\ phase' = PhaseAfter(locals, ended, Evicted(ended))
      /\ Unfollowing(Dropped) /\ group' \in {group, None}
      /\ UNCHANGED <<status, grants, flight>> /\ purged \subseteq purged'
  BY DEF SubscribeClosed, GroupAfter, clients
<1>2. \A v \in ended \cup Evicted(ended) : phase[v] # "absent"
  BY Present DEF Inv
<1>3. \A v \in alive : phase'[v] = "live" => v \in alive'
  BY <1>1 DEF Unfollowing, Dropped
<1> HIDE DEF ended
<1> QED BY <1>1, <1>2, <1>3, PhaseDeparts, DiscardDeparts DEF Departs

LEMMA SettledDeparts ==
  ASSUME Inv, NEW u \in Request, UnfollowSettled(u) PROVE Departs
<1> DEFINE held == Slot(pool[u], key[u])
<1>1. /\ Discard(locals, {}, held) /\ phase' = PhaseAfter(locals, {}, held)
      /\ alive' = alive \ Dropped /\ group' \in {group, None}
      /\ UNCHANGED <<status, grants, flight, purged>>
  BY DEF UnfollowSettled, ReleaseSlot, GroupAfter, clients, queue
<1>2. \A v \in {} \cup held : phase[v] # "absent"
  BY Present DEF Inv
<1>3. \A v \in alive : phase'[v] = "live" => v \in alive'
  BY <1>1 DEF Dropped
<1> HIDE DEF held
<1> QED BY <1>1, <1>2, <1>3, PhaseDeparts, DiscardDeparts DEF Departs

LEMMA EndsDeparts ==
  ASSUME Inv, NEW u \in Request, NEW b \in BOOLEAN, StreamEnds(u, b) PROVE Departs
<1> DEFINE held == Slot(pool[u], key[u])
           after == PhaseAfter(locals, {}, held)
<1>1. /\ Discard(locals, {}, held)
      /\ phase' = [after EXCEPT ![u] = IF @ = "destroyed" THEN @ ELSE "stopped"]
      /\ phase[u] = "live" /\ group' \in {group, None}
      /\ alive' = (alive \ (Dropped \ {u})) \ (IF b THEN {u} ELSE {})
      /\ UNCHANGED <<status, grants, flight, purged>>
  BY DEF StreamEnds, ReleaseSlot, GroupAfter, clients, queue
<1>2. \A v \in {} \cup held : phase[v] # "absent"
  BY Present DEF Inv
<1>3. after \in [Request -> {"absent", "live", "stopped", "destroyed"}]
  BY PhaseType DEF Inv
<1>4. \A v \in Request : phase[v] = "absent" <=> after[v] = "absent"
  BY <1>2, PhaseDeparts
<1> HIDE DEF held, after
<1>5. /\ \A v \in Request : phase[v] = "absent" <=> phase'[v] = "absent"
      /\ phase'[u] # "live"
  BY <1>1, <1>3, <1>4
<1>6. \A v \in alive : phase'[v] = "live" => v \in alive'
  BY <1>1, <1>5 DEF Dropped
<1> QED BY <1>1, <1>5, <1>6, DiscardDeparts DEF Departs

LEMMA ConnectionDeparts ==
  ASSUME Inv, Disconnect \/ ServerStop PROVE Departs
<1>1. PICK L : LET ended == Emptied(L) \cup Aborted
               IN /\ Discard(Left(L), ended, Evicted(ended))
                  /\ phase' = PhaseAfter(Left(L), ended, Evicted(ended))
  BY DEF Disconnect, ServerStop
<1> DEFINE ended == Emptied(L) \cup Aborted
<1>2. \A v \in ended \cup Evicted(ended) : phase[v] # "absent"
  BY Present DEF Inv
<1>3. /\ UNCHANGED <<status, grants, purged>> /\ group' = None
      /\ flight' = [flight EXCEPT !.lost = (flight.creator # None)]
  BY DEF Disconnect, ServerStop, clients, queue
<1>4. /\ flight'.creator = flight.creator /\ flight'.pool = flight.pool
      /\ flight'.selected = flight.selected
  BY <1>3 DEF Inv, TypeOK, Flight
<1>5. Discard(Left(L), ended, Evicted(ended))
      /\ phase' = PhaseAfter(Left(L), ended, Evicted(ended))
  BY <1>1
<1> HIDE DEF ended
<1>6. UNCHANGED <<pool, key>> /\ \A u \in Request : rank'[u] > 0 => rank[u] > 0
  BY <1>5, DiscardDeparts
<1>7. \A u \in Request : phase[u] = "absent" <=> phase'[u] = "absent"
  BY <1>2, <1>5, PhaseDeparts
<1> QED BY <1>3, <1>4, <1>6, <1>7 DEF Departs

\* Every step is one that departs, one of a request, or leaves all this alone.
Departure ==
  \/ \E c \in Client : Close(c) \/ \E u \in Request : Unfollow(c, u) \/ SubscribeClosed(c, u)
  \/ \E u \in Request : UnfollowSettled(u) \/ \E b \in BOOLEAN : StreamEnds(u, b)
  \/ Disconnect \/ ServerStop

LEMMA Departing == ASSUME Inv, Departure PROVE Departs
<1>1. ASSUME NEW c \in Client, Close(c) PROVE Departs
  BY <1>1, LeaveDeparts DEF Close, queue
<1>2. ASSUME NEW c \in Client, NEW u \in Request, Unfollow(c, u) PROVE Departs
  BY <1>2, LeaveDeparts DEF Unfollow, clients, queue
<1> QED BY <1>1, <1>2, ClosedDeparts, SettledDeparts, EndsDeparts, ConnectionDeparts
        DEF Departure

LEMMA FreshDeparts == ASSUME TypeOK, Fresh, Departs PROVE Fresh'
  BY DEF Fresh, Departs, TypeOK, Flight, MaybeRequest

LEMMA FreshNext == ASSUME Inv, Fresh, [Next]_vars PROVE Fresh'
<1>1. TypeOK /\ None \notin Request
  BY FollowAssumption DEF Inv
<1>2. ASSUME NEW r \in Request, StartFollow(r) PROVE Fresh'
  <2>1. PoolFor(r) \in Request /\ (PoolFor(r) = r \/ status[PoolFor(r)] # "new")
    BY <1>1 DEF PoolFor, Fresh, TypeOK, MaybeRequest
  <2>2. /\ group' = PoolFor(r) /\ status' = [status EXCEPT ![r] = "waiting"]
        /\ UNCHANGED <<phase, pool>>
        /\ \/ UNCHANGED flight
           \/ flight'.creator = r /\ flight'.pool = PoolFor(r)
    BY <1>2 DEF StartFollow, subs
  <2>3. status[r] = "new"
    BY <1>2 DEF StartFollow
  <2> QED BY <1>1, <2>1, <2>2, <2>3 DEF Fresh, TypeOK
<1>3. ASSUME NEW r \in Request, JoinFollow(r) PROVE Fresh'
  <2>1. PoolFor(r) \in Request /\ (PoolFor(r) = r \/ status[PoolFor(r)] # "new")
    BY <1>1 DEF PoolFor, Fresh, TypeOK, MaybeRequest
  <2>2. /\ group' = PoolFor(r) /\ UNCHANGED <<phase, pool>>
        /\ \E s \in {"waiting", "denied"} : status' = [status EXCEPT ![r] = s]
        /\ flight'.creator = flight.creator /\ flight'.pool = flight.pool
    BY <1>1, <1>3 DEF JoinFollow, subs, TypeOK, Flight
  <2> QED BY <1>1, <2>1, <2>2 DEF Fresh, TypeOK
<1>4. CASE CreateOk
  <2>1. /\ flight'.creator = None /\ flight.creator # None /\ flight.creator \in Request
        /\ phase' = [phase EXCEPT ![flight.creator] = "live"]
        /\ pool' = [pool EXCEPT ![flight.creator] = flight.pool]
        /\ UNCHANGED <<status, group>>
    BY <1>1, <1>4 DEF CreateOk, NoFlight, clients, TypeOK, Flight, MaybeRequest
  <2> QED BY <1>1, <2>1 DEF Fresh, TypeOK
<1>5. CASE CreateLimit \/ CreateFail \/ CreateLate
  <2>1. flight'.creator = None /\ UNCHANGED <<group, pool, phase>>
    BY <1>5 DEF CreateLimit, CreateFail, CreateLate, NoFlight, pools, subs
  <2>2. \A r \in Request : status'[r] = "new" => status[r] = "new"
    BY <1>5 DEF CreateLimit, CreateFail, CreateLate, Refuse
  <2>3. group # None => status'[group] # "new"
    BY <1>1, <2>2 DEF Fresh, TypeOK, MaybeRequest
  <2> QED BY <1>1, <2>1, <2>2, <2>3 DEF Fresh
<1>6. CASE Assign
  <2>1. \A r \in Request : status'[r] = "new" => status[r] = "new"
    BY <1>1, <1>6 DEF Assign, TypeOK
  <2>2. UNCHANGED <<group, pool, phase, flight>>
    BY <1>6 DEF Assign, pools, subs
  <2>3. \A r \in MaybeRequest : r # None => r \in Request
    BY DEF MaybeRequest
  <2>4. flight.creator \in MaybeRequest /\ group \in MaybeRequest
    BY <1>1 DEF TypeOK, Flight
  <2> QED BY <1>1, <2>1, <2>2, <2>3, <2>4 DEF Fresh
<1>7. CASE UNCHANGED <<status, group, flight, pool, phase>>
  BY <1>7 DEF Fresh
<1>8. CASE Departure
  BY <1>1, <1>8, Departing, FreshDeparts
<1>9. FlushDone \/ Flush \/ Reconnect \/ UNCHANGED vars
      \/ (\E c \in Client, u \in Request : Subscribe(c, u) \/ SubscribeTwice(c, u))
      => UNCHANGED <<status, group, flight, pool, phase>>
  BY DEF FlushDone, Flush, Reconnect, Subscribe, SubscribeTwice, vars, clients, pools, subs
<1> QED BY <1>2, <1>3, <1>4, <1>5, <1>6, <1>7, <1>8, <1>9
        DEF Next, TaskStep, Answer, Departure

-----------------------------------------------------------------------------
(* The state managers.                                                        *)

\* Follows that share a manager have its key, and only follows that were created have or
\* made one.
Shares ==
  /\ ManagersCurrent
  /\ \A u \in Request : manager[u] \in managers => key[u] = key[manager[u]]
  /\ \A u \in Request : phase[u] = "absent" =>
       u \notin managers /\ \A v \in Request : manager[v] # u

LEMMA SharesForget ==
  ASSUME Inv, Shares, Departs, Forget PROVE Shares'
<1>1. TypeOK /\ UNCHANGED <<key, manager>> /\ managers' \subseteq managers
  BY DEF Inv, Departs, Forget
<1>2. ASSUME NEW u \in Request, manager[u] \in managers', phase'[u] # "live" PROVE FALSE
  <2>1. phase[u] = "live" /\ key[u] = key[manager[u]]
    BY <1>1, <1>2 DEF Shares, ManagersCurrent
  <2>2. u \in CleanedUp /\ manager[u] # None
    BY <1>1, <1>2, <2>1, FollowAssumption DEF CleanedUp, TypeOK
  <2> QED BY <1>2, <2>1, <2>2 DEF Forget
<1>3. ManagersCurrent'
  BY <1>1, <1>2 DEF ManagersCurrent
<1>4. \A u \in Request : phase'[u] = "absent" => phase[u] = "absent"
  BY DEF Departs
<1> QED BY <1>1, <1>3, <1>4 DEF Shares

LEMMA SharesNext ==
  ASSUME Inv, Fresh, Shares, [Next]_vars PROVE Shares'
<1>1. TypeOK
  BY DEF Inv
<1>2. CASE UNCHANGED <<manager, managers, key, phase>>
  BY <1>2 DEF Shares, ManagersCurrent
<1>3. CASE CreateOk
  <2> DEFINE u == flight.creator
             m == Manager(u, flight.key)
  <2>1. u \in Request /\ phase[u] = "absent" /\ flight.key \in Nat
    BY <1>1, <1>3 DEF CreateOk, Fresh, TypeOK, Flight, MaybeRequest
  <2>2. m = u \/ (m \in managers /\ key[m] = flight.key)
    BY DEF Manager
  <2>3. u \notin managers /\ \A v \in Request : manager[v] # u
    BY <2>1 DEF Shares
  <2>4. /\ manager' = [manager EXCEPT ![u] = m] /\ managers' = managers \cup {m}
        /\ key' = [key EXCEPT ![u] = flight.key] /\ phase' = [phase EXCEPT ![u] = "live"]
    BY <1>3 DEF CreateOk
  <2>5. m \in Request /\ managers \subseteq Request
    BY <1>1, <2>1, <2>2 DEF TypeOK
  <2> HIDE DEF u, m
  <2>6. ManagersCurrent'
    <3>1. ASSUME NEW v \in Request, v # u, manager[v] \in managers \cup {m}
          PROVE  phase[v] = "live"
      BY <2>2, <2>3, <3>1 DEF Shares, ManagersCurrent
    <3> QED BY <1>1, <2>1, <2>4, <3>1 DEF ManagersCurrent, TypeOK
  <2>7. \A v \in Request : manager'[v] \in managers' => key'[v] = key'[manager'[v]]
    <3>1. ASSUME NEW v \in Request, v # u, manager[v] \in managers \cup {m}
          PROVE  key'[v] = key'[manager[v]]
      <4>1. manager[v] \in managers /\ manager[v] # u
        BY <2>2, <2>3, <3>1
      <4> QED BY <1>1, <2>1, <2>4, <2>5, <3>1, <4>1 DEF Shares, TypeOK
    <3>2. key'[u] = key'[m]
      BY <1>1, <2>1, <2>2, <2>4, <2>5 DEF TypeOK
    <3> QED BY <1>1, <2>1, <2>4, <3>1, <3>2 DEF TypeOK
  <2>8. \A w \in Request : phase'[w] = "absent" =>
          w \notin managers' /\ \A v \in Request : manager'[v] # w
    <3>1. ASSUME NEW w \in Request, phase'[w] = "absent"
          PROVE  w # u /\ phase[w] = "absent"
      BY <1>1, <2>1, <2>4, <3>1 DEF TypeOK
    <3> QED BY <1>1, <2>1, <2>2, <2>4, <3>1 DEF Shares, TypeOK
  <2> QED BY <2>6, <2>7, <2>8 DEF Shares
<1>4. CASE Disconnect \/ ServerStop
  <2>1. managers' = {} /\ \A u \in Request : manager'[u] = None
    BY <1>4 DEF Disconnect, ServerStop
  <2> QED BY <2>1, FollowAssumption DEF Shares, ManagersCurrent
<1>5. CASE Departure /\ Forget
  BY <1>5, Departing, SharesForget
<1>6. Departure => Forget \/ Disconnect \/ ServerStop
  <2>1. \A L : Leave(L) => Forget
    BY DEF Leave
  <2>2. \A c \in Client : Close(c) => Forget
    BY <2>1 DEF Close
  <2>3. \A c \in Client, u \in Request : Unfollow(c, u) => Forget
    BY <2>1 DEF Unfollow
  <2>4. \A c \in Client, u \in Request : SubscribeClosed(c, u) => Forget
    BY DEF SubscribeClosed
  <2>5. \A u \in Request, b \in BOOLEAN : UnfollowSettled(u) \/ StreamEnds(u, b) => Forget
    BY DEF UnfollowSettled, StreamEnds
  <2> QED BY <2>2, <2>3, <2>4, <2>5 DEF Departure
<1>7. Departure \/ CreateOk \/ UNCHANGED <<manager, managers, key, phase>>
  BY DEF Next, TaskStep, Answer, Departure, StartFollow, JoinFollow, CreateLimit, CreateFail,
         CreateLate, Assign, FlushDone, Flush, Subscribe, SubscribeTwice, Reconnect, vars,
         subs, pools
<1> QED BY <1>2, <1>3, <1>4, <1>5, <1>6, <1>7

\* A manager found under its key has been fed only by follows that still run: when two
\* follows share one, the first that ends takes it out.
THEOREM ManagersCurrentHolds == Spec => []ManagersCurrent
<1>1. Init => Fresh /\ Shares
  BY FollowAssumption DEF Init, Fresh, Shares, ManagersCurrent, NoFlight
<1>2. Inv /\ Fresh /\ Shares /\ [Next]_vars => Fresh' /\ Shares'
  BY FreshNext, SharesNext
<1>3. Shares => ManagersCurrent
  BY DEF Shares
<1> QED BY <1>1, <1>2, <1>3, Invariance, PTL DEF Spec

-----------------------------------------------------------------------------
(* What is handed out.                                                        *)

\* leastLoaded is listed, or lost its last client while it was computed; and the node serves
\* what the pool in `groups` lists.
Fits(p, u) == pool[u] = p /\ phase[u] # "absent" /\ (rank[u] > 0 \/ u \in purged)
FitsAfter(p, u) ==
  pool'[u] = p /\ phase'[u] # "absent" /\ (rank'[u] > 0 \/ u \in purged')
LeastSound == \A p \in Request : least[p] # None => Fits(p, least[p])
GroupServed == group # None => Listed(group) \subseteq alive

LEMMA GroupServedNext ==
  ASSUME Inv, Inv', Fresh, GroupServed, [Next]_vars PROVE GroupServed'
<1>1. TypeOK /\ None \notin Request
  BY FollowAssumption DEF Inv
<1>2. CASE Departure
  <2>1. Departs /\ SlotsSound'
    BY <1>2, Departing DEF Inv
  <2> QED BY <2>1 DEF Departs, GroupServed, SlotsSound, Listed
<1>3. ASSUME NEW r \in Request, StartFollow(r) \/ JoinFollow(r) PROVE GroupServed'
  <2>1. /\ group' = PoolFor(r) /\ status[r] = "new"
        /\ UNCHANGED <<rank, pool, alive>>
    BY <1>3 DEF StartFollow, JoinFollow, node
  <2>2. Listed(PoolFor(r))' = Listed(PoolFor(r)) \/ PoolFor(r) \in {r, group}
    BY DEF PoolFor
  <2>3. \A p : Listed(p)' = {u \in Request : rank[u] > 0 /\ pool[u] = p}
    BY <2>1 DEF Listed
  <2>4. CASE group = None
    BY <2>1, <2>3, <2>4 DEF PoolFor, Fresh, GroupServed, Listed
  <2>5. CASE group # None
    BY <2>1, <2>3, <2>5 DEF PoolFor, GroupServed, Listed
  <2> QED BY <2>4, <2>5
<1>4. CASE CreateOk
  <2> DEFINE u == flight.creator
  <2>1. u \in Request
    BY <1>1, <1>4 DEF CreateOk, TypeOK, Flight, MaybeRequest
  <2>2. /\ alive' = alive \cup {u} /\ UNCHANGED group
        /\ pool' = [pool EXCEPT ![u] = flight.pool]
        /\ \A v \in Request \ {u} : rank'[v] \in {0, rank[v]}
    BY <1>4 DEF CreateOk
  <2> HIDE DEF u
  <2>3. ASSUME NEW v \in Request, group # None, rank'[v] > 0, pool'[v] = group
        PROVE  v \in alive \cup {u}
    <3>1. CASE v # u
      <4>1. pool[v] = group
        BY <1>1, <2>2, <2>3, <3>1 DEF TypeOK
      <4>2. rank[v] > 0
        BY <2>2, <2>3, <3>1
      <4> QED BY <2>3, <4>1, <4>2 DEF GroupServed, Listed
    <3> QED BY <3>1
  <2>4. Listed(group)' = {v \in Request : rank'[v] > 0 /\ pool'[v] = group}
    BY <2>2 DEF Listed
  <2> QED BY <2>2, <2>3, <2>4 DEF GroupServed
<1>5. CASE /\ UNCHANGED <<group, rank, pool>> /\ alive \subseteq alive'
  BY <1>5 DEF GroupServed, Listed
<1>6. \/ Departure \/ CreateOk \/ (\E r \in Request : StartFollow(r) \/ JoinFollow(r))
      \/ (UNCHANGED <<group, rank, pool>> /\ alive \subseteq alive')
  BY DEF Next, TaskStep, Answer, Departure, CreateLimit, CreateFail, CreateLate, Assign,
         FlushDone, Flush, Subscribe, SubscribeTwice, Reconnect, vars, pools, node
<1> QED BY <1>2, <1>3, <1>4, <1>5, <1>6

\* A step that takes follows away, and what it computes leastLoaded from.
LEMMA LeastKept ==
  ASSUME TypeOK, TypeOK', SlotsSound, SlotsSound', LeastSound, Departs, NEW touched,
         \A p \in Request : least'[p] # None =>
           least'[p] \in IF p \in touched THEN Listed(p)' ELSE Listed(p) \cup {least[p]},
         \A u \in Request : rank[u] > 0 /\ rank'[u] = 0 => pool[u] \in touched \/ u \in purged'
  PROVE  LeastSound'
<1> SUFFICES ASSUME NEW p \in Request, least'[p] # None PROVE FitsAfter(p, least'[p])
  BY DEF LeastSound, Fits, FitsAfter
<1>1. least'[p] \in Request /\ rank'[least'[p]] \in Nat
  BY DEF TypeOK, MaybeRequest
<1>2. CASE p \in touched
  BY <1>2 DEF Listed, FitsAfter, SlotsSound
<1>3. CASE p \notin touched
  <2>1. Fits(p, least'[p])
    BY <1>3 DEF Listed, Fits, SlotsSound, LeastSound
  <2> QED BY <1>1, <1>3, <2>1 DEF Fits, FitsAfter, Departs
<1> QED BY <1>2, <1>3

\* leastLoaded is computed from what is listed after the step.
LEMMA LeastListed == \A p : Least(p) # None => Least(p) \in Listed(p)
  BY DEF Least, LeastLoaded
LEMMA LeastTouched ==
  ASSUME NEW touched, NEW p \in Request, LeastAfter(touched)[p] # None
  PROVE  LeastAfter(touched)[p] \in
           IF p \in touched THEN Listed(p)' ELSE Listed(p) \cup {least[p]}
<1>1. (Least(p) # None => Least(p) \in Listed(p))'
  BY DEF Least, LeastLoaded
<1> QED BY <1>1 DEF LeastAfter

\* What leaves with an ended follow was in the same pool.
LEMMA DiscardPools ==
  ASSUME TypeOK, NEW left, NEW ended, Discard(left, ended, Evicted(ended)),
         NEW u \in Request, rank[u] > 0, rank'[u] = 0
  PROVE  \E v \in ended : pool[u] = pool[v]
<1>1. u \in ended \cup Evicted(ended)
  BY DEF Discard
<1> QED BY <1>1 DEF Evicted, Slot, Listed

LEMMA EmptiedPools ==
  ASSUME NEW L, NEW u \in Emptied(L) PROVE pool[u] \in {pool[e[2]] : e \in L}
<1>1. PICK c \in Client : <<c, u>> \in L
  BY DEF Emptied
<1>2. <<c, u>>[2] = u
  OBVIOUS
<1> QED BY <1>1, <1>2

LEMMA LeaveLeast ==
  ASSUME Inv, Inv', LeastSound, Departs, NEW L, Leave(L) PROVE LeastSound'
<1> DEFINE touched == {pool[e[2]] : e \in L}
<1>1. TypeOK /\ TypeOK' /\ SlotsSound /\ SlotsSound'
  BY DEF Inv
<1>2. \A u \in Emptied(L) : pool[u] \in touched
  BY EmptiedPools
<1>3. least' = LeastAfter(touched) /\ Discard(Left(L), Emptied(L), Evicted(Emptied(L)))
  BY DEF Leave
<1> HIDE DEF touched
<1>4. \A u \in Request : rank[u] > 0 /\ rank'[u] = 0 => pool[u] \in touched
  BY <1>1, <1>2, <1>3, DiscardPools
<1> QED BY <1>1, <1>3, <1>4, LeastKept, LeastTouched

LEMMA ReleaseLeast ==
  ASSUME Inv, Inv', LeastSound, Departs, NEW p, NEW k, ReleaseSlot(p, k) PROVE LeastSound'
<1>1. TypeOK /\ TypeOK' /\ SlotsSound /\ SlotsSound'
  BY DEF Inv
<1>2. \A u \in Request : rank[u] > 0 /\ rank'[u] = 0 => u \in Slot(p, k)
  BY DEF ReleaseSlot, Discard
<1>3. CASE least' = LeastAfter({p})
  <2>1. \A u \in Request : rank[u] > 0 /\ rank'[u] = 0 => pool[u] \in {p}
    BY <1>2 DEF Slot, Listed
  <2> QED BY <1>1, <1>3, <2>1, LeastKept, LeastTouched
<1>4. CASE least' = least /\ ~(least[p] # None /\ key[least[p]] = k)
  <2> SUFFICES ASSUME NEW q \in Request, least[q] # None PROVE FitsAfter(q, least[q])
    BY <1>4 DEF LeastSound, Fits, FitsAfter
  <2>1. least[q] \in Request /\ Fits(q, least[q]) /\ rank'[least[q]] \in Nat
    BY <1>1, <1>4 DEF TypeOK, MaybeRequest, LeastSound
  <2>2. least[q] \notin Slot(p, k)
    BY <1>4, <2>1 DEF Slot, Listed, Fits
  <2> QED BY <1>1, <1>2, <2>1, <2>2 DEF Fits, FitsAfter, Departs, TypeOK
<1> QED BY <1>3, <1>4 DEF ReleaseSlot

LEMMA ClosedLeast ==
  ASSUME Inv, Inv', LeastSound, NEW c \in Client, NEW u \in Request, SubscribeClosed(c, u)
  PROVE  LeastSound'
<1> DEFINE ended == Emptied({<<c, u>>})
           looped == ended # {} /\ rank[u] > 0 /\ conn = "up" /\ Listed(pool[u]) # {u}
<1>1. TypeOK /\ TypeOK' /\ SlotsSound /\ SlotsSound' /\ Departs
  BY ClosedDeparts DEF Inv
<1>2. \A v \in ended : v = u
  BY DEF Emptied
<1>3. /\ Discard(locals, ended, Evicted(ended))
      /\ purged' = (IF looped THEN purged \cup {u} ELSE purged)
      /\ least' = IF looped THEN [least EXCEPT ![pool[u]] = Least(pool[u])]
                  ELSE LeastAfter({pool[u]})
  BY DEF SubscribeClosed
<1> HIDE DEF ended
<1>4. \A v \in Request : rank[v] > 0 /\ rank'[v] = 0 => pool[v] = pool[u]
  BY <1>1, <1>2, <1>3, DiscardPools
<1>5. CASE ~looped
  <2>1. least' = LeastAfter({pool[u]})
    BY <1>3, <1>5
  <2>2. \A p \in Request : least'[p] # None =>
          least'[p] \in IF p \in {pool[u]} THEN Listed(p)' ELSE Listed(p) \cup {least[p]}
    BY <2>1, LeastTouched
  <2>3. \A v \in Request : rank[v] > 0 /\ rank'[v] = 0 => pool[v] \in {pool[u]} \/ v \in purged'
    BY <1>4
  <2> QED BY <1>1, <2>2, <2>3, LeastKept
<1>6. CASE looped
  <2>1. Slot(pool[u], key[u]) = {u}
    BY <1>6 DEF Slot, Listed, Inv, SlotsSound
  <2>2. \A v \in Evicted(ended) : v = u
    BY <1>2, <2>1 DEF Evicted
  <2>3. \A v \in Request : rank[v] > 0 /\ rank'[v] = 0 => v = u
    BY <1>2, <1>3, <2>2 DEF Discard
  <2>4. u \in purged' /\ least' = [least EXCEPT ![pool[u]] = Least(pool[u])]
    BY <1>3, <1>6
  <2> HIDE DEF looped
  <2>5. \A p \in Request : least'[p] # None => least'[p] \in Listed(p) \cup {least[p]}
    BY <1>1, <2>4, LeastListed DEF TypeOK
  <2> DEFINE none == {}
  <2>6. \A x : x \notin none
    OBVIOUS
  <2> HIDE DEF none
  <2>7. \A p \in Request : least'[p] # None =>
          least'[p] \in IF p \in none THEN Listed(p)' ELSE Listed(p) \cup {least[p]}
    BY <2>5, <2>6
  <2>8. \A v \in Request : rank[v] > 0 /\ rank'[v] = 0 => pool[v] \in none \/ v \in purged'
    BY <2>3, <2>4
  <2> QED BY <1>1, <2>7, <2>8, LeastKept
<1> QED BY <1>5, <1>6

LEMMA ConnectionLeast ==
  ASSUME Inv, Inv', LeastSound, Disconnect \/ ServerStop PROVE LeastSound'
<1>1. PICK L : LET ended == Emptied(L) \cup Aborted
               IN /\ Discard(Left(L), ended, Evicted(ended))
                  /\ least' = [p \in Request |-> IF p = group THEN None
                               ELSE LeastAfter({pool[e[2]] : e \in L})[p]]
  <2>1. CASE Disconnect
    BY <2>1 DEF Disconnect
  <2>2. CASE ServerStop
    BY <2>2 DEF ServerStop
  <2> QED BY <2>1, <2>2
<1> DEFINE touched == {pool[e[2]] : e \in L}
           ended == Emptied(L) \cup Aborted
<1>2. TypeOK /\ TypeOK' /\ SlotsSound /\ SlotsSound' /\ Departs
  BY ConnectionDeparts DEF Inv
<1>3. \A u \in ended : pool[u] \in touched \cup {group}
  BY EmptiedPools DEF Aborted, Listed
<1>4. /\ Discard(Left(L), ended, Evicted(ended))
      /\ least' = [p \in Request |-> IF p = group THEN None ELSE LeastAfter(touched)[p]]
  BY <1>1
<1> HIDE DEF touched, ended
<1>5. \A u \in Request : rank[u] > 0 /\ rank'[u] = 0 => pool[u] \in touched \cup {group}
  BY <1>2, <1>3, <1>4, DiscardPools
<1>6. \A p \in Request : least'[p] # None =>
        least'[p] \in IF p \in touched \cup {group} THEN Listed(p)'
                      ELSE Listed(p) \cup {least[p]}
  BY <1>4, LeastTouched
<1> QED BY <1>2, <1>5, <1>6, LeastKept

LEMMA LeastNext ==
  ASSUME Inv, Inv', Fresh, NoIdleFollow, LeastSound, [Next]_vars PROVE LeastSound'
<1>1. TypeOK /\ None \notin Request
  BY FollowAssumption DEF Inv
<1>2. ASSUME NEW L, Departs, Leave(L) PROVE LeastSound'
  BY <1>2, LeaveLeast
<1>3. CASE Departure
  <2>1. ASSUME NEW c \in Client, Close(c) PROVE LeastSound'
    BY <1>2, <1>3, <2>1, Departing DEF Close
  <2>2. ASSUME NEW c \in Client, NEW u \in Request, Unfollow(c, u) PROVE LeastSound'
    BY <1>2, <1>3, <2>2, Departing DEF Unfollow
  <2>3. ASSUME NEW u \in Request, UnfollowSettled(u) \/ \E b \in BOOLEAN : StreamEnds(u, b)
        PROVE  LeastSound'
    BY <1>3, <2>3, Departing, ReleaseLeast DEF UnfollowSettled, StreamEnds
  <2> QED BY <1>3, <2>1, <2>2, <2>3, ClosedLeast, ConnectionLeast DEF Departure
<1>4. CASE CreateOk
  <2> DEFINE u == flight.creator
             p == flight.pool
             old == Slot(p, flight.key)
  <2>1. u \in Request /\ p \in Request /\ phase[u] = "absent"
    BY <1>1, <1>4 DEF CreateOk, Fresh, TypeOK, Flight, MaybeRequest
  <2>2. /\ pool' = [pool EXCEPT ![u] = p] /\ phase' = [phase EXCEPT ![u] = "live"]
        /\ \A v \in Request \ {u} : rank'[v] = IF v \in old THEN 0 ELSE rank[v]
        /\ least' = IF least[p] = None \/ locals[least[p]] # {}
                    THEN [least EXCEPT ![p] = u] ELSE least
        /\ UNCHANGED purged
    BY <1>4 DEF CreateOk
  <2>3. rank'[u] > 0
    <3> DEFINE n == Cardinality({w \in Request : phase[w] # "absent"})
    <3>1. n \in Nat
      BY SizeType
    <3>2. old # {} => (CHOOSE w \in old : TRUE) \in old
      OBVIOUS
    <3>3. \A w \in old : rank[w] \in Nat /\ rank[w] > 0
      BY <1>1 DEF Slot, Listed, TypeOK
    <3>4. rank'[u] = IF old = {} THEN 1 + n ELSE rank[CHOOSE w \in old : TRUE]
      BY <1>4, <2>1 DEF CreateOk
    <3> HIDE DEF n, old
    <3> QED BY <3>1, <3>2, <3>3, <3>4
  <2>4. \A v \in old : pool[v] = p /\ rank[v] > 0 /\ v \in Request
    BY DEF Slot, Listed
  <2>5. \A v \in Request : phase[v] = "live" => locals[v] # {}
    BY <1>4 DEF CreateOk, Idle, NoIdleFollow, Wanted
  <2>6. \A v \in Request : rank[v] > 0 => phase[v] = "live"
    BY DEF Inv, SlotsSound
  <2> HIDE DEF u, p, old
  <2> SUFFICES ASSUME NEW q \in Request, least'[q] # None PROVE FitsAfter(q, least'[q])
    BY DEF LeastSound, Fits, FitsAfter
  <2>7. CASE least'[q] = u /\ q = p
    BY <1>1, <2>1, <2>2, <2>3, <2>7 DEF FitsAfter, TypeOK
  <2>8. CASE least'[q] = least[q] /\ (q = p => locals[least[p]] = {})
    <3>1. Fits(q, least[q]) /\ least[q] \in Request
      BY <1>1, <2>8 DEF LeastSound, TypeOK, MaybeRequest
    <3>2. least[q] # u /\ (least[q] \notin old \/ least[q] \in purged)
      BY <2>1, <2>4, <2>5, <2>6, <2>8, <3>1 DEF Fits
    <3>3. rank'[least[q]] = (IF least[q] \in old THEN 0 ELSE rank[least[q]])
      BY <2>2, <3>1, <3>2
    <3> QED BY <1>1, <2>2, <2>8, <3>1, <3>2, <3>3 DEF Fits, FitsAfter, TypeOK
  <2>9. (least'[q] = u /\ q = p) \/ (least'[q] = least[q] /\ (q = p => locals[least[p]] = {}))
    BY <1>1, <2>1, <2>2 DEF TypeOK
  <2> QED BY <2>7, <2>8, <2>9
<1>5. ASSUME NEW c \in Client, NEW u \in Request, Subscribe(c, u) PROVE LeastSound'
  <2>1. UNCHANGED <<pool, rank, phase, purged>> /\ least' = LeastAfter({pool[u]})
    BY <1>5 DEF Subscribe, node
  <2>2. \A p : Listed(p)' = Listed(p)
    BY <2>1 DEF Listed
  <2>3. \A p \in Request : least'[p] # None => least'[p] \in Listed(p) \cup {least[p]}
    BY <2>1, <2>2, LeastTouched
  <2> QED BY <2>1, <2>3 DEF LeastSound, Fits, Listed, Inv, SlotsSound
<1>6. CASE UNCHANGED <<least, pool, rank, phase, purged>>
  BY <1>6 DEF LeastSound, Fits
<1>7. \/ Departure \/ CreateOk \/ (\E c \in Client, u \in Request : Subscribe(c, u))
      \/ UNCHANGED <<least, pool, rank, phase, purged>>
  BY DEF Next, TaskStep, Answer, Departure, StartFollow, JoinFollow, CreateLimit, CreateFail,
         CreateLate, Assign, FlushDone, Flush, SubscribeTwice, Reconnect, vars, pools, subs,
         node
<1> QED BY <1>3, <1>4, <1>5, <1>6, <1>7

\* One step of HandsOutLive.
HandStep ==
  \A u \in HandedOut \cup ({flight'.selected} \ {None}) :
    \/ u \in alive' /\ phase'[u] = "live"
    \/ u = flight.selected \/ u \in purged

LEMMA HandStepHolds ==
  ASSUME Inv, Fresh, LeastSound, GroupServed, [Next]_vars PROVE HandStep
<1>1. TypeOK /\ None \notin Request
  BY FollowAssumption DEF Inv
<1>2. ASSUME NEW r \in Request, StartFollow(r) PROVE HandStep
  <2> DEFINE p == PoolFor(r)
  <2>1. /\ UNCHANGED <<alive, phase>> /\ status[r] = "new" /\ grants = <<>>
        /\ \/ /\ grants' = <<<<r, Reuse(p)>>>> /\ Reuse(p) # None
              /\ UNCHANGED flight
           \/ UNCHANGED grants /\ flight'.selected = least[p]
    BY <1>2 DEF StartFollow, subs, node, Idle
  <2>2. Reuse(p) \in {None, least[p]}
    BY DEF Reuse
  <2>3. p \in Request /\ (p = group \/ (group = None /\ p = r))
    BY <1>1 DEF PoolFor, TypeOK, MaybeRequest
  <2> HIDE DEF p
  <2>4. ASSUME least[p] # None PROVE (least[p] \in alive /\ phase[least[p]] = "live")
                                     \/ least[p] \in purged
    <3>1. Fits(p, least[p]) /\ least[p] \in Request
      BY <1>1, <2>3, <2>4 DEF LeastSound, TypeOK, MaybeRequest
    <3>2. CASE rank[least[p]] > 0
      <4>1. p = group /\ group # None
        BY <1>1, <2>1, <2>3, <3>1 DEF Fresh, Fits
      <4> QED BY <3>1, <3>2, <4>1 DEF GroupServed, Listed, Fits, Inv, SlotsSound
    <3> QED BY <3>1, <3>2 DEF Fits
  <2>5. \A u \in HandedOut \cup ({flight'.selected} \ {None}) :
          u # flight.selected => u = least[p] /\ u # None
    <3>1. CASE grants' = <<<<r, Reuse(p)>>>> /\ Reuse(p) # None /\ UNCHANGED flight
      <4>1. \A u \in HandedOut : u = Reuse(p)
        BY <3>1 DEF HandedOut
      <4> QED BY <2>2, <3>1, <4>1
    <3>2. CASE UNCHANGED grants /\ flight'.selected = least[p]
      <4>1. HandedOut = {}
        BY <2>1, <3>2 DEF HandedOut
      <4> QED BY <3>2, <4>1
    <3> QED BY <2>1, <3>1, <3>2
  <2> QED BY <2>1, <2>4, <2>5 DEF HandStep
<1>3. CASE CreateOk
  <2>1. /\ alive' = alive \cup {flight.creator} /\ flight.creator \in Request
        /\ phase' = [phase EXCEPT ![flight.creator] = "live"]
        /\ flight'.selected = None /\ HandOut(flight.creator)
    BY <1>1, <1>3 DEF CreateOk, NoFlight, TypeOK, Flight, MaybeRequest
  <2>2. \A u \in HandedOut : u = flight.creator
    BY <2>1 DEF HandedOut, HandOut
  <2> QED BY <1>1, <2>1, <2>2 DEF HandStep, TypeOK
<1>4. CASE CreateLimit
  <2>1. flight'.selected = None
    BY <1>4 DEF CreateLimit, NoFlight
  <2>2. \A u \in HandedOut : u = flight.selected
    BY <1>4 DEF CreateLimit, HandedOut, HandOut, Idle
  <2> QED BY <2>1, <2>2 DEF HandStep
<1>5. CASE CreateFail \/ CreateLate
  <2>1. flight'.selected = None /\ HandedOut = {}
    BY <1>5 DEF CreateFail, CreateLate, NoFlight, queue, HandedOut, Idle
  <2> QED BY <2>1 DEF HandStep
<1>6. CASE Assign
  <2>1. HandedOut = {} /\ UNCHANGED flight
    BY <1>6 DEF Assign, HandedOut
  <2> QED BY <2>1 DEF HandStep
<1>7. CASE UNCHANGED grants /\ flight'.selected = flight.selected
  <2>1. HandedOut = {}
    BY <1>7 DEF HandedOut
  <2> QED BY <1>7, <2>1 DEF HandStep
<1>8. Departure => UNCHANGED grants /\ flight'.selected = flight.selected
  BY Departing DEF Departs
<1>9. ASSUME NEW r \in Request, JoinFollow(r)
      PROVE  UNCHANGED grants /\ flight'.selected = flight.selected
  BY <1>1, <1>9 DEF JoinFollow, queue, TypeOK, Flight
<1>10. FlushDone \/ Flush \/ Reconnect \/ UNCHANGED vars
       \/ (\E c \in Client, u \in Request : Subscribe(c, u) \/ SubscribeTwice(c, u))
       => UNCHANGED <<grants, flight>>
  BY DEF FlushDone, Flush, Reconnect, Subscribe, SubscribeTwice, vars, queue
<1> QED BY <1>2, <1>3, <1>4, <1>5, <1>6, <1>7, <1>8, <1>9, <1>10
        DEF Next, TaskStep, Answer, Departure

\* What a request is handed, and what it keeps as its fallback, is served by the node when
\* it is handed out; only a fallback that has gone while the node was asked, and a follow
\* that lost its last client while the load was computed, are not.
THEOREM HandsOutLiveHolds == Spec => HandsOutLive
<1>1. Init => Fresh /\ LeastSound /\ GroupServed
  BY FollowAssumption DEF Init, Fresh, LeastSound, GroupServed, NoFlight
<1>2. Inv /\ Inv' /\ NoIdleFollow /\ Fresh /\ LeastSound /\ GroupServed /\ [Next]_vars
        => Fresh' /\ LeastSound' /\ GroupServed'
  BY FreshNext, LeastNext, GroupServedNext
<1>3. Inv /\ Fresh /\ LeastSound /\ GroupServed /\ [Next]_vars => [HandStep]_vars
  BY HandStepHolds
<1>4. HandsOutLive <=> [][HandStep]_vars
  BY DEF HandsOutLive, HandStep
<1> QED BY <1>1, <1>2, <1>3, <1>4, Invariance, NoIdleFollowHolds, PTL DEF Spec

-----------------------------------------------------------------------------
(* The bound on the entries of a pool.  A key is the size of the pool when    *)
(* the node was asked: it fits if there was room, and when there was none the *)
(* request was handed leastLoaded, so a pool with entries must have one.      *)

KeyFits(k) == k < MaxFollows \/ k = 0
FiniteLocals == \A u \in Request : IsFiniteSet(locals[u])
KeysFit == \A u \in Request : rank[u] > 0 => KeyFits(key[u])
FlightFits == flight.creator # None => KeyFits(flight.key)
LeastKnown == \A p \in Request : Listed(p) # {} => least[p] # None
Bounded == FiniteLocals /\ KeysFit /\ FlightFits /\ LeastKnown

\* Some entry has the smallest load and the first place among those that have it.
LEMMA Lightest ==
  ASSUME NEW S, S # {}, NEW load \in [S -> Nat], NEW place \in [S -> Nat]
  PROVE  \E u \in S : \A v \in S :
           load[u] < load[v] \/ (load[u] = load[v] /\ place[u] <= place[v])
<1> DEFINE T == {load[u] : u \in S}
<1>1. PICK m \in T : \A n \in T : m <= n
  <2>1. T \in SUBSET Nat /\ T # {}
    OBVIOUS
  <2> HIDE DEF T
  <2> QED BY <2>1, LeastNumber
<1> DEFINE S1 == {u \in S : load[u] = m}
           T1 == {place[u] : u \in S1}
<1>2. PICK m1 \in T1 : \A n \in T1 : m1 <= n
  <2>1. T1 \in SUBSET Nat /\ T1 # {}
    OBVIOUS
  <2> HIDE DEF T1
  <2> QED BY <2>1, LeastNumber
<1>3. PICK u \in S1 : place[u] = m1
  BY <1>2
<1>4. ASSUME NEW v \in S
      PROVE  load[u] < load[v] \/ (load[u] = load[v] /\ place[u] <= place[v])
  <2>1. load[u] = m /\ m <= load[v] /\ load[v] \in Nat /\ m \in Nat
    BY <1>1, <1>3
  <2>2. load[v] = m => m1 <= place[v]
    BY <1>2
  <2>3. place[u] = m1
    BY <1>3
  <2> HIDE DEF T, S1, T1
  <2>4. CASE load[v] = m
    BY <2>1, <2>2, <2>3, <2>4
  <2>5. CASE load[v] # m
    BY <2>1, <2>5
  <2> QED BY <2>4, <2>5
<1> QED BY <1>3, <1>4

\* So leastLoaded of entries is one of them.
LEMMA LeastSome ==
  ASSUME TypeOK, FiniteLocals, NEW p, Listed(p) # {}
  PROVE  Least(p) # None
<1> DEFINE S == Listed(p)
           load == [u \in S |-> Cardinality(locals[u])]
           place == [u \in S |-> rank[u]]
<1>1. S \subseteq Request /\ load \in [S -> Nat] /\ place \in [S -> Nat]
  BY ListedType, FS_CardinalityType DEF TypeOK, FiniteLocals
<1>2. PICK u \in S : \A v \in S :
        load[u] < load[v] \/ (load[u] = load[v] /\ place[u] <= place[v])
  <2> HIDE DEF S, load, place
  <2> QED BY <1>1, Lightest DEF S
<1>3. \A v \in S : NoHeavier(u, v)
  BY <1>2 DEF NoHeavier
<1> HIDE DEF S
<1> QED BY <1>1, <1>3, FollowAssumption DEF Least, LeastLoaded, S

LEMMA LeastSomeNext ==
  ASSUME TypeOK', FiniteLocals', NEW p, Listed(p)' # {}
  PROVE  Least(p)' # None
<1> DEFINE S == Listed(p)'
           load == [u \in S |-> Cardinality(locals'[u])]
           place == [u \in S |-> rank'[u]]
<1>1. S \subseteq Request /\ load \in [S -> Nat] /\ place \in [S -> Nat]
  BY FS_CardinalityType DEF TypeOK, FiniteLocals, Listed
<1>2. PICK u \in S : \A v \in S :
        load[u] < load[v] \/ (load[u] = load[v] /\ place[u] <= place[v])
  <2> HIDE DEF S, load, place
  <2> QED BY <1>1, Lightest DEF S
<1>3. \A v \in S : NoHeavier(u, v)'
  BY <1>2 DEF NoHeavier
<1> HIDE DEF S
<1> QED BY <1>1, <1>3, FollowAssumption DEF Least, LeastLoaded, S

\* A step that only takes entries and subscribers away, and computes leastLoaded anew
\* where it does not forget it with the last entry.
LEMMA ShrinkBounded ==
  ASSUME TypeOK, TypeOK', Bounded, NEW left, NEW ended, NEW evicted,
         Discard(left, ended, evicted),
         \A u \in Request : left[u] \subseteq locals[u],
         flight'.creator = flight.creator /\ flight'.key = flight.key,
         \A p \in Request : \/ least'[p] \in {least[p], Least(p), Least(p)'}
                            \/ Listed(p)' = {}
  PROVE  Bounded'
<1>1. /\ \A u \in Request : locals'[u] \subseteq locals[u]
      /\ \A u \in Request : rank'[u] > 0 => rank'[u] = rank[u]
      /\ pool' = pool /\ key' = key
  BY DEF Discard
<1>2. FiniteLocals'
  BY <1>1, FS_Subset DEF Bounded, FiniteLocals
<1>3. KeysFit' /\ FlightFits'
  BY <1>1 DEF Bounded, KeysFit, FlightFits, KeyFits
<1>4. ASSUME NEW p \in Request, Listed(p)' # {} PROVE least'[p] # None
  <2>1. Listed(p) # {}
    BY <1>1, <1>4 DEF Listed
  <2> QED BY <1>2, <1>4, <2>1, LeastSome, LeastSomeNext DEF Bounded, LeastKnown
<1> QED BY <1>2, <1>3, <1>4 DEF Bounded, LeastKnown

LEMMA LeaveBounded ==
  ASSUME TypeOK, TypeOK', Bounded, NEW L, Leave(L), UNCHANGED flight
  PROVE  Bounded'
<1>1. Discard(Left(L), Emptied(L), Evicted(Emptied(L)))
  BY DEF Leave
<1>2. \A u \in Request : Left(L)[u] \subseteq locals[u]
  BY DEF Left
<1>3. \A p \in Request : least'[p] \in {least[p], Least(p), Least(p)'}
  BY DEF Leave, LeastAfter
<1> QED BY <1>1, <1>2, <1>3, ShrinkBounded

LEMMA ReleaseBounded ==
  ASSUME TypeOK, TypeOK', Bounded, NEW q, NEW k, ReleaseSlot(q, k), UNCHANGED flight
  PROVE  Bounded'
<1>1. Discard(locals, {}, Slot(q, k))
  BY DEF ReleaseSlot
<1>2. \A p \in Request : least'[p] \in {least[p], Least(p), Least(p)'}
  BY DEF ReleaseSlot, LeastAfter
<1> QED BY <1>1, <1>2, ShrinkBounded

LEMMA ClosedBounded ==
  ASSUME TypeOK, TypeOK', Bounded, NEW c, NEW u \in Request, SubscribeClosed(c, u)
  PROVE  Bounded'
<1> DEFINE ended == Emptied({<<c, u>>})
<1>1. Discard(locals, ended, Evicted(ended)) /\ UNCHANGED flight
  BY DEF SubscribeClosed
<1>2. \A p \in Request : least'[p] \in {least[p], Least(p), Least(p)'}
  BY DEF SubscribeClosed, LeastAfter, TypeOK
<1> QED BY <1>1, <1>2, ShrinkBounded

\* The group that is aborted lists nothing afterwards.
LEMMA AbortBounded ==
  ASSUME TypeOK, TypeOK', Bounded, NEW L, NEW touched,
         LET ended == Emptied(L) \cup Aborted
         IN Discard(Left(L), ended, Evicted(ended)),
         least' = [p \in Request |-> IF p = group THEN None ELSE LeastAfter(touched)[p]],
         flight' = [flight EXCEPT !.lost = (flight.creator # None)]
  PROVE  Bounded'
<1> DEFINE ended == Emptied(L) \cup Aborted
<1>1. Discard(Left(L), ended, Evicted(ended))
  OBVIOUS
<1>2. \A u \in Request : Left(L)[u] \subseteq locals[u]
  BY DEF Left
<1>3. flight'.creator = flight.creator /\ flight'.key = flight.key
  BY DEF TypeOK, Flight
<1>4. ASSUME NEW p \in Request
      PROVE  least'[p] \in {least[p], Least(p), Least(p)'} \/ Listed(p)' = {}
  <2>1. CASE p # group
    BY <2>1 DEF LeastAfter
  <2>2. CASE p = group
    <3>1. Listed(p) \subseteq ended
      BY <2>2, FollowAssumption DEF Aborted
    <3>2. \A u \in Request : rank'[u] > 0 => u \notin ended /\ rank[u] > 0 /\ pool'[u] = pool[u]
      BY <1>1 DEF Discard
    <3> QED BY <3>1, <3>2 DEF Listed
  <2> QED BY <2>1, <2>2
<1> HIDE DEF ended
<1> QED BY <1>1, <1>2, <1>3, <1>4, ShrinkBounded

\* A request that asks the node found room, or no entry at all.
LEMMA StartBounded ==
  ASSUME TypeOK, Bounded, NEW r \in Request, StartFollow(r)
  PROVE  Bounded'
<1> DEFINE p == PoolFor(r)
<1>1. p \in Request
  BY DEF PoolFor, TypeOK, MaybeRequest
<1>2. UNCHANGED <<pool, key, rank, least, locals>>
  BY DEF StartFollow, subs
<1>3. FiniteLocals' /\ KeysFit' /\ LeastKnown'
  BY <1>2 DEF Bounded, FiniteLocals, KeysFit, LeastKnown, Listed
<1>4. CASE UNCHANGED flight
  BY <1>3, <1>4 DEF Bounded, FlightFits
<1>5. CASE Reuse(p) = None /\ flight'.key = Cardinality(Listed(p))
  <2>1. CASE least[p] = None
    <3>1. Listed(p) = {}
      BY <1>1, <2>1 DEF Bounded, LeastKnown
    <3> QED BY <1>3, <1>5, <3>1, FS_EmptySet DEF Bounded, FlightFits, KeyFits
  <2>2. CASE least[p] # None
    <3>1. ~ (Cardinality(Listed(p)) >= MaxFollows)
      BY <1>5, <2>2 DEF Reuse
    <3>2. Cardinality(Listed(p)) \in Nat /\ MaxFollows \in Nat
      BY SizeType, ListedType, FollowAssumption
    <3> QED BY <1>3, <1>5, <3>1, <3>2 DEF Bounded, FlightFits, KeyFits
  <2> QED BY <2>1, <2>2
<1> QED BY <1>4, <1>5 DEF StartFollow

\* The node's answer makes an entry of the flight.
LEMMA CreateBounded ==
  ASSUME TypeOK, Bounded, CreateOk
  PROVE  Bounded'
<1> DEFINE u == flight.creator
           p == flight.pool
           old == Slot(p, flight.key)
<1>1. /\ u \in Request /\ KeyFits(flight.key)
      /\ flight'.creator = None
      /\ locals' = locals
      /\ pool' = [pool EXCEPT ![u] = p] /\ key' = [key EXCEPT ![u] = flight.key]
      /\ least' = IF least[p] = None \/ locals[least[p]] # {}
                  THEN [least EXCEPT ![p] = u] ELSE least
  BY DEF CreateOk, TypeOK, Flight, MaybeRequest, NoFlight, Bounded, FlightFits
<1>2. \A v \in Request : v # u => rank'[v] \in {0, rank[v]}
  BY DEF CreateOk
<1>3. FiniteLocals' /\ FlightFits'
  BY <1>1 DEF Bounded, FiniteLocals, FlightFits
<1>4. KeysFit'
  <2>1. ASSUME NEW v \in Request, rank'[v] > 0 PROVE KeyFits(key'[v])
    <3>1. CASE v = u
      BY <1>1, <3>1 DEF TypeOK
    <3>2. CASE v # u
      <4>1. key'[v] = key[v]
        BY <1>1, <3>2 DEF TypeOK
      <4>2. rank[v] > 0
        BY <1>2, <2>1, <3>2
      <4>3. KeyFits(key[v])
        BY <4>2 DEF Bounded, KeysFit
      <4> QED BY <4>1, <4>3
    <3> QED BY <3>1, <3>2
  <2> QED BY <2>1 DEF KeysFit, KeyFits
<1>5. ASSUME NEW q \in Request, Listed(q)' # {} PROVE least'[q] # None
  <2>1. CASE q = p
    BY <1>1, <2>1, FollowAssumption DEF TypeOK
  <2>2. CASE q # p
    <3>1. least'[q] = least[q]
      BY <1>1, <2>2 DEF TypeOK
    <3>2. PICK v \in Request : rank'[v] > 0 /\ pool'[v] = q
      BY <1>5 DEF Listed
    <3>3. v # u
      BY <1>1, <2>2, <3>2 DEF TypeOK
    <3>4. v \in Listed(q)
      <4>1. pool'[v] = pool[v]
        BY <1>1, <3>3 DEF TypeOK
      <4>2. rank[v] > 0
        BY <1>2, <3>2, <3>3
      <4> QED BY <3>2, <4>1, <4>2 DEF Listed
    <3> QED BY <3>1, <3>4 DEF Bounded, LeastKnown
  <2> QED BY <2>1, <2>2
<1> QED BY <1>3, <1>4, <1>5 DEF Bounded, LeastKnown

LEMMA SubscribeBounded ==
  ASSUME TypeOK, TypeOK', Bounded, NEW c \in Client, NEW u \in Request, Subscribe(c, u)
  PROVE  Bounded'
<1>1. /\ UNCHANGED <<pool, key, rank, flight>>
      /\ locals' = [locals EXCEPT ![u] = @ \cup {c}]
      /\ least' = LeastAfter({pool[u]})
  BY DEF Subscribe
<1>2. FiniteLocals'
  <2>1. \A v \in Request : locals'[v] \in {locals[v], locals[v] \cup {c}}
    BY <1>1 DEF TypeOK
  <2>2. ASSUME NEW v \in Request PROVE IsFiniteSet(locals'[v])
    <3>1. IsFiniteSet(locals[v])
      BY DEF Bounded, FiniteLocals
    <3>2. IsFiniteSet(locals[v] \cup {c})
      BY <3>1, FS_AddElement
    <3> QED BY <2>1, <3>1, <3>2
  <2> QED BY <2>2 DEF FiniteLocals
<1>3. KeysFit' /\ FlightFits'
  BY <1>1 DEF Bounded, KeysFit, FlightFits
<1>4. ASSUME NEW p \in Request, Listed(p)' # {} PROVE least'[p] # None
  <2>1. least'[p] \in {least[p], Least(p)'} /\ Listed(p) # {}
    BY <1>1, <1>4 DEF LeastAfter, Listed
  <2> QED BY <1>2, <1>4, <2>1, LeastSomeNext DEF Bounded, LeastKnown
<1> QED BY <1>2, <1>3, <1>4 DEF Bounded, LeastKnown

\* Steps that leave the pools alone.
LEMMA SameBounded ==
  ASSUME Bounded, UNCHANGED <<locals, pool, key, rank, least>>,
         flight'.creator # None => flight.creator # None /\ flight'.key = flight.key
  PROVE  Bounded'
  BY DEF Bounded, FiniteLocals, KeysFit, FlightFits, LeastKnown, Listed

LEMMA InitBounded == Init => Bounded
<1> SUFFICES ASSUME Init PROVE Bounded
  OBVIOUS
<1>1. flight.creator = None
  BY DEF Init, NoFlight
<1>2. FiniteLocals
  BY FS_EmptySet DEF Init, FiniteLocals
<1> QED BY <1>1, <1>2 DEF Init, Bounded, KeysFit, FlightFits, LeastKnown, Listed

LEMMA NextBounded == Inv /\ Inv' /\ Bounded /\ [Next]_vars => Bounded'
<1> SUFFICES ASSUME Inv, Inv', Bounded, [Next]_vars PROVE Bounded'
  OBVIOUS
<1>1. TypeOK /\ TypeOK'
  BY DEF Inv
<1>2. ASSUME NEW r \in Request, StartFollow(r) \/ JoinFollow(r) PROVE Bounded'
  <2>1. CASE JoinFollow(r)
    <3>1. flight'.creator = flight.creator /\ flight'.key = flight.key
      BY <1>1, <2>1 DEF JoinFollow, TypeOK, Flight
    <3> QED BY <2>1, <3>1, SameBounded DEF JoinFollow, subs
  <2> QED BY <1>1, <1>2, <2>1, StartBounded
<1>3. CASE CreateOk
  BY <1>1, <1>3, CreateBounded
<1>4. CASE CreateLimit \/ CreateFail \/ CreateLate
  <2>1. flight'.creator = None
    BY <1>4 DEF CreateLimit, CreateFail, CreateLate, NoFlight
  <2>2. UNCHANGED <<locals, pool, key, rank, least>>
    BY <1>4 DEF CreateLimit, CreateFail, CreateLate, pools, subs
  <2> QED BY <2>1, <2>2, SameBounded
<1>5. CASE Assign \/ FlushDone \/ Flush \/ Reconnect \/ UNCHANGED vars
  <2>1. UNCHANGED <<locals, pool, key, rank, least, flight>>
    BY <1>5 DEF Assign, FlushDone, Flush, Reconnect, vars, pools, subs
  <2> QED BY <2>1, SameBounded
<1>6. ASSUME NEW c \in Client, NEW u \in Request,
             Subscribe(c, u) \/ SubscribeTwice(c, u) \/ SubscribeClosed(c, u)
      PROVE  Bounded'
  <2>1. CASE SubscribeTwice(c, u)
    <3>1. UNCHANGED <<locals, pool, key, rank, least, flight>>
      BY <2>1 DEF SubscribeTwice, pools, subs
    <3> QED BY <3>1, SameBounded
  <2> QED BY <1>1, <1>6, <2>1, SubscribeBounded, ClosedBounded
<1>7. ASSUME NEW c \in Client, Close(c) \/ \E u \in Request : Unfollow(c, u) PROVE Bounded'
  BY <1>1, <1>7, LeaveBounded DEF Close, Unfollow
<1>8. ASSUME NEW u \in Request, UnfollowSettled(u) \/ \E b \in BOOLEAN : StreamEnds(u, b)
      PROVE  Bounded'
  BY <1>1, <1>8, ReleaseBounded DEF UnfollowSettled, StreamEnds
<1>9. CASE Disconnect
  BY <1>1, <1>9, AbortBounded DEF Disconnect
<1>10. CASE ServerStop
  BY <1>1, <1>10, AbortBounded DEF ServerStop
<1> QED BY <1>2, <1>3, <1>4, <1>5, <1>6, <1>7, <1>8, <1>9, <1>10 DEF Next, TaskStep, Answer

\* Different entries have different keys, and all of them fit.
LEMMA BoundedFits ==
  ASSUME Inv, Bounded, MaxFollows # 0
  PROVE  PoolBound
<1> SUFFICES ASSUME NEW p \in Request PROVE Cardinality(Listed(p)) <= MaxFollows
  BY DEF PoolBound
<1> DEFINE S == Listed(p)
           T == 0..(MaxFollows - 1)
           f == [u \in S |-> key[u]]
<1>1. MaxFollows \in Nat
  BY FollowAssumption
<1>2. IsFiniteSet(T) /\ Cardinality(T) = MaxFollows
  <2>1. 0 \in Int /\ MaxFollows - 1 \in Int
    BY <1>1
  <2>2. IsFiniteSet(T) /\ Cardinality(T) = IF 0 > MaxFollows - 1 THEN 0 ELSE (MaxFollows - 1) - 0 + 1
    BY <2>1, FS_Interval
  <2> QED BY <1>1, <2>2
<1>3. \A u \in S : u \in Request /\ rank[u] > 0 /\ pool[u] = p /\ key[u] \in T
  <2>1. ASSUME NEW u \in S PROVE u \in Request /\ rank[u] > 0 /\ pool[u] = p /\ key[u] \in T
    <3>1. u \in Request /\ rank[u] > 0 /\ pool[u] = p
      BY DEF Listed
    <3>2. key[u] \in Nat /\ (key[u] < MaxFollows \/ key[u] = 0)
      BY <3>1 DEF Inv, TypeOK, Bounded, KeysFit, KeyFits
    <3> QED BY <1>1, <3>1, <3>2
  <2> QED BY <2>1
<1>4. \A u, v \in S : key[u] = key[v] => u = v
  BY <1>3 DEF Inv, SlotsSound, Slot
<1>5. f \in Injection(S, T)
  BY <1>3, <1>4 DEF Injection, IsInjective
<1> HIDE DEF S, T, f
<1>6. Cardinality(S) <= Cardinality(T)
  BY <1>2, <1>5, FS_Injection
<1> QED BY <1>2, <1>6 DEF S

\* max_subscribers bounds the entries of every pool, though a creation takes its key long
\* before it adds its entry.  With max_subscribers 0 a pool still gets one entry.
THEOREM PoolBoundHolds == ASSUME MaxFollows # 0 PROVE Spec => []PoolBound
<1>1. Inv /\ Bounded => PoolBound
  BY BoundedFits
<1> QED BY <1>1, InitBounded, NextBounded, Invariance, PTL DEF Spec

-----------------------------------------------------------------------------
(* The single-flight creator: util/concurrent-creator.ts.                      *)

\* Waiters are invocations, so there are finitely many of them.
LEMMA WaitersFinite == \A g : IsFiniteSet(WaitersOn(g))
  BY FS_Subset, CreatorAssumption DEF WaitersOn

\* The invariant holds initially.
LEMMA CreatorInitInv == ASSUME CreatorInit PROVE CreatorInv
<1> USE CreatorAssumption DEF CreatorInit
<1>1. CreatorTypeOK
  BY DEF CreatorTypeOK, Outcome, Returned
<1>2. SingleFlight
  BY DEF SingleFlight
<1>3. WaitingIsExact
  <2>1. \A g \in Call : WaitersOn(g) = {}
    BY DEF WaitersOn
  <2> QED BY <2>1, FS_EmptySet DEF WaitingIsExact
<1>4. WaitersBounded /\ Started
  BY DEF WaitersBounded, Started
<1> QED BY <1>1, <1>2, <1>3, <1>4 DEF CreatorInv

\* One more waiter on a promise, or one less, changes its count by one.
LEMMA WaitersGrow ==
  ASSUME NEW g, NEW c \in Call, c \notin WaitersOn(g),
         WaitersOn(g)' = WaitersOn(g) \cup {c}
  PROVE  Cardinality(WaitersOn(g)') = Cardinality(WaitersOn(g)) + 1
  BY WaitersFinite, FS_AddElement
LEMMA WaitersShrink ==
  ASSUME NEW g, NEW c \in WaitersOn(g),
         WaitersOn(g)' = WaitersOn(g) \ {c}
  PROVE  /\ Cardinality(WaitersOn(g)') = Cardinality(WaitersOn(g)) - 1
         /\ Cardinality(WaitersOn(g)) > 0
<1>1. IsFiniteSet(WaitersOn(g))
  BY WaitersFinite
<1>2. Cardinality(WaitersOn(g)) # 0
  BY <1>1, FS_EmptySet
<1>3. Cardinality(WaitersOn(g)) \in Nat
  BY <1>1, FS_CardinalityType
<1> QED BY <1>1, <1>2, <1>3, FS_RemoveElement

\* Starting a flight.
LEMMA CreateInv ==
  ASSUME CreatorInv, NEW c \in Call, NEW k \in Key,
         Create(c, k)
  PROVE  CreatorInv'
<1> USE CreatorAssumption DEF CreatorInv, Create
<1>1. CreatorTypeOK'
  BY DEF CreatorTypeOK, Outcome, Returned
<1>2. SingleFlight'
  BY DEF CreatorTypeOK, SingleFlight, Started
<1>3. \A g \in Call : WaitersOn(g)' = WaitersOn(g)
  BY DEF CreatorTypeOK, WaitersOn
<1>4. WaitingIsExact' /\ WaitersBounded'
  BY <1>3 DEF WaitingIsExact, WaitersBounded
<1>5. Started'
  BY DEF CreatorTypeOK, Started
<1> QED BY <1>1, <1>2, <1>4, <1>5

\* Waiting on a flight.
LEMMA JoinInv ==
  ASSUME CreatorInv, NEW c \in Call, NEW k \in Key,
         Join(c, k)
  PROVE  CreatorInv'
<1> USE CreatorAssumption DEF CreatorInv, Join
<1> DEFINE g == creating[k]
<1>1. g \in Call /\ waiting[g] \in Nat /\ promise[g] = "pending"
  BY DEF CreatorTypeOK, SingleFlight
<1>2. CreatorTypeOK'
  BY <1>1 DEF CreatorTypeOK, Outcome, Returned
<1>3. SingleFlight'
  BY DEF SingleFlight
<1>4. /\ c \notin WaitersOn(g)
      /\ WaitersOn(g)' = WaitersOn(g) \cup {c}
      /\ \A h \in Call \ {g} : WaitersOn(h)' = WaitersOn(h)
  BY <1>1 DEF CreatorTypeOK, WaitersOn
<1>5. WaitingIsExact'
  BY <1>1, <1>4, WaitersGrow DEF CreatorTypeOK, WaitingIsExact
<1>6. WaitersBounded'
  BY <1>1 DEF CreatorTypeOK, WaitersBounded
<1>7. Started'
  BY <1>1 DEF CreatorTypeOK, Started
<1> QED BY <1>2, <1>3, <1>5, <1>6, <1>7

\* Being refused, and resuming as the creator: only `pc` changes, of a non-waiter.
LEMMA PcInv ==
  ASSUME CreatorInv, NEW c \in Call,
         NEW v \in Returned, pc[c] \in {"idle", "creator"},
         pc' = [pc EXCEPT ![c] = v], UNCHANGED <<creating, waiting, promise, awaits>>
  PROVE  CreatorInv'
<1> USE CreatorAssumption DEF CreatorInv
<1>1. v \notin {"idle", "creator", "waiter"}
  BY DEF Returned, Outcome
<1>2. CreatorTypeOK'
  BY DEF CreatorTypeOK
<1>3. SingleFlight' /\ WaitersBounded'
  BY DEF SingleFlight, WaitersBounded
<1>4. \A g \in Call : WaitersOn(g)' = WaitersOn(g)
  BY <1>1 DEF CreatorTypeOK, WaitersOn
<1>5. WaitingIsExact'
  BY <1>4 DEF WaitingIsExact
<1>6. Started'
  BY <1>1 DEF CreatorTypeOK, Started
<1> QED BY <1>2, <1>3, <1>5, <1>6

\* A flight ends and leaves the map.
LEMMA SettleInv ==
  ASSUME CreatorInv, NEW c \in Call, NEW k \in Key,
         NEW o \in Outcome, Settle(c, k, o)
  PROVE  CreatorInv'
<1> USE CreatorAssumption DEF CreatorInv, Settle
<1>1. o \notin {"none", "pending"}
  BY DEF Outcome
<1>2. CreatorTypeOK'
  BY DEF CreatorTypeOK
<1>3. SingleFlight'
  BY <1>1 DEF CreatorTypeOK, SingleFlight
<1>4. \A g \in Call : WaitersOn(g)' = WaitersOn(g)
  BY DEF CreatorTypeOK, WaitersOn
<1>5. WaitingIsExact' /\ WaitersBounded'
  BY <1>4 DEF WaitingIsExact, WaitersBounded
<1>6. Started'
  BY DEF CreatorTypeOK, Started
<1> QED BY <1>2, <1>3, <1>5, <1>6

\* A waiter resumes.
LEMMA WaiterReturnsInv ==
  ASSUME CreatorInv, NEW c \in Call, WaiterReturns(c)
  PROVE  CreatorInv'
<1> USE CreatorAssumption DEF CreatorInv, WaiterReturns
<1> DEFINE g == awaits[c]
<1>1. g \in Call /\ c \in WaitersOn(g)
  BY DEF Started, WaitersOn
<1>2. promise[g] \notin {"idle", "creator", "waiter"}
  BY DEF Outcome
<1>3. /\ WaitersOn(g)' = WaitersOn(g) \ {c}
      /\ \A h \in Call \ {g} : WaitersOn(h)' = WaitersOn(h)
  BY <1>1, <1>2 DEF CreatorTypeOK, WaitersOn
<1>4. /\ waiting[g] = Cardinality(WaitersOn(g)) /\ waiting[g] > 0
      /\ Cardinality(WaitersOn(g)') = waiting[g] - 1
  BY <1>1, <1>3, WaitersShrink DEF WaitingIsExact
<1>5. CreatorTypeOK'
  BY <1>1, <1>4 DEF CreatorTypeOK, Returned
<1>6. SingleFlight'
  BY DEF SingleFlight
<1>7. WaitingIsExact'
  BY <1>1, <1>3, <1>4 DEF CreatorTypeOK, WaitingIsExact
<1>8. WaitersBounded'
  BY <1>1, <1>4 DEF CreatorTypeOK, WaitersBounded
<1>9. Started'
  BY <1>1, <1>2, <1>4 DEF CreatorTypeOK, Started
<1> QED BY <1>5, <1>6, <1>7, <1>8, <1>9

\* Every step keeps the invariant.
LEMMA CreatorNextInv ==
  ASSUME CreatorInv, [CreatorNext]_creatorVars
  PROVE  CreatorInv'
<1>1. ASSUME NEW c \in Call, NEW k \in Key, CallStep(c, k) PROVE CreatorInv'
  <2>1. CASE Create(c, k)
    BY <2>1, CreateInv
  <2>2. CASE Join(c, k)
    BY <2>2, JoinInv
  <2>3. CASE TooManyWaiters(c, k)
    BY <2>3, PcInv DEF TooManyWaiters, Returned
  <2> QED BY <1>1, <2>1, <2>2, <2>3 DEF CallStep
<1>2. ASSUME NEW c \in Call, SettleStep(c) PROVE CreatorInv'
  BY <1>2, SettleInv DEF SettleStep
<1>3. ASSUME NEW c \in Call, ReturnStep(c) PROVE CreatorInv'
  <2>1. CASE CreatorReturns(c)
    BY <2>1, PcInv DEF CreatorReturns, Returned
  <2> QED BY <1>3, <2>1, WaiterReturnsInv DEF ReturnStep
<1>4. CASE UNCHANGED creatorVars
  <2>1. \A g \in Call : WaitersOn(g)' = WaitersOn(g)
    BY <1>4 DEF creatorVars, WaitersOn
  <2> QED BY <1>4, <2>1 DEF creatorVars, CreatorInv, CreatorTypeOK,
                 SingleFlight, WaitingIsExact,
                 WaitersBounded, Started
<1> QED BY <1>1, <1>2, <1>3, <1>4 DEF CreatorNext

\* The inductive invariant holds in every reachable state of getOrCreate.
THEOREM CreatorInvariance == CreatorSpec => []CreatorInv
<1>1. CreatorInit => CreatorInv
  BY CreatorInitInv
<1>2. CreatorInv /\ [CreatorNext]_creatorVars => CreatorInv'
  BY CreatorNextInv
<1> QED BY <1>1, <1>2, PTL DEF CreatorSpec

\* getOrCreate keeps its map, its counters and its promises well formed; in
\* particular `waiting` is never negative.
THEOREM CreatorTypeCorrect == CreatorSpec => []CreatorTypeOK
  BY CreatorInvariance, PTL DEF CreatorInv

\* At most one createFn runs for a key, and the entry a finally block deletes is
\* its own; the waiting field is the number of waiters, and maxWaiting bounds it.
THEOREM FlightsSoundHolds == CreatorSpec => []FlightsSound
<1>1. CreatorInv => FlightsSound
  BY DEF CreatorInv, FlightsSound
<1> QED BY <1>1, CreatorInvariance, PTL

-----------------------------------------------------------------------------
(* The creator implements CreateOnce.                                         *)

\* A creator awaits its own promise, and nobody awaits one that was never made.
CreatorsWait ==
  /\ \A c \in Call : pc[c] = "creator" => awaits[c] = c
  /\ \A c \in Call : pc[c] \in {"creator", "waiter"} => promise[awaits[c]] # "none"
  /\ \A g \in Call : promise[g] = "pending" => pc[g] = "creator"

LEMMA CreatorsWaitNext ==
  ASSUME CreatorInv, CreatorsWait, [CreatorNext]_creatorVars PROVE CreatorsWait'
<1> USE DEF CreatorInv, CreatorTypeOK, Outcome
<1>1. ASSUME NEW c \in Call, NEW k \in Key, Create(c, k) PROVE CreatorsWait'
  BY <1>1, CreatorAssumption DEF Create, CreatorsWait, Started
<1>2. ASSUME NEW c \in Call, NEW k \in Key, Join(c, k) PROVE CreatorsWait'
  <2>1. creating[k] \in Call /\ promise[creating[k]] = "pending"
    BY <1>2 DEF Join, SingleFlight
  <2> QED BY <1>2, <2>1 DEF Join, CreatorsWait
<1>3. ASSUME NEW c \in Call, NEW k \in Key, TooManyWaiters(c, k) PROVE CreatorsWait'
  BY <1>3 DEF TooManyWaiters, CreatorsWait
<1>4. ASSUME NEW c \in Call, NEW k \in Key, NEW o \in Outcome, Settle(c, k, o)
      PROVE  CreatorsWait'
  BY <1>4 DEF Settle, CreatorsWait, Started
<1>5. ASSUME NEW c \in Call, CreatorReturns(c) PROVE CreatorsWait'
  BY <1>5 DEF CreatorReturns, CreatorsWait
<1>6. ASSUME NEW c \in Call, WaiterReturns(c) PROVE CreatorsWait'
  BY <1>6 DEF WaiterReturns, CreatorsWait
<1>7. CASE UNCHANGED creatorVars
  BY <1>7 DEF creatorVars, CreatorsWait
<1> QED BY <1>1, <1>2, <1>3, <1>4, <1>5, <1>6, <1>7
        DEF CreatorNext, CallStep, SettleStep, ReturnStep

\* A pending flight is shared by its creator and by those who wait on it.
LEMMA PendingSize ==
  ASSUME CreatorInv, CreatorsWait, NEW g \in Call, promise[g] = "pending"
  PROVE  /\ Pending(g) = WaitersOn(g) \cup {g} /\ g \in Pending(g)
         /\ Cardinality(Pending(g)) = waiting[g] + 1
<1>1. pc[g] = "creator" /\ awaits[g] = g
  BY DEF CreatorsWait
<1>2. Pending(g) = WaitersOn(g) \cup {g} /\ g \notin WaitersOn(g)
  BY <1>1 DEF Pending, WaitersOn, CreatorsWait
<1>3. Cardinality(WaitersOn(g)) = waiting[g]
  BY DEF CreatorInv, WaitingIsExact
<1> QED BY <1>2, <1>3, WaitersFinite, FS_AddElement

\* CreateOnce counts as this module does.
LEMMA SameCount == \A S : Once!Cardinality(S) = Cardinality(S)
  BY DEF Once!Cardinality, Cardinality

\* Every turn of getOrCreate is a step of CreateOnce, or none when a call only resumes.
LEMMA CreatorRefines ==
  ASSUME CreatorInv, CreatorsWait, [CreatorNext]_creatorVars
  PROVE  [Once!Next]_<<Seen, Sharing>>
<1> USE CreatorAssumption DEF CreatorInv, CreatorTypeOK, Outcome
<1>1. ASSUME NEW c \in Call, NEW k \in Key, Create(c, k) PROVE Once!Begin(c, k)
  <2>1. \A g \in Call : pc[c] = "idle" /\ Pending(g)' = IF g = c THEN {c} ELSE Pending(g)
    BY <1>1 DEF Create, Pending, Started, CreatorsWait
  <2>2. \A l \in Key : creating[l] # c
    BY <1>1 DEF Create, SingleFlight, Started
  <2>3. Sharing' = [Sharing EXCEPT ![k] = {c}] /\ Sharing[k] = {}
    BY <1>1, <2>1, <2>2 DEF Create, Sharing
  <2>4. Seen' = [Seen EXCEPT ![c] = "pending"] /\ Seen[c] = "none"
    <3>1. \A d \in Call \ {c} : pc[d] \in {"creator", "waiter"} => awaits[d] \in Call \ {c}
      BY <1>1 DEF Create, Started, CreatorsWait
    <3>2. pc'[c] = "creator" /\ awaits'[c] = c /\ promise'[c] = "pending"
      BY <1>1 DEF Create
    <3>3. \A d \in Call \ {c} :
            pc'[d] = pc[d] /\ awaits'[d] = awaits[d] /\ promise'[d] = promise[d]
      BY <1>1 DEF Create
    <3>4. pc[c] = "idle" /\ \A d \in Call : pc[d] \in {"idle", "creator", "waiter"} \cup Returned
      BY <1>1 DEF Create
    <3>5. Seen'[c] = "pending" /\ Seen[c] = "none"
      BY <3>2, <3>4 DEF Seen
    <3>6. \A d \in Call \ {c} : Seen'[d] = Seen[d]
      BY <3>1, <3>3, <3>4 DEF Seen, Returned
    <3>7. /\ DOMAIN Seen = Call /\ Seen = [d \in DOMAIN Seen |-> Seen[d]]
          /\ DOMAIN Seen' = Call /\ Seen' = [d \in DOMAIN Seen' |-> Seen'[d]]
      BY DEF Seen
    <3> QED BY <3>5, <3>6, <3>7
  <2> QED BY <2>3, <2>4 DEF Once!Begin
<1>2. ASSUME NEW c \in Call, NEW k \in Key, Join(c, k) PROVE Once!Join(c, k)
  <2>1. PICK g \in Call : g = creating[k]
    BY <1>2 DEF Join
  <2>2. promise[g] = "pending" /\ waiting[g] + 1 < MaxWaiters
    BY <1>2, <2>1 DEF Join, SingleFlight
  <2>3. \A h \in Call : Pending(h)' = IF h = g THEN Pending(g) \cup {c} ELSE Pending(h)
    BY <1>2, <2>1 DEF Join, Pending
  <2>4. \A l \in Key : creating[l] = g => l = k
    BY <2>1 DEF SingleFlight
  <2>5. Sharing[k] = Pending(g) /\ Sharing' = [Sharing EXCEPT ![k] = @ \cup {c}]
    BY <1>2, <2>1, <2>3, <2>4 DEF Join, Sharing
  <2>6. Seen' = [Seen EXCEPT ![c] = "pending"] /\ Seen[c] = "none"
    BY <1>2, <2>1, <2>2 DEF Join, Seen
  <2>7. Sharing[k] # {} /\ Once!Cardinality(Sharing[k]) < MaxWaiters
    BY <2>2, <2>5, PendingSize, SameCount
  <2> QED BY <2>5, <2>6, <2>7 DEF Once!Join
<1>3. ASSUME NEW c \in Call, NEW k \in Key, TooManyWaiters(c, k) PROVE Once!Refuse(c, k)
  <2>1. PICK g \in Call : g = creating[k]
    BY <1>3 DEF TooManyWaiters
  <2>2. promise[g] = "pending" /\ waiting[g] + 1 >= MaxWaiters
    BY <1>3, <2>1 DEF TooManyWaiters, SingleFlight
  <2>3. \A h \in Call : Pending(h)' = Pending(h)
    BY <1>3 DEF TooManyWaiters, Pending
  <2>4. Sharing' = Sharing /\ Sharing[k] = Pending(g)
    BY <1>3, <2>1, <2>3 DEF TooManyWaiters, Sharing
  <2>5. Seen' = [Seen EXCEPT ![c] = "error"] /\ Seen[c] = "none"
    BY <1>3 DEF TooManyWaiters, Seen
  <2>6. Sharing[k] # {} /\ Once!Cardinality(Sharing[k]) >= MaxWaiters
    BY <2>2, <2>4, PendingSize, SameCount
  <2> QED BY <2>4, <2>5, <2>6 DEF Once!Refuse
<1>4. ASSUME NEW c \in Call, NEW k \in Key, NEW o \in Outcome, Settle(c, k, o)
      PROVE  Once!Settle(k, o)
  <2>1. \A h \in Call : Pending(h)' = Pending(h)
    BY <1>4 DEF Settle, Pending
  <2>2. Sharing[k] = Pending(c) /\ Sharing' = [Sharing EXCEPT ![k] = {}]
    BY <1>4, <2>1 DEF Settle, Sharing
  <2>3. Seen' = [d \in Call |-> IF d \in Pending(c) THEN o ELSE Seen[d]]
    <3>1. \A d \in Call : pc[d] \in {"creator", "waiter"} => awaits[d] \in Call
      BY DEF Started, CreatorsWait
    <3>2. \A d \in Call : pc'[d] = pc[d] /\ awaits'[d] = awaits[d]
      BY <1>4 DEF Settle
    <3>3. \A d \in Call : promise'[d] = IF d = c THEN o ELSE promise[d]
      BY <1>4 DEF Settle
    <3>4. \A d \in Call : pc[d] \in {"idle", "creator", "waiter"} \cup Returned
      OBVIOUS
    <3> QED BY <3>1, <3>2, <3>3, <3>4 DEF Seen, Pending, Returned
  <2>4. c \in Pending(c)
    BY <1>4, PendingSize DEF Settle
  <2> QED BY <2>2, <2>3, <2>4 DEF Once!Settle
<1>5. ASSUME NEW c \in Call, NEW g \in Call, awaits[c] = g, promise[g] \in Outcome,
             pc[c] \in {"creator", "waiter"}, pc' = [pc EXCEPT ![c] = promise[g]],
             UNCHANGED <<creating, promise, awaits>>
      PROVE  UNCHANGED <<Seen, Sharing>>
  <2>1. \A h \in Call : promise[h] = "pending" => Pending(h)' = Pending(h)
    BY <1>5 DEF Pending
  <2>2. Sharing' = Sharing
    BY <1>5, <2>1 DEF Sharing, SingleFlight
  <2>3. Seen' = Seen
    BY <1>5 DEF Seen
  <2> QED BY <2>2, <2>3
<1>6. ASSUME NEW c \in Call, ReturnStep(c) PROVE UNCHANGED <<Seen, Sharing>>
  <2>1. CASE CreatorReturns(c)
    BY <1>5, <2>1 DEF CreatorReturns, CreatorsWait
  <2>2. CASE WaiterReturns(c)
    BY <1>5, <2>2 DEF WaiterReturns, Started
  <2> QED BY <1>6, <2>1, <2>2 DEF ReturnStep
<1>7. CASE UNCHANGED creatorVars
  BY <1>7 DEF creatorVars, Seen, Sharing, Pending
<1>8. CASE \E c \in Call, k \in Key : CallStep(c, k)
  BY <1>1, <1>2, <1>3, <1>8 DEF CallStep, Once!CallStep, Once!Next
<1>9. CASE \E c \in Call : SettleStep(c)
  BY <1>4, <1>9 DEF SettleStep, Once!SettleStep, Once!Next
<1> QED BY <1>6, <1>7, <1>8, <1>9 DEF CreatorNext

\* getOrCreate is CreateOnce to its callers: all who wait on a flight share its outcome from
\* the moment it settles, and one is turned away only from a flight that is full.
THEOREM CreatesOnceSafely == CreatorSpec => Once!Init /\ [][Once!Next]_<<Seen, Sharing>>
<1>1. CreatorInit => Once!Init /\ CreatorsWait
  BY CreatorAssumption DEF CreatorInit, Once!Init, Seen, Sharing, CreatorsWait
<1>2. CreatorInv /\ CreatorsWait /\ [CreatorNext]_creatorVars
        => CreatorsWait' /\ [Once!Next]_<<Seen, Sharing>>
  BY CreatorsWaitNext, CreatorRefines
<1> QED BY <1>1, <1>2, CreatorInvariance, PTL DEF CreatorSpec
===============================================================================
