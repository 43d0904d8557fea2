---------------------------- MODULE UpstreamServer ----------------------------
(***************************************************************************)
(* One upstream server of upstream/server.ts: the websocket to the node and  *)
(* its reconnect timer, the requests that wait for it or for an answer, and  *)
(* stop().                                                                  *)
(*                                                                         *)
(* One step is one event.  Resolvers of answered requests go through the     *)
(* micro-scheduler, which other parts of the program use too: a task of      *)
(* theirs that throws leaves ours in the ring.  Delays are in units of the   *)
(* retry delay.  What the unsubscribers and the subscription group do when   *)
(* the connection closes is in FollowLifecycle, the client counter in        *)
(* UpstreamPool.                                                            *)
(***************************************************************************)
EXTENDS Naturals, Sequences, FiniteSets

CONSTANTS Request,    \* calls of server.request
          RetryDelay, \* first reconnect delay
          MaxBackoff, \* MAX_BACKOFF_MS
          NoId

ASSUME ServerAssumption ==
  /\ IsFiniteSet(Request)
  /\ RetryDelay \in Nat \ {0} /\ MaxBackoff \in Nat /\ RetryDelay <= MaxBackoff
  /\ NoId \notin Nat

VARIABLES
  socket,    \* the websocket: none, connecting, open (then connection$ has it), closing
  stopped,   \* stop() was called
  timer,     \* reconnectTimer is armed
  delay,     \* the last delay it was armed with
  backoff,   \* currentBackoff
  nextId,    \* _nextId
  status,    \* how far each request got
  id,        \* the id it was sent with
  pending,   \* the requests with a resolver in `pending`
  atNode,    \* requests of this connection the node has yet to answer
  tasks,     \* resolvers in the micro-scheduler, each with the answer it got
  scheduled, \* rqScheduled
  answer     \* the request whose answer each request was resolved with

link == <<socket, stopped, timer, delay, backoff>>
calls == <<nextId, status, id, pending, atNode>>
ring == <<tasks, scheduled, answer>>
vars == <<link, calls, ring>>

Open == {"new", "waiting", "ready", "sent"}
Settled == {"ok", "timeout", "unconnected", "unready"}

TypeOK ==
  /\ socket \in {"none", "connecting", "open", "closing"}
  /\ stopped \in BOOLEAN /\ timer \in BOOLEAN
  /\ delay \in {0} \cup RetryDelay..MaxBackoff
  /\ backoff \in RetryDelay..MaxBackoff
  /\ nextId \in Nat
  /\ status \in [Request -> Open \cup Settled]
  /\ id \in [Request -> Nat \cup {NoId}]
  /\ pending \subseteq Request
  /\ atNode \subseteq Request
  /\ tasks \in Seq(Request \X Request)
  /\ scheduled \in BOOLEAN
  /\ answer \in [Request -> Request \cup {NoId}]

\* createNewConn calls connect() right away.
Init ==
  /\ socket = "connecting" /\ stopped = FALSE
  /\ timer = FALSE /\ delay = 0 /\ backoff = RetryDelay
  /\ nextId = 0
  /\ status = [r \in Request |-> "new"]
  /\ id = [r \in Request |-> NoId]
  /\ pending = {} /\ atNode = {}
  /\ tasks = <<>> /\ scheduled = FALSE
  /\ answer = [r \in Request |-> NoId]

\* The micro-scheduler runs before the next event.
Idle == ~scheduled

-----------------------------------------------------------------------------
\* connect(): the websocket opens, and everybody in waitForReady goes on.
OnOpen ==
  /\ Idle /\ socket = "connecting"
  /\ socket' = "open"
  /\ backoff' = RetryDelay
  /\ status' = [r \in Request |-> IF status[r] = "waiting" THEN "ready" ELSE status[r]]
  /\ UNCHANGED <<stopped, timer, delay, nextId, id, pending, atNode, ring>>

\* Bug: the reconnect is scheduled before cleanup(), which clears the timer.
OnClose_CleanupLast ==
  /\ Idle /\ socket # "none"
  /\ socket' = "none"
  /\ atNode' = {}
  /\ IF stopped THEN UNCHANGED <<timer, delay, pending>>
     ELSE /\ timer' = FALSE
          /\ delay' = backoff
          /\ pending' = {}
  /\ UNCHANGED <<stopped, backoff, nextId, status, id, ring>>

\* The websocket closes, or could not connect: cleanup() forgets the resolvers and
\* scheduleReconnect() arms the timer.  A stopped server does neither.
OnClose ==
  /\ Idle /\ socket # "none"
  /\ socket' = "none"
  /\ atNode' = {}
  /\ IF stopped THEN UNCHANGED <<timer, delay, pending>>
     ELSE /\ timer' = TRUE
          /\ delay' = backoff
          /\ pending' = {}
  /\ UNCHANGED <<stopped, backoff, nextId, status, id, ring>>

Doubled(b) == IF 2 * b > MaxBackoff THEN MaxBackoff ELSE 2 * b

\* The reconnect timer fires: connect(), then the next delay is doubled.
Reconnect ==
  /\ Idle /\ timer
  /\ timer' = FALSE
  /\ socket' = "connecting"
  /\ backoff' = Doubled(backoff)
  /\ UNCHANGED <<stopped, delay, calls, ring>>

\* Bug: cleanup() leaves the reconnect timer armed.
Stop_KeepsTimer ==
  /\ Idle /\ ~stopped
  /\ stopped' = TRUE
  /\ pending' = {}
  /\ socket' = IF socket = "open" THEN "closing" ELSE socket
  /\ UNCHANGED <<timer, delay, backoff, nextId, status, id, atNode, ring>>

\* stop(): a websocket that is still connecting is not known to connection$ and
\* therefore not closed.
Stop ==
  /\ Idle /\ ~stopped
  /\ stopped' = TRUE
  /\ timer' = FALSE
  /\ pending' = {}
  /\ socket' = IF socket = "open" THEN "closing" ELSE socket
  /\ UNCHANGED <<delay, backoff, nextId, status, id, atNode, ring>>

-----------------------------------------------------------------------------
\* waitForReady(): go on at once, or wait for the connection.
WaitForReady(r) ==
  /\ Idle /\ status[r] = "new"
  /\ status' = [status EXCEPT ![r] = IF socket = "open" THEN "ready" ELSE "waiting"]
  /\ UNCHANGED <<link, nextId, id, pending, atNode, ring>>

\* The connection did not open within connectionTimeout.
WaitExpires(r) ==
  /\ Idle /\ status[r] = "waiting"
  /\ status' = [status EXCEPT ![r] = "unready"]
  /\ UNCHANGED <<link, nextId, id, pending, atNode, ring>>

\* Bug: the id of a request that ended is given out again.
FreshId_Reused == Cardinality(pending)
FreshId == nextId

\* request(): sent when the connection is open, refused otherwise.  A handler may
\* call it well after it was ready, or (unfollow) without waiting.
Send(r) ==
  /\ Idle /\ status[r] \in {"new", "ready"}
  /\ nextId' = nextId + 1
  /\ IF socket = "open"
     THEN /\ status' = [status EXCEPT ![r] = "sent"]
          /\ id' = [id EXCEPT ![r] = FreshId]
          /\ pending' = {q \in pending : id[q] # FreshId} \cup {r}
          /\ atNode' = atNode \cup {r}
     ELSE /\ status' = [status EXCEPT ![r] = "unconnected"]
          /\ UNCHANGED <<id, pending, atNode>>
  /\ UNCHANGED <<link, ring>>

\* handleMessage(): the node's answer to r.  Its resolver is looked up by id, and
\* an answer nobody waits for is passed on as a notification.
HandleMessage(r) ==
  /\ Idle /\ r \in atNode
  /\ atNode' = atNode \ {r}
  /\ LET found == {q \in pending : id[q] = id[r]}
     IN /\ pending' = pending \ found
        /\ IF found = {} THEN UNCHANGED <<tasks, scheduled>>
           ELSE \E q \in found : /\ tasks' = Append(tasks, <<q, r>>)
                                 /\ scheduled' = TRUE
  /\ UNCHANGED <<link, nextId, status, id, answer>>

\* Bugs: the timeout leaves the resolver behind; cleanup() took it along.
Timeout_Keeps(r) ==
  /\ Idle /\ status[r] = "sent"
  /\ status' = [status EXCEPT ![r] = "timeout"]
  /\ UNCHANGED <<link, nextId, id, pending, atNode, ring>>
Timeout_PendingOnly(r) ==
  /\ Idle /\ status[r] = "sent" /\ r \in pending
  /\ pending' = pending \ {r}
  /\ status' = [status EXCEPT ![r] = "timeout"]
  /\ UNCHANGED <<link, nextId, id, atNode, ring>>

\* No answer within requestTimeout, or the connection that was to bring it is gone.
Timeout(r) ==
  /\ Idle /\ status[r] = "sent"
  /\ pending' = pending \ {r}
  /\ status' = [status EXCEPT ![r] = "timeout"]
  /\ UNCHANGED <<link, nextId, id, atNode, ring>>

-----------------------------------------------------------------------------
\* flushTaskQueue runs a resolver: it settles the request unless the timeout did.
Resolve ==
  /\ scheduled /\ tasks # <<>>
  /\ tasks' = Tail(tasks)
  /\ LET q == Head(tasks)[1]
     IN IF status[q] = "sent"
        THEN /\ status' = [status EXCEPT ![q] = "ok"]
             /\ answer' = [answer EXCEPT ![q] = Head(tasks)[2]]
        ELSE UNCHANGED <<status, answer>>
  /\ UNCHANGED <<link, nextId, id, pending, atNode, scheduled>>

\* The ring is empty, or a task of another user throws and the rest stays.
FlushEnds ==
  /\ scheduled
  /\ scheduled' = FALSE
  /\ UNCHANGED <<link, calls, tasks, answer>>

\* Another user of the micro-scheduler makes it flush what was left.
Flush ==
  /\ Idle /\ tasks # <<>>
  /\ scheduled' = TRUE
  /\ UNCHANGED <<link, calls, tasks, answer>>

CallStep(r) == \/ WaitForReady(r) \/ WaitExpires(r) \/ Send(r)
               \/ HandleMessage(r) \/ Timeout(r)
LinkStep == OnOpen \/ OnClose \/ Reconnect \/ Stop
\* A timer that is due, or a handler that was waiting for the connection.
GoesOn(r) == \/ Timeout(r) \/ WaitExpires(r)
             \/ status[r] = "ready" /\ Send(r)

Next == LinkStep \/ Resolve \/ FlushEnds \/ Flush \/ \E r \in Request : CallStep(r)

\* Timers fire, handlers go on, and the event loop drains its queues; nothing is
\* assumed of the node.  Strong fairness, because a flush of the micro-scheduler may
\* come before a timer that is due, but never puts it off for good.
Fairness ==
  /\ WF_vars(Reconnect) /\ WF_vars(Resolve \/ FlushEnds)
  /\ \A r \in Request : SF_vars(GoesOn(r))

Spec == Init /\ [][Next]_vars /\ Fairness

-----------------------------------------------------------------------------
\* An answer settles the request it was sent for, although answers come in any
\* order, late, and across reconnects.
AnswersMatch ==
  \A r \in Request : status[r] = "ok" => answer[r] = r

\* `pending` holds only requests still to be settled: no resolver outlives its
\* timeout or, while the server runs, its connection, and no two share an id.
PendingSound ==
  \A r \in pending : /\ status[r] = "sent"
                     /\ ~stopped => socket = "open"
                     /\ \A q \in pending : id[q] = id[r] => q = r

\* What a server keeps of its requests is right, however they end.
RequestsSound == TypeOK /\ PendingSound

\* A server that was not stopped has exactly one websocket or exactly one timer that
\* will make one: it never gives the node up and never dials it twice.
OneDialer == ~stopped => (timer <=> socket = "none")

\* Nothing brings a stopped server to dial again.
StoppedStaysQuiet ==
  [][stopped => ~timer' /\ (socket = "none" => socket' = "none")]_vars

\* While the node refuses, each wait is longer than the last, up to the maximum.
WaitsLonger ==
  [][socket = "connecting" /\ timer' => delay' > delay \/ delay' = MaxBackoff]_vars

\* The callers of a server see requests that end once, and always end.
Outcome ==
  [r \in Request |-> CASE status[r] = "new" -> "none"
                       [] status[r] \in {"waiting", "ready", "sent"} -> "asked"
                       [] status[r] = "ok" -> "ok"
                       [] OTHER -> "error"]
Replied == {r \in Request :
  \/ status[r] = "ok"
  \/ status[r] = "sent" /\ \E i \in 1..Len(tasks) : tasks[i][1] = r}
Abstract == INSTANCE RequestReply WITH outcome <- Outcome, replied <- Replied
ServesRequests == Abstract!Spec
=============================================================================
