------------------------- MODULE UpstreamServerProofs -------------------------
(* Safety of an upstream server, for any number of requests and any delays:   *)
(* answers go to their requests, one way to the node, growing delays, and     *)
(* every step is one of RequestReply or changes nothing its callers see.      *)
EXTENDS UpstreamServer, TLAPS

\* Ids are given out once: a request in `pending` or at the node has one of its own.
IdsFresh ==
  /\ \A r \in Request : id[r] # NoId => id[r] < nextId
  /\ \A q, r \in Request : id[q] = id[r] /\ id[q] # NoId => q = r
  /\ \A r \in pending \cup atNode : id[r] # NoId

\* A resolver in the ring has left `pending`, and carries the answer to its request,
\* which was sent and may have timed out.
TasksSound ==
  \A i \in 1..Len(tasks) : /\ tasks[i][1] = tasks[i][2]
                           /\ tasks[i][1] \notin pending
                           /\ status[tasks[i][1]] \in {"sent", "ok", "timeout"}

\* The reconnect timer is armed only when the server runs, with the current backoff,
\* which is longer than the delay before it by the time the node is dialled.
TimerSound ==
  /\ timer => ~stopped /\ delay = backoff
  /\ socket = "connecting" => backoff > delay \/ backoff = MaxBackoff

Inv == /\ TypeOK /\ IdsFresh /\ TasksSound /\ TimerSound
       /\ AnswersMatch /\ PendingSound /\ OneDialer

LEMMA InitInv == Init => Inv
<1> SUFFICES ASSUME Init PROVE Inv
  OBVIOUS
<1> USE ServerAssumption DEF Init
<1>1. TypeOK
  <2>1. /\ delay \in {0} \cup RetryDelay..MaxBackoff
        /\ backoff \in RetryDelay..MaxBackoff
    OBVIOUS
  <2>2. tasks \in Seq(Request \X Request)
    OBVIOUS
  <2> QED BY <2>1, <2>2 DEF TypeOK, Open, Settled
<1>2. IdsFresh /\ TasksSound /\ TimerSound
  BY DEF IdsFresh, TasksSound, TimerSound
<1>3. AnswersMatch /\ PendingSound /\ OneDialer
  BY DEF AnswersMatch, PendingSound, OneDialer
<1> QED BY <1>1, <1>2, <1>3 DEF Inv

\* The steps of the websocket and its timer.
LEMMA LinkInv ==
  ASSUME Inv, LinkStep
  PROVE  Inv'
<1> USE ServerAssumption DEF Inv
<1>1. CASE OnOpen
  <2> USE <1>1 DEF OnOpen, ring
  <2>1. TypeOK'
    BY DEF TypeOK, Open, Settled
  <2>2. IdsFresh' /\ TimerSound' /\ OneDialer'
    BY DEF TypeOK, IdsFresh, TimerSound, OneDialer
  <2>3. TasksSound'
    BY DEF TypeOK, TasksSound
  <2>4. AnswersMatch' /\ PendingSound'
    BY DEF TypeOK, AnswersMatch, PendingSound
  <2> QED BY <2>1, <2>2, <2>3, <2>4
<1>2. CASE OnClose
  <2> USE <1>2 DEF OnClose, ring
  <2>1. TypeOK'
    BY DEF TypeOK
  <2>2. IdsFresh' /\ TimerSound' /\ OneDialer'
    BY DEF TypeOK, IdsFresh, TimerSound, OneDialer
  <2>3. TasksSound'
    BY DEF TypeOK, TasksSound
  <2>4. AnswersMatch' /\ PendingSound'
    BY DEF TypeOK, AnswersMatch, PendingSound
  <2> QED BY <2>1, <2>2, <2>3, <2>4
<1>3. CASE Reconnect
  <2> USE <1>3 DEF Reconnect, calls, ring
  <2>1. /\ Doubled(backoff) \in RetryDelay..MaxBackoff
        /\ Doubled(backoff) > backoff \/ Doubled(backoff) = MaxBackoff
    BY DEF TypeOK, Doubled
  <2>2. TypeOK'
    BY <2>1 DEF TypeOK
  <2>3. IdsFresh' /\ TimerSound' /\ OneDialer'
    BY <2>1 DEF TypeOK, IdsFresh, TimerSound, OneDialer
  <2>4. TasksSound'
    BY DEF TypeOK, TasksSound
  <2>5. AnswersMatch' /\ PendingSound'
    BY DEF TypeOK, AnswersMatch, PendingSound, OneDialer, TimerSound
  <2> QED BY <2>2, <2>3, <2>4, <2>5
<1>4. CASE Stop
  <2> USE <1>4 DEF Stop, ring
  <2>1. TypeOK'
    BY DEF TypeOK
  <2>2. IdsFresh' /\ TimerSound' /\ OneDialer'
    BY DEF TypeOK, IdsFresh, TimerSound, OneDialer
  <2>3. TasksSound'
    BY DEF TypeOK, TasksSound
  <2>4. AnswersMatch' /\ PendingSound'
    BY DEF TypeOK, AnswersMatch, PendingSound
  <2> QED BY <2>1, <2>2, <2>3, <2>4
<1> QED BY <1>1, <1>2, <1>3, <1>4 DEF LinkStep

\* The steps of one request.
LEMMA CallInv ==
  ASSUME Inv, NEW r \in Request, CallStep(r)
  PROVE  Inv'
<1> USE ServerAssumption DEF Inv
<1>1. CASE WaitForReady(r) \/ WaitExpires(r) \/ Timeout(r)
  <2> USE <1>1 DEF WaitForReady, WaitExpires, Timeout, link, ring
  <2>1. TypeOK'
    BY DEF TypeOK, Open, Settled
  <2>2. IdsFresh' /\ TimerSound' /\ OneDialer'
    BY DEF TypeOK, IdsFresh, TimerSound, OneDialer
  <2>3. TasksSound'
    BY DEF TypeOK, TasksSound
  <2>4. AnswersMatch' /\ PendingSound'
    BY DEF TypeOK, AnswersMatch, PendingSound
  <2> QED BY <2>1, <2>2, <2>3, <2>4
<1>2. CASE Send(r)
  <2> USE <1>2 DEF Send, link, ring, FreshId
  <2>1. TypeOK'
    BY DEF TypeOK, Open, Settled
  <2>2. \A q \in Request : id[q] # nextId
    BY DEF TypeOK, IdsFresh
  <2>3. IdsFresh'
    BY <2>2 DEF TypeOK, IdsFresh
  <2>4. TimerSound' /\ OneDialer'
    BY DEF TypeOK, TimerSound, OneDialer
  <2>5. TasksSound'
    BY DEF TypeOK, TasksSound
  <2>6. AnswersMatch'
    BY DEF TypeOK, AnswersMatch
  <2>7. PendingSound'
    BY <2>2, <2>3 DEF TypeOK, PendingSound, IdsFresh
  <2> QED BY <2>1, <2>3, <2>4, <2>5, <2>6, <2>7
<1>3. CASE HandleMessage(r)
  <2> DEFINE found == {q \in pending : id[q] = id[r]}
  <2> USE <1>3 DEF HandleMessage, link
  <2>1. found \subseteq {r}
    BY DEF TypeOK, IdsFresh
  <2>2. CASE found = {}
    <3>1. UNCHANGED <<link, nextId, status, id, tasks, scheduled, answer, pending>>
      BY <2>2
    <3> QED BY <3>1 DEF TypeOK, IdsFresh, TimerSound, OneDialer, TasksSound,
                        AnswersMatch, PendingSound
  <2>3. CASE found = {r}
    <3>1. /\ pending' = pending \ {r} /\ r \in pending
          /\ tasks' = Append(tasks, <<r, r>>) /\ scheduled' = TRUE
      BY <2>3
    <3>2. TypeOK'
      BY <3>1 DEF TypeOK
    <3>3. IdsFresh' /\ TimerSound' /\ OneDialer'
      BY <3>1 DEF TypeOK, IdsFresh, TimerSound, OneDialer
    <3>4. TasksSound'
      <4>1. /\ Len(tasks') = Len(tasks) + 1
            /\ \A i \in 1..Len(tasks) : tasks'[i] = tasks[i]
            /\ tasks'[Len(tasks) + 1] = <<r, r>>
        BY <3>1 DEF TypeOK
      <4>2. status[r] = "sent"
        BY <3>1 DEF PendingSound
      <4>3. Len(tasks) \in Nat
        BY DEF TypeOK
      <4> QED BY <3>1, <4>1, <4>2, <4>3 DEF TasksSound
    <3>5. AnswersMatch' /\ PendingSound'
      BY <3>1 DEF TypeOK, AnswersMatch, PendingSound
    <3> QED BY <3>2, <3>3, <3>4, <3>5
  <2> QED BY <2>1, <2>2, <2>3
<1> QED BY <1>1, <1>2, <1>3 DEF CallStep

\* The steps of the micro-scheduler.
LEMMA RingInv ==
  ASSUME Inv, Resolve \/ FlushEnds \/ Flush
  PROVE  Inv'
<1> USE ServerAssumption DEF Inv
<1>1. CASE Resolve
  <2> DEFINE q == Head(tasks)[1]
  <2> USE <1>1 DEF Resolve, link
  <2>1. /\ tasks \in Seq(Request \X Request) /\ tasks # <<>>
        /\ Len(tasks') = Len(tasks) - 1 /\ Len(tasks) \in Nat
        /\ \A i \in 1..Len(tasks') : tasks'[i] = tasks[i + 1]
        /\ Head(tasks) = tasks[1] /\ 1 \in 1..Len(tasks)
    BY DEF TypeOK
  <2>2. q \in Request /\ Head(tasks)[2] = q
    BY <2>1 DEF TasksSound
  <2>3. /\ status' = [status EXCEPT ![q] = IF status[q] = "sent" THEN "ok" ELSE status[q]]
        /\ answer' = [answer EXCEPT ![q] = IF status[q] = "sent" THEN q ELSE answer[q]]
    BY <2>2 DEF TypeOK
  <2> HIDE DEF q
  <2>4. TypeOK'
    <3>1. tasks' \in Seq(Request \X Request)
      BY <2>1
    <3>2. status' \in [Request -> Open \cup Settled]
      BY <2>2, <2>3 DEF TypeOK, Settled
    <3>3. answer' \in [Request -> Request \cup {NoId}]
      BY <2>2, <2>3 DEF TypeOK
    <3> QED BY <3>1, <3>2, <3>3 DEF TypeOK, calls
  <2>5. IdsFresh' /\ TimerSound' /\ OneDialer'
    BY DEF TypeOK, IdsFresh, TimerSound, OneDialer
  <2>6. TasksSound'
    <3> SUFFICES ASSUME NEW i \in 1..Len(tasks')
                 PROVE  /\ tasks'[i][1] = tasks'[i][2]
                        /\ tasks'[i][1] \notin pending'
                        /\ status'[tasks'[i][1]] \in {"sent", "ok", "timeout"}
      BY DEF TasksSound
    <3>1. tasks'[i] = tasks[i + 1] /\ i + 1 \in 1..Len(tasks)
      BY <2>1
    <3>2. tasks[i + 1][1] \in Request
      BY <3>1, <2>1
    <3> QED BY <3>1, <3>2, <2>2, <2>3 DEF TypeOK, TasksSound
  <2>7. AnswersMatch'
    BY <2>2, <2>3 DEF TypeOK, AnswersMatch
  <2>8. PendingSound'
    <3>1. q \notin pending
      BY <2>1 DEF TasksSound, q
    <3> QED BY <3>1, <2>2, <2>3 DEF TypeOK, PendingSound
  <2> QED BY <2>4, <2>5, <2>6, <2>7, <2>8
<1>2. CASE FlushEnds \/ Flush
  <2>1. scheduled' \in BOOLEAN /\ UNCHANGED <<link, calls, tasks, answer>>
    BY <1>2 DEF FlushEnds, Flush
  <2> USE <2>1 DEF link, calls
  <2>2. TypeOK'
    BY DEF TypeOK
  <2>3. IdsFresh' /\ TasksSound' /\ TimerSound'
    BY DEF IdsFresh, TasksSound, TimerSound
  <2>4. AnswersMatch' /\ PendingSound' /\ OneDialer'
    BY DEF AnswersMatch, PendingSound, OneDialer
  <2> QED BY <2>2, <2>3, <2>4
<1> QED BY <1>1, <1>2

LEMMA NextInv == Inv /\ [Next]_vars => Inv'
<1> SUFFICES ASSUME Inv, [Next]_vars PROVE Inv'
  OBVIOUS
<1>1. CASE UNCHANGED vars
  BY <1>1 DEF vars, link, calls, ring, Inv, TypeOK, IdsFresh, TasksSound, TimerSound,
              AnswersMatch, PendingSound, OneDialer
<1> QED BY <1>1, LinkInv, CallInv, RingInv DEF Next

\* What the code keeps up between any two events of a server.
THEOREM Invariance == Spec => []Inv
  BY InitInv, NextInv, PTL DEF Spec

\* The state is always well formed.
THEOREM TypeCorrect == Spec => []TypeOK
  BY Invariance, PTL DEF Inv

\* request(): an answer settles the request it was sent for, however late it comes.
THEOREM AnswersMatchHolds == Spec => []AnswersMatch
  BY Invariance, PTL DEF Inv

\* `pending`: no resolver outlives its timeout or connection, and ids are unique.
THEOREM RequestsSoundHolds == Spec => []RequestsSound
<1>1. Inv => RequestsSound
  BY DEF Inv, RequestsSound
<1> QED BY <1>1, Invariance, PTL

\* scheduleReconnect(): a running server has one websocket or one timer.
THEOREM OneDialerHolds == Spec => []OneDialer
  BY Invariance, PTL DEF Inv

-----------------------------------------------------------------------------
\* stop(): nothing brings a stopped server to dial again.
LEMMA QuietStep == Inv /\ [Next]_vars =>
                   (stopped => ~timer' /\ (socket = "none" => socket' = "none"))
<1> SUFFICES ASSUME Inv, [Next]_vars, stopped
             PROVE  ~timer' /\ (socket = "none" => socket' = "none")
  OBVIOUS
<1>1. ~timer
  BY DEF Inv, TypeOK, TimerSound
<1>2. CASE LinkStep
  <2>1. CASE OnOpen \/ Stop
    BY <1>1, <2>1 DEF OnOpen, Stop
  <2>2. CASE OnClose
    BY <1>1, <2>2 DEF OnClose
  <2>3. CASE Reconnect
    BY <1>1, <2>3 DEF Reconnect
  <2> QED BY <1>2, <2>1, <2>2, <2>3 DEF LinkStep
<1>3. CASE UNCHANGED link
  BY <1>1, <1>3 DEF link
<1> QED BY <1>2, <1>3 DEF Next, vars, CallStep, WaitForReady, WaitExpires, Send,
                          HandleMessage, Timeout, Resolve, FlushEnds, Flush
THEOREM StoppedStaysQuietHolds == Spec => StoppedStaysQuiet
<1>1. Inv /\ [Next]_vars =>
      [stopped => ~timer' /\ (socket = "none" => socket' = "none")]_vars
  BY QuietStep
<1> QED BY <1>1, Invariance, PTL DEF Spec, StoppedStaysQuiet

\* scheduleReconnect(): while the node refuses, the waits grow up to the maximum.
LEMMA WaitStep == Inv /\ [Next]_vars =>
                  (socket = "connecting" /\ timer' => delay' > delay \/ delay' = MaxBackoff)
<1> SUFFICES ASSUME Inv, [Next]_vars, socket = "connecting", timer'
             PROVE  delay' > delay \/ delay' = MaxBackoff
  OBVIOUS
<1>1. ~timer
  BY DEF Inv, TypeOK, TimerSound, OneDialer
<1>2. CASE LinkStep
  BY <1>1, <1>2 DEF Inv, TimerSound, LinkStep, OnOpen, OnClose, Reconnect, Stop
<1>3. CASE UNCHANGED link
  BY <1>1, <1>3 DEF link
<1> QED BY <1>2, <1>3 DEF Next, vars, CallStep, WaitForReady, WaitExpires, Send,
                          HandleMessage, Timeout, Resolve, FlushEnds, Flush
THEOREM WaitsLongerHolds == Spec => WaitsLonger
<1>1. Inv /\ [Next]_vars =>
      [socket = "connecting" /\ timer' => delay' > delay \/ delay' = MaxBackoff]_vars
  BY WaitStep
<1> QED BY <1>1, Invariance, PTL DEF Spec, WaitsLonger

-----------------------------------------------------------------------------
\* The mapping of a step that changes the status of one request.
LEMMA OutcomeOfOne ==
  ASSUME TypeOK, NEW r \in Request, NEW s \in Open \cup Settled,
         status' = [status EXCEPT ![r] = s]
  PROVE  Outcome' = [Outcome EXCEPT ![r] = CASE s = "new" -> "none"
                                             [] s \in {"waiting", "ready", "sent"} -> "asked"
                                             [] s = "ok" -> "ok"
                                             [] OTHER -> "error"]
  BY DEF TypeOK, Outcome

\* Every step of a server is a step of RequestReply, or its callers see no change.
LEMMA StepRefines ==
  ASSUME Inv, [Next]_vars
  PROVE  [Abstract!Next]_<<Outcome, Replied>>
<1> USE DEF Inv
<1>1. CASE OnOpen
  <2>1. Outcome' = Outcome
    BY <1>1 DEF OnOpen, TypeOK, Outcome
  <2>2. Replied' = Replied
    BY <1>1 DEF OnOpen, TypeOK, Replied, ring
  <2> QED BY <2>1, <2>2
<1>2. CASE UNCHANGED <<status, tasks>>
  BY <1>2 DEF Outcome, Replied
<1>3. ASSUME NEW r \in Request, WaitForReady(r) PROVE Abstract!Ask(r)
  <2>1. PICK s \in {"ready", "waiting"} : status' = [status EXCEPT ![r] = s]
    BY <1>3 DEF WaitForReady
  <2>2. Outcome' = [Outcome EXCEPT ![r] = "asked"]
    BY <2>1, OutcomeOfOne DEF Open
  <2>3. Outcome[r] = "none"
    BY <1>3 DEF WaitForReady, Outcome
  <2>4. Replied' = Replied
    BY <1>3, <2>1 DEF WaitForReady, TypeOK, Replied, ring
  <2> QED BY <2>2, <2>3, <2>4 DEF Abstract!Ask
<1>4. ASSUME NEW r \in Request, WaitExpires(r) PROVE Abstract!Fail(r)
  <2>1. Outcome' = [Outcome EXCEPT ![r] = "error"] /\ Outcome[r] = "asked"
    <3>1. "unready" \in Open \cup Settled /\ status' = [status EXCEPT ![r] = "unready"]
      BY <1>4 DEF WaitExpires, Settled
    <3>2. Outcome' = [Outcome EXCEPT ![r] = "error"]
      BY <3>1, OutcomeOfOne
    <3> QED BY <1>4, <3>2 DEF WaitExpires, Outcome
  <2>2. Replied' = Replied \ {r}
    BY <1>4 DEF WaitExpires, TypeOK, TasksSound, Replied, ring
  <2> QED BY <2>1, <2>2 DEF Abstract!Fail
<1>5. ASSUME NEW r \in Request, Send(r)
      PROVE  \/ Abstract!Ask(r) \/ Abstract!Refuse(r) \/ Abstract!Fail(r)
             \/ UNCHANGED <<Outcome, Replied>>
  <2>1. CASE socket = "open"
    <3>1. Outcome' = [Outcome EXCEPT ![r] = "asked"]
      BY <1>5, <2>1, OutcomeOfOne DEF Send, Open
    <3>2. Replied' = Replied
      BY <1>5, <2>1 DEF Send, TypeOK, TasksSound, Replied, ring
    <3>3. CASE status[r] = "new"
      BY <3>1, <3>2, <3>3 DEF Abstract!Ask, Outcome
    <3>4. CASE status[r] = "ready"
      BY <3>1, <3>2, <3>4 DEF Outcome
    <3> QED BY <1>5, <3>3, <3>4 DEF Send
  <2>2. CASE socket # "open"
    <3>1. Outcome' = [Outcome EXCEPT ![r] = "error"]
      BY <1>5, <2>2, OutcomeOfOne DEF Send, Settled
    <3>2. Replied' = Replied /\ r \notin Replied
      BY <1>5, <2>2 DEF Send, TypeOK, TasksSound, Replied, ring
    <3>3. CASE status[r] = "new"
      BY <3>1, <3>2, <3>3 DEF Abstract!Refuse, Outcome
    <3>4. CASE status[r] = "ready"
      BY <3>1, <3>2, <3>4 DEF Abstract!Fail, Outcome
    <3> QED BY <1>5, <3>3, <3>4 DEF Send
  <2> QED BY <2>1, <2>2
<1>6. ASSUME NEW r \in Request, HandleMessage(r)
      PROVE  Abstract!Reply(r) \/ UNCHANGED <<Outcome, Replied>>
  <2> DEFINE found == {q \in pending : id[q] = id[r]}
  <2>1. found \subseteq {r} /\ status' = status
    BY <1>6 DEF HandleMessage, TypeOK, IdsFresh
  <2>2. CASE found = {}
    <3>1. UNCHANGED <<status, tasks>>
      BY <1>6, <2>1, <2>2 DEF HandleMessage
    <3> QED BY <3>1 DEF Outcome, Replied
  <2>3. CASE found = {r}
    <3>1. tasks' = Append(tasks, <<r, r>>) /\ r \in pending
      BY <1>6, <2>3 DEF HandleMessage
    <3>2. status[r] = "sent" /\ Outcome' = Outcome
      BY <2>1, <3>1 DEF PendingSound, Outcome
    <3>3. r \notin Replied
      BY <3>1, <3>2 DEF TypeOK, TasksSound, Replied
    <3>4. \A q \in Request : (\E i \in 1..Len(tasks') : tasks'[i][1] = q)
                            <=> q = r \/ \E i \in 1..Len(tasks) : tasks[i][1] = q
      <4>1. /\ Len(tasks') = Len(tasks) + 1 /\ Len(tasks) \in Nat
            /\ \A i \in 1..Len(tasks) : tasks'[i] = tasks[i]
            /\ tasks'[Len(tasks) + 1] = <<r, r>>
        BY <3>1 DEF TypeOK
      <4> QED BY <4>1
    <3>5. Replied' = Replied \cup {r}
      BY <2>1, <3>2, <3>4 DEF Replied
    <3> QED BY <3>2, <3>3, <3>5 DEF Abstract!Reply, Outcome
  <2> QED BY <2>1, <2>2, <2>3
<1>7. ASSUME NEW r \in Request, Timeout(r) PROVE Abstract!Fail(r)
  <2>1. Outcome' = [Outcome EXCEPT ![r] = "error"] /\ Outcome[r] = "asked"
    <3>1. "timeout" \in Open \cup Settled /\ status' = [status EXCEPT ![r] = "timeout"]
      BY <1>7 DEF Timeout, Settled
    <3>2. Outcome' = [Outcome EXCEPT ![r] = "error"]
      BY <3>1, OutcomeOfOne
    <3> QED BY <1>7, <3>2 DEF Timeout, Outcome
  <2>2. Replied' = Replied \ {r}
    BY <1>7 DEF Timeout, TypeOK, Replied, ring
  <2> QED BY <2>1, <2>2 DEF Abstract!Fail
<1>8. CASE Resolve
  <2> DEFINE q == Head(tasks)[1]
  <2>1. /\ tasks \in Seq(Request \X Request) /\ tasks # <<>>
        /\ Len(tasks') = Len(tasks) - 1 /\ Len(tasks) \in Nat
        /\ \A i \in 1..Len(tasks') : tasks'[i] = tasks[i + 1]
        /\ Head(tasks) = tasks[1] /\ 1 \in 1..Len(tasks)
    BY <1>8 DEF Resolve, TypeOK
  <2>2. q \in Request /\ status[q] \in {"sent", "ok", "timeout"}
    BY <2>1 DEF TasksSound
  <2>3. \A r \in Request : r # q =>
          ((\E i \in 1..Len(tasks') : tasks'[i][1] = r)
             <=> \E i \in 1..Len(tasks) : tasks[i][1] = r)
    <3> SUFFICES ASSUME NEW r \in Request, r # q
                 PROVE  (\E i \in 1..Len(tasks') : tasks'[i][1] = r)
                          <=> \E i \in 1..Len(tasks) : tasks[i][1] = r
      OBVIOUS
    <3>1. ASSUME NEW i \in 1..Len(tasks), tasks[i][1] = r
          PROVE  \E j \in 1..Len(tasks') : tasks'[j][1] = r
      <4>1. i # 1
        BY <2>1, <3>1
      <4>2. i - 1 \in 1..Len(tasks') /\ (i - 1) + 1 = i
        BY <2>1, <4>1
      <4>3. tasks'[i - 1] = tasks[i]
        BY <2>1, <4>2
      <4> QED BY <3>1, <4>2, <4>3
    <3>2. ASSUME NEW i \in 1..Len(tasks'), tasks'[i][1] = r
          PROVE  \E j \in 1..Len(tasks) : tasks[j][1] = r
      <4>1. tasks'[i] = tasks[i + 1] /\ i + 1 \in 1..Len(tasks)
        BY <2>1
      <4> QED BY <3>2, <4>1
    <3> QED BY <3>1, <3>2
  <2>4. CASE status[q] = "sent"
    <3>1. status' = [status EXCEPT ![q] = "ok"]
      BY <1>8, <2>4 DEF Resolve
    <3>2. Outcome' = [Outcome EXCEPT ![q] = "ok"] /\ Outcome[q] = "asked"
      <4>1. Outcome' = [Outcome EXCEPT ![q] = "ok"]
        BY <2>2, <3>1, OutcomeOfOne DEF Settled
      <4> QED BY <2>2, <2>4, <4>1 DEF Outcome
    <3>3. q \in Replied
      BY <2>1, <2>2, <2>4 DEF Replied
    <3>4. Replied' = Replied
      BY <2>2, <2>3, <3>1, <3>3 DEF TypeOK, Replied
    <3> QED BY <2>2, <3>2, <3>3, <3>4 DEF Abstract!Deliver, Abstract!Settle, Abstract!Next
  <2>5. CASE status[q] # "sent"
    <3>1. status' = status
      BY <1>8, <2>5 DEF Resolve
    <3>2. Outcome' = Outcome
      BY <3>1 DEF Outcome
    <3>3. Replied' = Replied
      BY <2>2, <2>3, <2>5, <3>1 DEF Replied
    <3> QED BY <3>2, <3>3
  <2> QED BY <2>4, <2>5
<1>9. CASE \E r \in Request : CallStep(r)
  <2>1. PICK r \in Request : CallStep(r)
    BY <1>9
  <2> QED BY <2>1, <1>3, <1>4, <1>5, <1>6, <1>7
          DEF CallStep, Abstract!Next, Abstract!Settle
<1>10. CASE OnClose \/ Reconnect \/ Stop \/ FlushEnds \/ Flush \/ UNCHANGED vars
  BY <1>2, <1>10 DEF OnClose, Reconnect, Stop, FlushEnds, Flush, vars, calls, ring
<1> QED BY <1>1, <1>8, <1>9, <1>10 DEF Next, LinkStep

\* What the callers of a server see is RequestReply: a request ends once, with the
\* reply if one came in time and with an error otherwise.
THEOREM ServesRequestsSafely ==
  Spec => Abstract!Init /\ [][Abstract!Next]_<<Outcome, Replied>>
<1>1. Init => Abstract!Init
  BY DEF Init, Abstract!Init, Outcome, Replied
<1>2. Inv /\ [Next]_vars => [Abstract!Next]_<<Outcome, Replied>>
  BY StepRefines
<1> QED BY <1>1, <1>2, Invariance, PTL DEF Spec
=============================================================================
