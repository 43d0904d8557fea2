\* MaxFollows = 2 makes room for a key collision; MaxWaiting = 3 lets two requests
\* wait, so that one flight queues three tasks, of which the second may throw.
CONSTANTS
  c1 = c1  c2 = c2  r1 = r1  r2 = r2  r3 = r3
  Client = {c1, c2}
  Request = {r1, r2, r3}
  Owner <- MCOwner
  MaxFollows = 2
  MaxWaiting = 3
  None = None
SPECIFICATION Spec
INVARIANTS SlotsSound SubscribersSound NoIdleFollow PoolBound NodeServesUsed ManagersCurrent
PROPERTIES HandsOutLive RequestsSettle
CHECK_DEADLOCK FALSE
