\* Two websockets of one address, whose limit is one in a window of two ticks; three
\* requests in all, two of each websocket at a time and in a window.  After the shutdown
\* the system stops.
CHECK_DEADLOCK FALSE
CONSTANTS
  a1 = a1
  Client = {c1, c2}
  Address = {a1}
  From <- MCFrom
  Handler = {h1, h2, h3}
  MaxConnects = 1
  MaxRequests = 2
  Window = 2
  MaxPending = 2
  MaxGlobal = 3
  MaxRefused = 1
  None = None
SPECIFICATION Spec
INVARIANTS PendingExact ConnectBurst BurstBounded
PROPERTIES ShutdownEnds
