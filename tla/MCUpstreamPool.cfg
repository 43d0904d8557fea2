\* With MaxClients = 1 a second client makes the pool grow and a third overloads it;
\* the connection opened by start counts one client from the beginning.
CONSTANTS
  p1 = p1  known = known  unknown = unknown
  Client = {a, b}
  Pool = {p1}
  Method = {known, unknown}
  Candidates <- MCCandidates
  MaxClients = 1
  MinConnections = 1
  MaxConnections = 2
  Slots = 3
  None = None
SPECIFICATION Spec
INVARIANTS PoolSound NeverOvercounted HeapRestored
PROPERTIES Sticky OverloadIsLast Shrinks
CHECK_DEADLOCK FALSE
