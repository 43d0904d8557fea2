\* Window + 1 = MaxKnown: the tracker has just room for what is ahead of finality.  The
\* other follow may start, report a block and finalize it, and end at any point.
CONSTANTS
  Client = {c1, c2}
  MaxBlock = 3
  Window = 2
  MaxKnown = 3
  MaxEvents = 3
  None = None
SYMMETRY Clients
SPECIFICATION Spec
INVARIANTS SameView SnapshotExact
CHECK_DEADLOCK FALSE
