\* A client that leaves stops the manager from listening for the others.
CONSTANTS
  Client = {c1, c2}
  MaxBlock = 3
  Window = 2
  MaxKnown = 3
  MaxEvents = 3
  None = None
SPECIFICATION Spec
INVARIANT KeepsListening
CHECK_DEADLOCK FALSE
