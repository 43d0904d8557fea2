\* MaxWaiters = 3 lets two invocations wait and refuses the third one.
CONSTANTS
  Call = {c1, c2, c3, c4}
  Key = {"a", "b"}
  MaxWaiters = 3
  NoCall = NoCall
SPECIFICATION CreatorSpec
INVARIANTS FlightsSound
PROPERTIES CreatesOnce EveryCallReturns
CHECK_DEADLOCK FALSE
