\* Two subscriptions are allowed and two may be pending: a third one can be asked for when
\* one is active, and legacy counts go wrong in both directions.
CONSTANTS
  Client = {c1}
  Request = {r1, r2, r3, r4}
  Conn = {n1, n2}
  MaxPerClient = 2
  MaxPending = 2
  None = None
SYMMETRY Alike
SPECIFICATION Spec
INVARIANTS CountsExact Accounted GivenBack
