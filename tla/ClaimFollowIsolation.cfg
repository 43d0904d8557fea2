CONSTANTS
  c1 = c1  c2 = c2  r1 = r1  r2 = r2  r3 = r3
  Client = {c1, c2}
  Request = {r1, r2, r3}
  Owner <- MCOwner
  MaxFollows = 2
  MaxWaiting = 2
  None = None
SPECIFICATION Spec
PROPERTIES FollowIsolation
CHECK_DEADLOCK FALSE
