\* One entry for two keys: entries are evicted, and put back by an operation that
\* ends later.
CONSTANTS
  c1 = c1  c2 = c2  r1 = r1  r2 = r2  r3 = r3
  Client = {c1, c2}
  Request = {r1, r2, r3}
  Owner <- MCOwner
  a = a  b = b  CacheKey = {a, b}
  CacheSize = 1
  MaxItems = 2
  MaxEarly = 1
  Absent = Absent
SYMMETRY Alike
SPECIFICATION OpsSpec
INVARIANTS OpsTypeOK SameStory CacheIsGood ObserversOpen
CHECK_DEADLOCK FALSE
