CONSTANTS
  s1 = s1
  s2 = s2
  s3 = s3
  u1 = u1
  b1 = b1
  b2 = b2
  Setters = {s1, s2, s3}
  Users = {u1}
  Borrowers = {b1, b2}
  Dirs = {"d", "e"}
  None = None
  MaxEntries = 1
  MaxId = 2
  TTL = 1
  MaxTime = 2
  MaxOps = 1
SPECIFICATION MCSpec
INVARIANTS HandlesExact BorrowsEnclose IdsStable
PROPERTIES LeasesReleased
\* Calls and computations come to an end, and so does the clock.
CHECK_DEADLOCK FALSE
