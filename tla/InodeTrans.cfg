SPECIFICATION Spec
CONSTANTS
  Procs = {p1, p2}
  NINODE = 3
  NINUMS = 2
  MaxLinks = 1
INVARIANT FreesInTransaction
CHECK_DEADLOCK FALSE
