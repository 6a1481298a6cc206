SPECIFICATION FairSpec
CHECK_DEADLOCK FALSE
CONSTANTS
  p1 = p1
  p2 = p2
  Procs = {p1, p2}
  Bytes = {1}
  PIPESIZE = 1
  WORD = 2
  Addrs <- LiveAddrs
  Counts = {1}
PROPERTY KilledReturns
