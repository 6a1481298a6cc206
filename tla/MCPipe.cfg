SPECIFICATION Spec
SYMMETRY PipeSymmetry
CONSTANTS
  p1 = p1
  p2 = p2
  p3 = p3
  Procs = {p1, p2, p3}
  Bytes = {1, 2}
  PIPESIZE = 2
  WORD = 4
  Addrs <- MCAddrs
  Counts = {1, 2}
INVARIANTS NoUseAfterFree
PROPERTIES IsFifo NoLostWakeup
CHECK_DEADLOCK FALSE
