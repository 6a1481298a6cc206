SPECIFICATION Spec
SYMMETRY CpuSymmetry
CONSTANTS
  c1 = c1
  c2 = c2
  CPUs = {c1, c2}
  NoCpu = nocpu
  NPROC = 3
  MLF_LEVELS = 2
  MAX_QUANTUM = 1
  Chans = {}
  PriorityArgs = {}
  KillArgs = {0, 2}
  MaxPid = 4
INVARIANTS QueuesIntact OneCpuEach ParentAlive WaiterHasReason
PROPERTIES KilledStaysOut Implements
