SPECIFICATION QueuesSpec
SYMMETRY CpuSymmetry
CONSTANTS
  c1 = c1
  c2 = c2
  CPUs = {c1, c2}
  NoCpu = nocpu
  NPROC = 3
  MLF_LEVELS = 1
  MAX_QUANTUM = 1
  Chans = {10}
  PriorityArgs = {}
  KillArgs = {}
  MaxPid = 3
PROPERTIES IsMlfq
