SPECIFICATION FairSpec
CONSTANTS
  c1 = c1
  CPUs = {c1}
  NoCpu = nocpu
  NPROC = 2
  MLF_LEVELS = 4
  MAX_QUANTUM = 4
  Chans = {}
  PriorityArgs = {}
  KillArgs = {}
  MaxPid = 2
PROPERTIES RunnableRuns
