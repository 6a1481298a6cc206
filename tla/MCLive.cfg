SPECIFICATION LiveSpec
CONSTANTS
  c1 = c1
  nocpu = nocpu
  b1 = b1
  b2 = b2
  noone = noone
PROPERTIES LevelServed KilledLeavesUser SleepersGoOn
CHECK_DEADLOCK FALSE
