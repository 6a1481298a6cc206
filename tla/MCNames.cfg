SPECIFICATION NamesSpec
SYMMETRY NamesSymmetry
CHECK_DEADLOCK FALSE
CONSTANTS
  p1 = p1
  p2 = p2
  p3 = p3
  Procs = {p1, p2, p3}
  NINODE = 3
  NINUMS = 2
  MaxLinks = 1
INVARIANTS LinksExact DirectoryTree NoCircularWait InodesShared HeldWhileOpen
