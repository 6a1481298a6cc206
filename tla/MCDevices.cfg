SPECIFICATION DevicesSpec
SYMMETRY DevicesSymmetry
CONSTANTS
  Cpus = {c1, c2}
  Procs = {p1, p2}
  Locks = {1, 2}
  ptable = 2
  a = a
  noone = noone
INVARIANTS ScreenShows
PROPERTIES IsLineQueue ReturnsWhenDue Exclusive ModifiersFollow
