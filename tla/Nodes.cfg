SPECIFICATION Spec
CONSTANTS
  Names = {h1, h2}
  Macs = {m1}
  DeadStack = {junk}
  MaxIndex = 3
  MaxQueue = 2
  FdLimit = 2
SYMMETRY Symmetry
CHECK_DEADLOCK FALSE
INVARIANTS TypeOK CacheFollowsNodes NodeListMatchesCache CrashExplained
