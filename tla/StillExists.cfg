SPECIFICATION MCSpec
CONSTANTS
  Links = {a, b, c, d}
  Names = {h1, h2}
  Bridges = {br}
  None = None
  Absent = Absent
  Incomplete = Incomplete
  NoIndex = NoIndex
  Stale = Stale
  AnnounceOrder = "between"
  EnvOps = {"delLink"}
  CfgOps = {"set", "delete"}
  Leftover = {h1, h2}
  Kindless = {}
  MaxQueue = 4
  MaxInterfaces = 4
  MaxRequests = 3
  MaxOthers = 3
SYMMETRY Symmetry
CHECK_DEADLOCK FALSE
PROPERTIES StillExistsRestricts
