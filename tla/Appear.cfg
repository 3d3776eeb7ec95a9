SPECIFICATION FairRacesSpec
CONSTANTS
  Links = {a, b, c}
  Names = {h1}
  Bridges = {br}
  None = None
  Absent = Absent
  Incomplete = Incomplete
  NoIndex = NoIndex
  Stale = Stale
  AnnounceOrder = "between"
  EnvOps = {"addLink"}
  CfgOps = {"set", "incomplete", "delete"}
  Leftover = {}
  Kindless = {}
  MaxQueue = 4
  MaxInterfaces = 4
CHECK_DEADLOCK FALSE
PROPERTIES NeverStarves Converges
