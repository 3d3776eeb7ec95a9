SPECIFICATION RacesSpec
CONSTANTS
  Links = {a, b, c}
  Names = {h1}
  Bridges = {br}
  None = None
  Absent = Absent
  Incomplete = Incomplete
  NoIndex = NoIndex
  Stale = Stale
  AnnounceOrder = "between"
  EnvOps = {"addLink", "delLink", "enslave", "release", "adminAdd", "adminDel"}
  CfgOps = {"set", "incomplete", "delete"}
  Leftover = {br, h1}
  Kindless = {}
  MaxQueue = 2
  MaxInterfaces = 2
CHECK_DEADLOCK FALSE
INVARIANTS NothingStaleForGood MissingFlagsExact
PROPERTY ForgottenOnlyByRace
