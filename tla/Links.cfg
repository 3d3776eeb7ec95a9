SPECIFICATION PairsSpec
CONSTANTS
  Links = {eth0, eth1, eth2, eth3}
  eth0 = eth0
  eth1 = eth1
  eth2 = eth2
  eth3 = eth3
  Names = {h1, h2}
  Bridges = {br}
  None = None
  Absent = Absent
  Incomplete = Incomplete
  NoIndex = NoIndex
  Stale = Stale
  AnnounceOrder = "between"
  EnvOps = {"addLink", "delLink", "adminAdd"}
  CfgOps = {"set", "delete"}
  Leftover = {}
  Kindless = {eth1}
  MaxQueue = 4
  MaxInterfaces = 4
  MaxRequests = 5
  MaxOthers = 1
SYMMETRY NamesSymmetry
CHECK_DEADLOCK FALSE
INVARIANTS TypeOK NamesUnique BusyFlagsSound StillExistsSound
INVARIANTS InterfaceListCoversConfig CrashNeedsLostLink LossNeedsLostLink
PROPERTIES ServiceKept WaitingNeverDropped
