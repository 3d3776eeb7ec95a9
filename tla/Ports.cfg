SPECIFICATION Spec
CONSTANTS
  Sockets = {s1, s2}
  NumBlocks = 3
  NumBits = 1
  IdxSize = 3
  IdxStep = 1
  MaxRetries = 2
  KernelPorts = {k}
  Unspecified = Unspecified
  MaxPort = MaxPort
  Nobody = Nobody
  Other = Other
  MaxOthers = 3
SYMMETRY Symmetry
INVARIANTS MapExact
PROPERTIES BlockZeroLast PortsPooled
