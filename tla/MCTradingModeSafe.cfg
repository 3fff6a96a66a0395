SPECIFICATION Spec
CONSTANTS
  Request = {r1, r2}
  Order = {}
  NoAdapter = NoAdapter
  InitialMode = "paper"
  ConnectMayRaise = FALSE
SYMMETRY Symmetry
INVARIANT SafeMeansConnected
CHECK_DEADLOCK FALSE
