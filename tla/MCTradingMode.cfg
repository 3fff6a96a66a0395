SPECIFICATION Spec
CONSTANTS
  Request = {r1, r2, r3}
  Order = {x1}
  NoAdapter = NoAdapter
  InitialMode = "paper"
  ConnectMayRaise = TRUE
SYMMETRY Symmetry
INVARIANT TypeOK
INVARIANT RealTradingApproved
INVARIANT AdapterFitsMode
CHECK_DEADLOCK FALSE
