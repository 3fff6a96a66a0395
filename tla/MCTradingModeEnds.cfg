SPECIFICATION Spec
CONSTANTS
  Request = {r1, r2}
  Order = {x1}
  NoAdapter = NoAdapter
  InitialMode = "paper"
  ConnectMayRaise = FALSE
PROPERTY TransitionsEnd
PROPERTY OrdersFollowMode
CHECK_DEADLOCK FALSE
