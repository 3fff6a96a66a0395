SPECIFICATION ExecSpec
CONSTANTS
  Order = {o1, o2}
  Key = {k1}
  NoKey = NoKey
  NoOrder = NoOrder
  MaxRetries = 0
  Quantity = 1
  MayCancel = {}
  BatchSize = 1
  Starts = FALSE
INVARIANT
  ReplayOpensNothing
