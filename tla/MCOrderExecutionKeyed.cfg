SPECIFICATION ExecSpec
CONSTANTS
  Order = {o1, o2}
  Key = {k1}
  NoKey = NoKey
  NoOrder = NoOrder
  MaxRetries = 1
  Quantity = 2
  MayCancel = {o1}
  BatchSize = 1
  Starts = FALSE
INVARIANTS
  ExecTypeOK
  WorkingHasExchangeOrder
  StatsConsistent
PROPERTY
  KeepsPromise
