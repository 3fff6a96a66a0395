SPECIFICATION FairSpec
CONSTANTS
  Order = {o1, o2}
  Key = {}
  NoKey = NoKey
  NoOrder = NoOrder
  MaxRetries = 0
  Quantity = 1
  MayCancel = {}
  BatchSize = 1
  Starts = TRUE
INVARIANTS
  LocalBacked
PROPERTY
  ReconciliationRepairs
