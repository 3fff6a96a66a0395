SPECIFICATION FairSpec
CONSTANTS
  Order = {o1}
  Key = {}
  NoKey = NoKey
  NoOrder = NoOrder
  MaxRetries = 1
  Quantity = 3
  MayCancel = {o1}
  BatchSize = 1
  Starts = TRUE

PROPERTY
  ScheduledRetryHappens
