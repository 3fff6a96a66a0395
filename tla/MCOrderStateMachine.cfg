SPECIFICATION Spec
CONSTANTS
  Order = {o1, o2, o3}
  Key = {k1}
  NoKey = NoKey
  NoOrder = NoOrder
  MaxRetries = 1
  Quantity = 1
INVARIANTS
  TypeOK
  RegisteredOutcomeRecorded
  CompletedMeansFilled
PROPERTY
  TerminalIsFinal
SYMMETRY Symmetry
