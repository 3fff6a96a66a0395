SPECIFICATION ReplaySpec
CONSTANTS
  Event <- Events
  Query = {"q1"}
  BatchSize = 3
  MaxFaults = 1
  Stamp <- Times
  Place <- Places
  Limit = 2
  Start = 2
  End = 8
  DayLength = 4
  Offset = 2
INVARIANT TypeOK
INVARIANT NothingDropped
INVARIANT WrittenOnce
INVARIANT FileInOrder
INVARIANT ReplayMissesNothing
PROPERTY FullBufferIsFrozen
PROPERTY AcceptedIsStored
PROPERTY ReplayEnds
CHECK_DEADLOCK FALSE
