SPECIFICATION Spec
CONSTANTS
  Type <- CatalogTypes
  Dependencies <- CatalogDependencies
  Priority <- CatalogPriority
  Optional = {"regime"}
  Caller = {p1, p2}
  Free = Free
  Mode = {"backtest", "paper", "live"}
  ModeTypes <- CatalogModes
  InitialMode = "live"
  Buildable = {"replay", "ingestion", "feature"}
  Service = {"ingestion"}
  MaxCommands = 4
INVARIANT TypeOK
INVARIANT OneTask
INVARIANT StoppedMeansEnded
INVARIANT RunningIsLive
INVARIANT SkippedForCause
INVARIANT StartAccountsForAll
INVARIANT StopIsComplete
INVARIANT TrackersAgree
PROPERTY DependentsStopFirst
PROPERTY CommandsEnd
CHECK_DEADLOCK FALSE
