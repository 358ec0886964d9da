CONSTANTS
  Interval = 2
  Oldest = 2
  Deployed = 3
  Netuids <- MCNetuids
  Concurrency = 2
  MaxRetries = 2
  ResetEvery = 2
  FirstHead = 7
  MaxHead = 8
  MaxCycles = 1
  MaxTrades = 1
  MaxFailures = 2
  MaxCrashes = 1
SPECIFICATION Spec
INVARIANTS
  DbWhole
  CompleteLeavesNoGap
  FallbackExplained
PROPERTIES
  BackfillEnds
CHECK_DEADLOCK FALSE
