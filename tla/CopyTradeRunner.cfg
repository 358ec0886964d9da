SPECIFICATION FairSpec
CONSTANT MaxBlock = 3
INVARIANT DetectedEventCovered
PROPERTIES NoRunAfterStop DetectedEventRuns StopResolves ContractSpec
CHECK_DEADLOCK FALSE
