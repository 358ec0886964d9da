SPECIFICATION FairSpec
CONSTANTS
  Cycles = 3
  WrapperMortality = 2
  InnerMortality = 4
  Timeout = 2
  MaxTime = 7
INVARIANTS ExecutedIsOwnBatch LateBatchExcludesNext
PROPERTY SeenBatchEndsWait
CHECK_DEADLOCK FALSE
