SPECIFICATION FairSpec
CONSTANTS
  t1 = t1
  t2 = t2
  t3 = t3
  t4 = t4
  Task <- MCTask
  Cost <- MCCost
  Concurrency = 2
  RpmOptions = {0, 3}
  MinSleep = 1
INVARIANTS SlotsExact BurstBound
PROPERTIES NoOvertaking EveryCallRuns
CHECK_DEADLOCK FALSE
