SPECIFICATION FairSpec
CONSTANT MaxSignals = 5
INVARIANT ClosedOnce
PROPERTIES ClosedAfterRunner ShutdownEnds
CHECK_DEADLOCK FALSE
