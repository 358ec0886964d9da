SPECIFICATION Spec
CONSTANTS
  Cycles = 1
  WrapperMortality = 2
  InnerMortality = 4
  Timeout = 2
  MaxTime = 7
INVARIANT WaitIsBounded
CHECK_DEADLOCK FALSE
