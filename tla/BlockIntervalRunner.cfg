SPECIFICATION FairSpec
CONSTANTS
  Grid = 1
  IntervalBlocks = 2
  ObserveInterval = 1
  StaleBlocks = 2
  FirstBlock = 1
  MaxBlock = 8
INVARIANT HeartbeatFresh
PROPERTIES TickAfterItsObserves StopResolves ContractSpec
CHECK_DEADLOCK FALSE
