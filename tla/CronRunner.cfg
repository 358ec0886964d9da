SPECIFICATION CronSpec
CONSTANTS
  Period = 2
  StaleTimeoutMinutes = 3
  Fallback = 4
  MaxTime = 16
INVARIANT CronHeartbeatFresh
PROPERTY ContractSpec
CHECK_DEADLOCK FALSE
