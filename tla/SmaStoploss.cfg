SPECIFICATION Spec
CONSTANTS
  Netuid = {1}
  Price = {0, 1, 3, 8}
  StopBps = 5000
  CooldownBlocks = 2
  MaxHeight = 4
  MaxCrashes = 1
INVARIANT MemoryPersisted
PROPERTIES StopForgottenSafely StopsRatchet NoReentryOnRecord
CHECK_DEADLOCK FALSE
