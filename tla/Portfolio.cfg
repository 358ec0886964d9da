CONSTANTS
  h1 = h1
  h2 = h2
  None = None
  TAO = 40
  ShareUnit = 20
  FreeReserve = 4
  ReserveDriftPercent = 5
  MinOperation = 2
  MinStake = 2
  MinRebalance = 3
  DriftPercent = 25
  SlippagePercent = 10
  Precision = 100
  BlocksPerYear = 1
  MinTaoIn = 2
  MinAgeBlocks = 3
  ImmunityPeriod = 2
  IncumbencyBonus = 5
  RootSharePct = 65
  MaxSubnets = 2
  SmaFastPeriod = 2
  SmaSlowPeriod = 3
  MomentumWeight = 60
  EmissionWeight = 40
  CooldownBlocks = 5
  MinPosition = 3
  Hotkeys <- MCHotkeys
  Fallback = None
  World <- MCWorld
  Wallets <- MCWallets
  Strategies <- MCStrategies
  BunkerMin = 2
  SettleCycles = 3
  MaxMoves = 1
  MaxRefused = 1
  MaxBunkers = 1
SPECIFICATION PortfolioSpec
INVARIANTS
  PlanWithinMeans
  NoOverfill
  FillsNearPlan
  BunkerEmpties
  Settles
CHECK_DEADLOCK FALSE
