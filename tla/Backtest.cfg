SPECIFICATION BacktestSpec
CONSTANTS
  Markets <- MCMarkets
  FirstBlock = 2
  LastBlock = 8
  MaxStep = 2
  InitialTao = 60
  F32 = 40
  TxFee = 1
  MinTrade = 2
  FeeNumerator = 1
  FeeDenominator = 20
  OwnerCutPct = 9
  ValidatorTakePct = 12
  TaoWeightNum = 18
  TaoWeightDenom = 100
  Interval = 3
  CronPeriod = 3
  ObserveGap = 2
  RootSharePct = 65
  MaxSubnets = 2
  StopLossPercent = 15
  CooldownBlocks = 4
INVARIANTS LedgerBalances StopsProtect MetricsAgree
CHECK_DEADLOCK FALSE
