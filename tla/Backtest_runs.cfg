SPECIFICATION Spec
CONSTANTS
  AllSeries <- MCSeries
  Plans <- MCPlans
  Cash = 300
  Scale = 50
  Slip = 1
  Comm = 1
  Warmup = 1
  Needed <- MCNeeded
  Qty <- MCQty
  Drop <- MCDrop
  StopLoss = 40
  TrailPct = 10
  DailyLoss = 3
  MaxDrawdown = 20
  MaxPerSymbol = 20
  MaxHeat = 10
  RiskPerTrade = 1
  AssumedStop = 10
  Fast = 1
  Slow = 2
  VolWindow = 2
  Recent = 5
  MinSamples = 1
  ReturnScale = 40
INVARIANTS
  BooksBalance
  SalesAreWhole
  RiskKeepsCash
  EvidenceFromFills
  PositionByDefinition
CHECK_DEADLOCK FALSE
