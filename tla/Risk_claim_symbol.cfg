SPECIFICATION Spec
CONSTANTS
  Equities = {0, 80, 97, 100}
  Accounts <- MCAccounts
  Asked = {1, 2, 4}
  Collaterals = {18, 20}
  Days = {1, 2}
  None = None
  DailyLoss = 3
  MaxDrawdown = 20
  MaxPerSymbol = 20
  MaxHeat = 10
  RiskPerTrade = 1
  AssumedStop = 10
  MaxIntents = 2
  MaxStarts = 2
  MaxFailures = 1
INVARIANTS
  SymbolNeverOverLimit
CHECK_DEADLOCK FALSE
