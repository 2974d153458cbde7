SPECIFICATION LiveSpec
CONSTANTS
  aapl = aapl
  btc = btc
  Symbols = {aapl, btc}
  Stocks = {aapl}
  Prices = {6, 8, 10}
  None = None
  Configured <- MCConfigured
  Drop <- MCDrop
  StopLoss = 30
  range = range
  down = down
  Regimes = {range, down}
  Losing = {down}
  MaxRearms = 2
  MaxFaults = 1
INVARIANTS
  RungOnce
  LadderBounded
  SaleIsWhole
PROPERTIES
  ConfiguredLaddersLiquidate
