SPECIFICATION Spec
CONSTANTS
  a = a
  b1 = b1
  b2 = b2
  x1 = x1
  x2 = x2
  Ids = {b1, b2, x1, x2}
  Order <- MCOrder
  Symbols = {a}
  Views <- MCViews
  Prices = {1, 2}
  None = None
  MinSamples = 1
  MaxBatch = 2
  MaxFaults = 0
INVARIANTS
  OutcomesAreTrades
CHECK_DEADLOCK FALSE
