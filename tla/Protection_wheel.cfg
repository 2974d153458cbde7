SPECIFICATION LiveSpec
CONSTANTS
  ko = ko
  pep = pep
  Symbols = {ko, pep}
  Wheeled = {ko, pep}
  Contracts <- MCContracts
  Target <- MCTarget
  Strike <- MCStrike
  Worth <- MCWorth
  Cash0 = 4
  MaxEvents = 4
  MaxFaults = 1
INVARIANTS
  OneStopPerLong
  StopsMatchPosition
  LegsSoldOnce
  CallsCovered
  PutsSecuredAlone
PROPERTIES
  LongsGetStops
