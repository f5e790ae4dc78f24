CONSTANTS
  NaN = NaN
  Spellings = {"1", "0", "true", "TRUE", "yes"}
  Types <- MCTypes
  Tolerances <- MCTolerances
  Values <- MCValues
  MaxLen = 2
SPECIFICATION Spec
INVARIANTS
  ReportsWhatIsAskedFor
  UnwrittenOutputFails
  OrderOfArgumentsIsIrrelevant
  SmallNumbersAreComparedExactly
