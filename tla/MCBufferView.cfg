CONSTANTS
  Programs <- MCPrograms
  Loc <- MCLoc
  Content <- MCContent
  Unset = "unset"
  Junk = "junk"
  MaxIters = 3
  Flow <- MCFlow
SPECIFICATION Spec
INVARIANTS
  TypeOK
  Coherent
  EveryStepFindsItsInput
  NobodyWaitsForALiveView
  TimedCallReusesDeviceCopy
  SortedHalvesAreOnTheDevice
  WrappersKeepTheRules
PROPERTIES
  ImplementsReference
  WrapperReturns
