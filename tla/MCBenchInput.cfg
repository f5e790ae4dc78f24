CONSTANTS
  Programs <- MCPrograms
  Loc <- MCLoc
  Content <- MCContent
  Unset = "unset"
  Junk = "junk"
  MaxIters = 3
  Flow <- MCFlow
SPECIFICATION Spec
INVARIANTS
  IterationsCompose
  EveryStepFindsItsInput
  CorrectAlgorithmPasses
PROPERTY WrapperReturns
