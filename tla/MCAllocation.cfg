CONSTANTS
  NaN = NaN
  Builds <- MCBuilds
  Types <- MCTypes
  Wrappers <- MCWrappers
  MaxSize = 4
SPECIFICATION Spec
INVARIANTS
  TypeOK
  VectorsHoldTheirSequence
  FirstTouchIsParallel
PROPERTY WrapperGetsItsVectors
