CONSTANTS
  NaN = NaN
  Builds <- MCBuilds
  Types <- MCTypes
  Wrappers <- MCWrappers
  MaxSize = 2
SPECIFICATION Spec
INVARIANT GivenPolicyExists
