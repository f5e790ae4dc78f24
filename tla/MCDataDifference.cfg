CONSTANTS
  Programs <- MCPrograms
  Loc <- MCLoc
  Content <- MCContent
  Unset = "unset"
  Junk = "junk"
  NaN = NaN
  MaxIters = 1
  Sizes = {4, 12}
  Types <- MCTypes
  Algorithms = {"right"}
SPECIFICATION Spec
INVARIANT DifferenceFits
