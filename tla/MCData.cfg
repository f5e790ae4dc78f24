CONSTANTS
  Programs <- MCPrograms
  Loc <- MCLoc
  Content <- MCContent
  Unset = "unset"
  Junk = "junk"
  NaN = NaN
  MaxIters = 3
  Sizes = {2, 3, 4, 5, 8}
  Types <- MCTypes
  Algorithms = {"right", "wrong"}
SPECIFICATION Spec
INVARIANTS
  TypeOK
  EveryIterationAsksTheSame
  PlantIsFound
  RightAlgorithmPasses
  PassMeansRight
PROPERTY ImplementsReference
