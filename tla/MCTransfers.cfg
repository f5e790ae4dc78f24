CONSTANTS
  Programs <- MCPrograms
  Loc <- MCLoc
  Content <- MCContent
  Unset = "unset"
  Junk = "junk"
  MaxIters = 3
  IteratorArguments = {"merge", "inplace_merge", "partial_sort"}
SPECIFICATION TransfersSpec
INVARIANTS
  UntouchedGoesOnce
  ComesHomeInTheCall
