CONSTANTS
  t1 = t1
  t2 = t2
  Threads <- MCThreads
  NumCores = 2
  MaxIters = 2
  MaxWarmups = 1
  MaxReps = 2
SPECIFICATION Spec
INVARIANTS
  TypeOK
  EveryIterationAddedOnce
  BracketsClosed
  CountersCoverAlgorithm
  AffinityRestored
  MeasuredTagsComeLast
PROPERTY RunsEnd
