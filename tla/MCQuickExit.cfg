CONSTANTS
  b1 = b1
  b2 = b2
  b3 = b3
  Benchmarks <- MCBenchmarks
  MaxKills = 2
SPECIFICATION Spec
INVARIANT NothingObservableIsLost
