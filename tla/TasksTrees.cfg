SPECIFICATION Spec
CONSTANTS
  w1 = w1
  w2 = w2
  Workers = {w1, w2}
  Host = host
  N = 3
  Counts = {2}
  Widths = {2}
  Calls = {"submit", "join", "cancel", "fail"}
  MaxSerial = 3
  MaxEpoch = 1
SYMMETRY WorkerPermutations
CHECK_DEADLOCK FALSE
INVARIANTS
  TasksTypeOK
  CountsExact
  TreeComplete
  DependenciesHold
  FailureReachesParent
