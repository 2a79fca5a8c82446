SPECIFICATION Spec
CONSTANTS
  w1 = w1
  w2 = w2
  Workers = {w1, w2}
  Host = host
  N = 2
  Counts = {1}
  Widths = {1}
  Calls = {"submit", "join", "release"}
  MaxSerial = 3
  MaxEpoch = 2
SYMMETRY WorkerPermutations
CHECK_DEADLOCK FALSE
INVARIANTS
  NothingLeaks
