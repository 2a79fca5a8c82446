SPECIFICATION Spec
CONSTANTS
  Workers = {w1, w2}
  Heaps = {h1, h2, h3}
  Null = Null
  Polls = FALSE
  MaxArenas = 2
  MaxJobs = 1
  MaxResets = 0
  MaxBanks = 1
SYMMETRY HeapsAndWorkers
CHECK_DEADLOCK FALSE
INVARIANTS
  OneArenaHeap
