SPECIFICATION Spec
CONSTANTS
  Workers = {w1, w2}
  Heaps = {h1, h2, h3}
  Null = Null
  Polls = TRUE
  MaxArenas = 2
  MaxJobs = 2
  MaxResets = 1
  MaxBanks = 2
SYMMETRY HeapsAndWorkers
CHECK_DEADLOCK FALSE
INVARIANTS
  ArenaTypeOK
  HeapInUseIsKept
  SingleWriter
  NoHeapLost
  OneArenaHeap
  NothingForgotten
PROPERTIES
  ResultsAreComplete
