SPECIFICATION StorageSpec
CONSTANTS
  p1 = p1
  p2 = p2
  p3 = p3
  Pins = {p1, p2, p3}
  Worker = worker
  Requests = {1, 2, 3}
SYMMETRY PinPermutations
INVARIANTS
  StorageTypeOK
  NoUseAfterReclaim
  LatestWins
  BytesAreOfRetained
PROPERTIES
  BankMovesForward
  ImplementsBank
