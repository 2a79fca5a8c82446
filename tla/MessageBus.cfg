SPECIFICATION Spec
CONSTANTS
  a = a
  b = b
  c = c
  Instances = {a, b, c}
  Channels = {ch, other}
  Domains = {home, away}
  Home = home
  Topics = {ch}
  Asleep = {c}
  None = none
  R = 2
  Stale = 2
  Places = 2
  MaxChannels = 1
  Capacity = 2
  Earlier = 1
  MaxPosts = 3
  MaxMoves = 1
  Calls <- SenderAndReceiver
CHECK_DEADLOCK FALSE
INVARIANTS
  BusTypeOK
  FifoPerSender
  OneSlotEach
  ProcessingPeerKeepsSlot
PROPERTIES
  LossIsCounted
