SPECIFICATION FairSpec
CONSTANTS
  a = a
  b = b
  c = c
  Instances = {a, b, c}
  Channels = {ch}
  Domains = {home}
  Home = home
  Topics = {ch}
  Asleep = {}
  None = none
  R = 1
  Stale = 1
  Places = 3
  MaxChannels = 1
  Capacity = 1
  Earlier = 1
  MaxPosts = 2
  MaxMoves = 2
  Calls <- SoloAndLatecomer
CHECK_DEADLOCK FALSE
PROPERTIES
  ReclaimedIsRecovered
