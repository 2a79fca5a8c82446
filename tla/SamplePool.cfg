SPECIFICATION FairSpec
CONSTANTS
  c1 = c1
  c2 = c2
  Pins = {p1}
  Worker = worker
  Requests = {1, 2}
  Clients = {c1, c2}
  Sources <- MCSources
INVARIANTS
  SamplePoolTypeOK
  SettledShowsNewest
PROPERTIES
  CommitServed
  PendingAdopted
  RetiredReclaimed
