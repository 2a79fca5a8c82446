SPECIFICATION Spec
CONSTANTS
  c1 = c1
  c2 = c2
  Pins = {p1}
  Worker = worker
  Requests = {1, 2}
  Clients = {c1, c2}
  Sources <- MCSources
PROPERTIES
  NewerRequestSupersedes
