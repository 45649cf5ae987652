CONSTANTS
  c1 = c1
  c2 = c2
  me = me
  CoreRequests = {c1}
  Reloads = {}
  MaxPairs = 3

SPECIFICATION Spec

PROPERTY BootstrapDecides
CHECK_DEADLOCK FALSE
