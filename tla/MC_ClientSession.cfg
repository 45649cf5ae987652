CONSTANTS
  c1 = c1
  c2 = c2
  me = me
  CoreRequests = {c1}
  Reloads <- MCReloads
  MaxPairs = 2

SPECIFICATION Spec

INVARIANT TypeOK
PROPERTY QueueDrains
CHECK_DEADLOCK FALSE
