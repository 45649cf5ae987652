CONSTANTS
  c1 = c1
  c2 = c2
  me = me
  CoreRequests <- MCRequests
  Reloads = {}
  MaxPairs = 3

SPECIFICATION Spec

INVARIANTS
  RetryIsAccepted
  CoreAloneKeepsSession
PROPERTY RequestsSettle
CHECK_DEADLOCK FALSE
