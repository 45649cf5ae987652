CONSTANTS
  Alarms = {a1, a2}
  Calls = {c1, c2, c3}
  Last = c3
  UserOps <- MCUserOps
  MaxOpen = 2
  MaxFaults = 1
  FreeLimit = 1
  NoAlarm = NoAlarm
  NoList = NoList
SPECIFICATION Spec
SYMMETRY Symmetry
INVARIANTS
  TypeOK
  CopiesAgree
  GhostNeedsTrouble
  CachedListIsFresh
PROPERTY LimitHolds
CHECK_DEADLOCK FALSE
