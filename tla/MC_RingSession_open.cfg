CONSTANTS
  a1 = a1
  a2 = a2
  None = None
  SnoozeLimit <- MCSnoozeLimit
  InboxBound = 1
  ReportBound = 1
  Alarms <- MCAlarms
  Missions <- MCMissions
SPECIFICATION Spec
INVARIANTS
  RingCanBeOpened
