CONSTANTS
  a1 = a1
  a2 = a2
  None = None
  SnoozeLimit <- MCSnoozeLimit
  InboxBound = 2
  ReportBound = 2
  Alarms <- MCAlarms
  Missions <- MCMissions
SPECIFICATION Spec
INVARIANTS
  TypeOK
  SequenceWithinMissions
  RingIsKnown
PROPERTIES
  SuccessLeavesScreen
