CONSTANTS
  a1 = a1
  a2 = a2
  None = None
  SnoozeLimit <- NoSnooze
  InboxBound = 1
  ReportBound = 1
  Alarms <- OneAlarm
  Missions <- OneMission
SPECIFICATION Spec
PROPERTIES
  DismissedOnlyAfterMissions
