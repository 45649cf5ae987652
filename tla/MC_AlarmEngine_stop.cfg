CONSTANTS
  a1 = a1
  a2 = a2
  None = None
  DayLength = 2
  DaysPerWeek = 2
  MailboxBound = 1
  SnoozeDelays = {1}
  Alarms <- MCAlarms
  Configs <- MCConfigs
SPECIFICATION Spec
PROPERTIES
  StopSilences
