CONSTANTS
  a1 = a1
  a2 = a2
  None = None
  MaxOccurrences = 2
  CallbackBound = 2
  Alarms <- MCAlarms
  Configs <- MCConfigs
SPECIFICATION Spec
INVARIANTS
  TypeOK
  NoStaleOccurrence
  ReplayedFireIsCurrent
