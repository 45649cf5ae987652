CONSTANTS
  Handlers = {h1, h2}
  Zones <- MCZones
  DayLen = 3
  MaxTime = 1
  MaxOffset = 1
  Midnight = 0
  None = None
SPECIFICATION Spec
SYMMETRY MCSymmetry
INVARIANTS
  TypeOK
  NotCutShort
PROPERTIES
  OneMissionPerDay
  CompletionKept
CHECK_DEADLOCK FALSE
