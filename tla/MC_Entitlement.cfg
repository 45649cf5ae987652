CONSTANTS
  Handlers = {h1, h2, h3}
  MaxPeriod = 2
  MaxNotices = 1
  Absent = Absent
SPECIFICATION EntitlementSpec
SYMMETRY MCSymmetry
INVARIANTS
  EntitlementTypeOK
  StaleNeedsTrouble
PROPERTIES
  PartOnlyByRace
CHECK_DEADLOCK FALSE
