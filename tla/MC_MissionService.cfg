CONSTANTS
  Callers = {h1, h2}
  FailureThreshold = 2
  Cooldown = 1
  MaxRetries = 1
  Problems = {p1}
  times = times
  length = length
  Reports <- MCReports
  Says <- MCSays
  MaxRows = 1
  RandInt <- MCEnds
SPECIFICATION Spec
INVARIANTS
  TypeOK
  TrippedByFailures
  HammeringBounded
  PuzzleIsFair
  JudgedOnce
PROPERTIES
  ReportKept
  Recovers
CHECK_DEADLOCK FALSE
