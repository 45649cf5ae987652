CONSTANTS
  Tokens = {t1, t2}
  Workers = {w1, w2}
  Attempts = 3
  Stalls = 1
  None = None
SPECIFICATION Spec
SYMMETRY MCSymmetry
INVARIANTS
  RepeatedOnlyAfterFault
  RowIsTrue
CHECK_DEADLOCK FALSE
