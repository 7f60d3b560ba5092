CONSTANTS
  t1 = t1
  t2 = t2
  Threads = {t1, t2}
  Bytes = 3
  Lengths = {1, 2}
  MaxEpoch = 1
  TimesOut = TRUE
  PolicyEnds = TRUE
SPECIFICATION Spec
SYMMETRY MCSymmetry
CHECK_DEADLOCK FALSE
INVARIANTS
  ReturnedOnce KeptInTurn NothingStale AdjacentOnly CountWithin NothingAfterEnd
