CONSTANTS
  t1 = t1
  t2 = t2
  NoQueue = NoQueue
  Threads = {t1, t2}
  Packets = 4
  Window = 2
  Expires = TRUE
  MaxDup = 1
  MaxEpoch = 1
  MayRefuse = TRUE
  PolicyEnds = TRUE
SPECIFICATION Spec
CHECK_DEADLOCK FALSE
INVARIANTS WithinWindow OwnSocket SentOnce KeptInTurn BoundedDisplacement
