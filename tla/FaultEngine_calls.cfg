CONSTANTS
  t1 = t1
  t2 = t2
  Unset = Unset
  Threads = {t1, t2}
  Policies = {"budget", "lossy"}
  ConfigOf <- MCConfigOf
  Lengths = {2}
  Second = 1
  Cap = 3
  MaxCalls = 3
SPECIFICATION Spec
SYMMETRY MCSymmetry
CHECK_DEADLOCK FALSE
INVARIANTS BudgetHeld HalfOpenHeld BurstNoLonger GrantsConform
PROPERTY WaitHonoured
