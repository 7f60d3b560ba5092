SPECIFICATION Spec
CONSTANTS
  Flows = {f1, f2}
  Callers = {f1}
  Threads = {t1, t2}
  ThreadOf <- TwoThreads
  Names = {p}
  TempNames = {n1, n2}
  Objects = {o1, o2}
  Argument <- NamedAndInline
  Bodies <- LatencyTargets
  Refused = {"target_profiles"}
  MaxDepth = 2
  MaxContexts = 2
  MayNest = FALSE
  MayDrop = TRUE
  None = None
  Inline = Inline
  f1 = f1
  f2 = f2
  t1 = t1
  t2 = t2
  o1 = o1
  o2 = o2
  n1 = n1
  n2 = n2
  p = p
INVARIANTS FaultsInside ClearedAfterwards NoLeakedPolicy
PROPERTY RestoredOnExit
SYMMETRY Generated
CHECK_DEADLOCK FALSE
