CONSTANTS
  t1 = t1
  t2 = t2
  p1 = p1
  p2 = p2
  Threads = {t1, t2}
  Processes = {p1, p2}
  Sites = {"send", "mutation"}
  MutationSites = {"mutation"}
  Decisions <- MCDecisions
  MaxAsked <- MCMaxAsked
  MayFail = TRUE
SPECIFICATION RecordSpec
SYMMETRY MCSymmetry
CHECK_DEADLOCK FALSE
INVARIANTS RecordedPrefix ReplayFaithful SameDecisions
