SPECIFICATION Spec
CONSTANTS
  p1 = p1
  p2 = p2
  t1 = t1
  t2 = t2
  u1 = u1
  u2 = u2
  None = None
  Process <- TwoProcesses
  Tracked <- OneTracked
  Untracked <- OneUntracked
  NumSteps = 2
  Pair <- FirstTwo
  Replies <- FewReplies
  Clocks <- FewClocks
  Faults = TRUE
SYMMETRY Symmetry
INVARIANTS
  RequestsAreNotRepeated
  ScheduleIsKept
  SummaryIsLasting
PROPERTIES
  RecordsAreFinal
CHECK_DEADLOCK FALSE
