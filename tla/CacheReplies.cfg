SPECIFICATION Spec
CONSTANTS
  p1 = p1
  p2 = p2
  t1 = t1
  t2 = t2
  u1 = u1
  u2 = u2
  None = None
  Process <- TwoProcesses
  Tracked <- TwoTracked
  Untracked <- TwoUntracked
  NumSteps = 1
  Pair <- OnlyStep
  Replies <- AllReplies
  Clocks <- AllClocks
  Faults = TRUE
SYMMETRY Symmetry
INVARIANTS
  TotalCountsEveryRequest
  VerdictsAreFounded
  CompletedAttemptsAreAccepted
