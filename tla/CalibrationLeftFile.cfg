SPECIFICATION Spec
CONSTANTS
  p1 = p1
  p2 = p2
  Process <- TwoProcesses
  Tracked = {"t1"}
  Untracked = {"u1"}
  MaxImports = 2
  MaxSnapshots = 1
  MaxRemovals = 0
INVARIANTS
  LeftFilesDoNotPreventImports
CHECK_DEADLOCK FALSE
