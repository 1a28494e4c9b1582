SPECIFICATION Spec
CONSTANTS
  p1 = p1
  p2 = p2
  Process <- TwoProcesses
  Tracked = {"t1", "t2"}
  Untracked = {"u1"}
  MaxImports = 3
  MaxSnapshots = 2
  MaxRemovals = 1
SYMMETRY Symmetry
INVARIANTS
  ReferencesAreWhole
  BoundToTheirSnapshots
  ReimportReturnsOriginal
PROPERTIES
  PublishedOnce
CHECK_DEADLOCK FALSE
