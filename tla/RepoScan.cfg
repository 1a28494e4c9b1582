SPECIFICATION Spec
CONSTANTS
  f1 = f1
  f2 = f2
  v1 = v1
  v2 = v2
  Absent = Absent
  Path <- TwoPaths
  Version <- TwoVersions
  MaxEdits = 3
  MaxScans = 3
SYMMETRY Symmetry
INVARIANTS
  IdleFilesAreExact
  DirtyFilesAreExact
  RebaselineIsExact
  DeltaTellsEveryChange
CHECK_DEADLOCK FALSE
