SPECIFICATION Spec
CONSTANTS
  f1 = f1
  f2 = f2
  v1 = v1
  v2 = v2
  Absent = Absent
  Path <- OnePath
  Version <- TwoVersions
  MaxEdits = 2
  MaxScans = 2
INVARIANTS
  RerunRefreshIsExact
CHECK_DEADLOCK FALSE
