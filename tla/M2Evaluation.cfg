SPECIFICATION Spec
CONSTANTS
  e1 = e1
  e2 = e2
  t1 = t1
  t2 = t2
  u1 = u1
  u2 = u2
  m1 = m1
  m2 = m2
  d1 = d1
  d2 = d2
  None = None
  Evaluations <- TwoEvaluations
  StandardConditions <- FiveConditions
  CalibrationConditions <- TwoConditions
  Tracked <- TwoTracked
  Untracked <- TwoUntracked
  Models <- TwoModels
  Details <- TwoDetails
  MaxTroubles <- FewTroubles
SYMMETRY Symmetry
INVARIANTS
  SetsShareOneBasis
  SetsAreWhole
CHECK_DEADLOCK FALSE
