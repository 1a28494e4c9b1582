SPECIFICATION FairSpec
CONSTANTS
  p1 = p1
  p2 = p2
  p3 = p3
  Process <- ThreeProcesses
  MaxOpens = 5
INVARIANTS
  SchemaIsOfItsVersion
  OpenedFindsItsTables
  LosersFindItMigrated
PROPERTIES
  OpeningsEnd
CHECK_DEADLOCK FALSE
