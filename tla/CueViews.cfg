SPECIFICATION LiveSpec
CONSTANTS
  v1 = v1
  v2 = v2
  None = None
  Path <- FourPaths
  Version <- TwoVersions
  Recorded <- TwoSnapshots
  FactsFile = "Makefile"
  Declaration = "context.json"
  Items <- ThreeItems
  TextBytes <- Bytes
  EntryBytes = 6
  OmissionBytes = 3
  HintBytes = 5
  WarningBytes = 4
  Sizes <- FewSizes
  MaxEntries = 3
  MaxEdits = 2
INVARIANTS
  DeliveredIsOfTheSnapshot
  CuesFitAndTellTheirSize
  CutsAreNeededAndTold
PROPERTIES
  CuesEnd
CHECK_DEADLOCK FALSE
