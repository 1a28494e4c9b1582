SPECIFICATION FaultFreeSpec
CONSTANTS
  p1 = p1
  p2 = p2
  Process <- TwoProcesses
  Digests = {"d1", "d2"}
  StatusDigests = {"g1"}
  MaxCommands = 3
PROPERTIES
  CommandsEnd
  WritersCommit
