SPECIFICATION Spec
CONSTANTS
  p1 = p1
  p2 = p2
  Process <- TwoProcesses
  Digests = {"d1", "d2"}
  StatusDigests = {"g1", "g2"}
  MaxCommands = 3
SYMMETRY Symmetry
INVARIANTS
  OneActiveEpoch
  LinearHistory
  DeltasJoinSnapshots
  VerifiedStaysCurrent
  NoConstraintFailure
  AcknowledgedIsRecorded
  SomeHolderRuns
PROPERTIES
  CommittedRowsStay
  ImplementsHistory
