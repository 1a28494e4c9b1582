SPECIFICATION Spec
CONSTANTS
  q1 = q1
  q2 = q2
  c1 = c1
  c2 = c2
  None = None
  Pairs <- TwoPairs
  RequiredPairs <- OneOrTwo
  UsedOrders <- OneOrder
  Contents <- TwoContents
  Replies <- FewReplies
  Alterable <- FewFiles
  MaxRunning = 1
  MaxVersion = 2
  MaxTroubles <- FewTroubles
SYMMETRY Symmetry
INVARIANTS
  CompletedPairsAreWhole
  EligibleAttemptsAreAnswered
  NoPairIsLeftOut
  VerdictsAreFounded
CHECK_DEADLOCK FALSE
