SPECIFICATION FairSpec
CONSTANTS
  Prime = 13
  Gen = 2
  P = 3
  N = 2
  C = 2
  DK = 2
  DV = 2
  Inputs <- TwoInputs
  Programs = {"allscan", "allscan_backward", "zeco", "zeco_backward"}
  MaxCrashes = 1
INVARIANTS
  MessagesInStep
  CollectedIsReference
PROPERTIES
  WorkersStop
  ReturnsUnlessRaised
CHECK_DEADLOCK FALSE
