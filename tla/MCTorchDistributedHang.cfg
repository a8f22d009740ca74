SPECIFICATION FairSpec
CONSTANTS
  Prime = 13
  Gen = 2
  P = 3
  N = 2
  C = 2
  DK = 2
  DV = 2
  Inputs <- OneInput
  Programs = {"zeco"}
  MaxCrashes = 1
PROPERTY
  RunReturns
CHECK_DEADLOCK FALSE
