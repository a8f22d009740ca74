SPECIFICATION FairSpec
CONSTANTS
  P = 2
  K = 1
  Batch = 1
  Cases <- NoTokens
  MaxCalls = 1
PROPERTY
  EveryCallReturns
CHECK_DEADLOCK FALSE
