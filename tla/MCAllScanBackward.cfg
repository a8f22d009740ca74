SPECIFICATION FairSpec
CONSTANTS
  P = 3
  K = 2
  Heads = 2
  Batch = 2
  MaxCalls = 2
INVARIANTS
  TypeOK
  MessageDelivered
  ReverseInv
PROPERTIES
  RecvStable
  ReturnsGradients
  EveryCallReturns
