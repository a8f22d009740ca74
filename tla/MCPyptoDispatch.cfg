SPECIFICATION FairSpec
CONSTANTS
  P = 3
  K = 2
  Batch = 2
  Cases <- AsNeeded
  MaxCalls = 2
INVARIANTS
  TypeOK
  SignalMeansDelivered
PROPERTIES
  RecvStable
  ReturnsPromised
  EveryCallReturns
