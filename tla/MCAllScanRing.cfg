SPECIFICATION FairSpec
CONSTANTS
  P = 3
  K = 2
  Heads = 2
  Batch = 2
  MaxCalls = 2
INVARIANTS
  TypeOK
  SignalMeansDelivered
  NotifiedOnce
  NoStoreOutlivesWindow
  RingInv
PROPERTIES
  RecvStable
  ImplementsAllScan
  EveryCallReturns
