SPECIFICATION Spec
CONSTANTS
  RankCounts = {2}
  Sessions = {{"forward_multihead", "measure"}}
  HeadCounts = {1, 2}
  Samples = 2
  MaxCalls = 2
INVARIANT OneWorkerPerDevice
