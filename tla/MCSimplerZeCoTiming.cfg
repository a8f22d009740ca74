SPECIFICATION Spec
CONSTANTS
  RankCounts = {2}
  Sessions = {{"measure"}}
  HeadCounts = {1, 2}
  Samples = 2
  MaxCalls = 1
INVARIANT AmortizedMeansNoSetup
