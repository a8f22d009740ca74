SPECIFICATION SweepSpec
CONSTANTS
  RankCounts = {1, 2}
  Sessions <- MCSessions
  HeadCounts = {1, 2}
  Samples = 2
  MaxCalls = 4
  TileUnit = 16
  Requests <- MCRequests
  Configs <- MCConfigs
  Timed = 2
  Heads = 2
  Programs = {"simpler_client", "pypto_client", "gla", "allscan", "allscan_backward"}
  ConfigList <- MCConfigList
  Warmups = 1
INVARIANTS
  OwnChecksNeverFire
  DispatchFits
  FirstFit
  DevicesNotShared
  NoWorkerLeft
  RowsAreIsolated
PROPERTY SweepEnds
CHECK_DEADLOCK FALSE
