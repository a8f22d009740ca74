SPECIFICATION CallSpec
CONSTANTS
  Prime = 13
  Gen = 2
  P = 3
  N = 3
  C = 2
  DK = 4
  DV = 2
  Window = 7
  Inputs <- OneInput
  Ops = {"forward", "backward"}
  Programs <- AllPrograms
  Plans <- FewPlans
INVARIANTS
  BoundaryIsState
  SnapshotsAreStates
  RecordsRebuildStates
  ReverseStatesAreAdjoints
PROPERTIES
  ImplementsGla
  CallEnds
CHECK_DEADLOCK FALSE
