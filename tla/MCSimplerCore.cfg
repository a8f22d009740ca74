SPECIFICATION FairSpec
CONSTANTS
  K = 3
  Kernels <- AllKernels
INVARIANTS
  RaceFree
  StoresPromised
  FlagsConsumed
PROPERTY
  KernelEnds
CHECK_DEADLOCK FALSE
