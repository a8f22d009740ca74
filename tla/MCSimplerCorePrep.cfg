SPECIFICATION Spec
CONSTANTS
  K = 3
  Kernels <- PrepKernel
INVARIANT StoresPromised
CHECK_DEADLOCK FALSE
