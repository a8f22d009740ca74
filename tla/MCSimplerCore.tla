--------------------------- MODULE MCSimplerCore ---------------------------
EXTENDS SimplerCore

PrepKernel == {<<"chunk_h_prep", "">>}
AllKernels == KernelVariants \ PrepKernel
=============================================================================
