---------------------------- MODULE MCGlaBackends ----------------------------
(* A call of either backend on a pseudo-random input: the simpler forward and *)
(* backward, and every fused program, distributed and on one device, from an  *)
(* unblocked plan to one that blocks every dimension.                         *)
EXTENDS GlaBackends, SampleInputs

AllPrograms == [op : {"forward", "backward", "carried"}, ranks : {1, P}]
FewPlans ==
  {[nb |-> 1, nv |-> 1, nc |-> 1, k |-> 1], [nb |-> 2, nv |-> 1, nc |-> 2, k |-> 2],
   [nb |-> 4, nv |-> 2, nc |-> 2, k |-> 2]}
=============================================================================
