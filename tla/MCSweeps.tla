------------------------------ MODULE MCSweeps ------------------------------
(* The three benchmark sweeps and two clients on two devices. *)
EXTENDS Sweeps

\* One shape the search walks two groups of plans for, and its P = 1 sibling.
Shape(ranks) == [P |-> ranks, C |-> 16, dk |-> 32, dv |-> 16]
MCConfigs    == {Shape(1), Shape(2)}
MCConfigList == <<Shape(2), Shape(1), Shape(2)>>
MCRequests   == {Request(c) : c \in MCConfigs}
MCSessions   == {{"forward", "backward", "forward_multihead", "backward_multihead"},
                 {"forward", "backward", "measure", "measure_backward"}}
=============================================================================
