--------------------------------- MODULE Gla ---------------------------------
(***************************************************************************)
(* What a ZeCO backend promises, whatever it distributes and in whatever   *)
(* order it computes: a call returns, once, what sequential gated linear   *)
(* attention gives for the call's own input.                               *)
(***************************************************************************)
EXTENDS GlaAlgebra

CONSTANTS Inputs

VARIABLES input, op, result

vars == <<input, op, result>>

Nothing == <<>>

\* expected_gla and expected_gla_backward
Expected(o, in) == IF o = "forward" THEN [o |-> ExpectedGla(in)] ELSE ExpectedGlaBackward(in)

Init ==
  /\ input \in Inputs /\ op \in {"forward", "backward"}
  /\ result = Nothing

Return ==
  /\ result = Nothing /\ result' # Nothing
  /\ result' = Expected(op, input)
  /\ UNCHANGED <<input, op>>

Spec == Init /\ [][Return]_vars
=============================================================================
