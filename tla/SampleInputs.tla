----------------------------- MODULE SampleInputs -----------------------------
(***************************************************************************)
(* Inputs for the runs over GLA: pseudo-random tensors without structure,  *)
(* one input for each seed.                                                *)
(***************************************************************************)
EXTENDS GlaAlgebra

Scramble(seed, tensor, t, i) ==
  LET x == 31 * seed + 17 * tensor + 7 * t + 3 * i + 5
  IN x * x * x + x * x * tensor + (x \div 4)

Random(seed, tensor, Columns, modulus) ==
  [t \in Tokens |-> [i \in Columns |-> Scramble(seed, tensor, t, i) % modulus]]

RandomInput(seed) ==
  [q |-> Random(seed, 1, Keys, Prime), k |-> Random(seed, 2, Keys, Prime),
   v |-> Random(seed, 3, Values, Prime), g |-> Random(seed, 4, Keys, Prime - 1),
   dO |-> Random(seed, 5, Values, Prime)]

TwoInputs == {RandomInput(seed) : seed \in 1..2}
OneInput  == {RandomInput(1)}
=============================================================================
