------------------------------ MODULE GlaAlgebra ------------------------------
(***************************************************************************)
(* Gated linear attention, exactly: numbers are the integers modulo Prime. *)
(* A gate is a power of the generator Gen and is given by its logarithm, a *)
(* number modulo Prime - 1, so exp, log and the cumulative sums of gates   *)
(* mean what they mean in the code, and every identity that holds for real *)
(* numbers holds here.  A wrong formula differs on almost every input.     *)
(*                                                                         *)
(* A sequence of T tokens is split over P ranks of N chunks of C tokens.   *)
(***************************************************************************)
EXTENDS Integers

CONSTANTS Prime, Gen, \* the field, and a generator of its nonzero elements
          P, N, C,    \* ranks, chunks of a rank, tokens of a chunk
          DK, DV      \* key and value dimensions

\* The powers of the generator, by exponent.
Powers[x \in 0..(Prime - 2)] == IF x = 0 THEN 1 ELSE (Powers[x - 1] * Gen) % Prime

\* Gen has order Prime - 1: Powers runs through the nonzero elements and is
\* back at 1 one step after its last.
ASSUME FieldAssumption ==
  /\ Prime \in Nat /\ Gen \in 1..(Prime - 1)
  /\ {Powers[x] : x \in 0..(Prime - 2)} = 1..(Prime - 1)
  /\ (Powers[Prime - 2] * Gen) % Prime = 1

ASSUME ShapeAssumption == {P, N, C, DK, DV} \subseteq Nat \ {0}

L      == N * C
T      == P * L
Ranks  == 0..(P - 1)
Chunks == 0..(N - 1)
Rows   == 0..(C - 1)
Keys   == 0..(DK - 1)
Values == 0..(DV - 1)
Tokens == 0..(T - 1)

Token(p, n, c) == p * L + n * C + c

SumOf(n, f) ==
  LET sum[i \in 0..n] == IF i = 0 THEN 0 ELSE (sum[i - 1] + f[i - 1]) % Prime IN sum[n]

ProductOf(n, f) ==
  LET prod[i \in 0..n] == IF i = 0 THEN 1 ELSE (prod[i - 1] * f[i - 1]) % Prime IN prod[n]

Total(n, F(_))   == SumOf(n, [i \in 0..(n - 1) |-> F(i)])
Product(n, F(_)) == ProductOf(n, [i \in 0..(n - 1) |-> F(i)])

Exp(x) == Powers[x % (Prime - 1)]

Matrix(R, S, F(_, _)) == [i \in R |-> [j \in S |-> F(i, j) % Prime]]

\* Tensors by key: one of them, and those of t over those of h.  (The CHOOSE
\* has no choice; it makes TLC evaluate t and h once.)
Named(key, x) == [y \in {key} |-> x]
Merged(pair) ==
  [key \in DOMAIN pair[1] \cup DOMAIN pair[2] |->
     IF key \in DOMAIN pair[1] THEN pair[1][key] ELSE pair[2][key]]
Over(t, h) == CHOOSE f \in {Merged(pair) : pair \in {<<t, h>>}} : TRUE

-----------------------------------------------------------------------------
(* The sequential reference.  An input has queries q, keys k, values v, the *)
(* logarithms g of the gates and the gradient dO of the output, by token.   *)

Gate(in, t, i) == Exp(in.g[t][i])

\* S_t = diag(a_t) S_(t-1) + k_t^T v_t, element (i, j) of it for every t.
RunningState(in, i, j) ==
  LET S[t \in -1..(T - 1)] ==
        IF t = -1 THEN 0
        ELSE (Gate(in, t, i) * S[t - 1] + in.k[t][i] * in.v[t][j]) % Prime
  IN S

ExpectedGla(in) ==
  LET O(t, j) == LET Term(i) == in.q[t][i] * RunningState(in, i, j)[t] IN Total(DK, Term)
  IN Matrix(Tokens, Values, O)

\* dS_t = q_t^T dO_t + diag(a_(t+1)) dS_(t+1)
AdjointState(in, i, j) ==
  LET dS[t \in 0..T] ==
        IF t = T THEN 0
        ELSE (in.q[t][i] * in.dO[t][j]
                + (IF t = T - 1 THEN 0 ELSE Gate(in, t + 1, i) * dS[t + 1])) % Prime
  IN dS

ExpectedGlaBackward(in) ==
  LET dQ(t, i) == LET Term(j) == RunningState(in, i, j)[t] * in.dO[t][j] IN Total(DV, Term)
      dK(t, i) == LET Term(j) == AdjointState(in, i, j)[t] * in.v[t][j] IN Total(DV, Term)
      dV(t, j) == LET Term(i) == in.k[t][i] * AdjointState(in, i, j)[t] IN Total(DK, Term)
      dA(t, i) ==
        LET Term(j) == AdjointState(in, i, j)[t] * RunningState(in, i, j)[t - 1]
        IN Total(DV, Term)
  IN [dq |-> Matrix(Tokens, Keys, dQ), dk |-> Matrix(Tokens, Keys, dK),
      dv |-> Matrix(Tokens, Values, dV), dA |-> Matrix(Tokens, Keys, dA)]
=============================================================================
