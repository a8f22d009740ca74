---------------------------- MODULE ScanAlgebra ----------------------------
(***************************************************************************)
(* The tensor arithmetic of the AllScan collective, kept symbolic.         *)
(*                                                                         *)
(* One block of rank p's [dk, dv] state is a linear combination of the     *)
(* blocks the caller passed in.  A value is therefore the set of its       *)
(* terms; a term <<x, D>> stands for  (product of gamma[d], d \in D) * S[x] *)
(* where x and the members of D identify input blocks                      *)
(*     <<call, buffer, rank, block>>.                                      *)
(* The zero tensor is the empty set.  Two different calls (or two heads)   *)
(* have different identifiers, so a block left over from an earlier call   *)
(* never equals the block it should have been.                             *)
(***************************************************************************)
EXTENDS Integers

InputId(c, b, p, k) == <<c, b, p, k>>

Zero == {}

\* The block the caller passed in, with no decay applied.
Leaf(x) == {<<x, {}>>}

\* gamma[x] * v, the per-row broadcast product TROWEXPANDMUL computes.
Decay(x, v) == {<<t[1], t[2] \cup {x}>> : t \in v}

\* S_local + gamma * recv
Fuse(x, v) == Leaf(x) \cup Decay(x, v)

(***************************************************************************)
(* The scan in closed form: out[p] is the sum over q <= p of S_local[q]    *)
(* decayed by the gammas of the ranks q+1 .. p, each exactly once.         *)
(***************************************************************************)
Scan(c, b, p, k) ==
  {<<InputId(c, b, q, k), {InputId(c, b, j, k) : j \in (q + 1)..p}>> : q \in 0..p}
=============================================================================
