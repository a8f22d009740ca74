------------------------------- MODULE PyptoGla -------------------------------
(***************************************************************************)
(* What the fused programs of the "pypto" backend compute.                 *)
(*                                                                         *)
(*   forward   fused_program.py: stage1, forward ring, stage2              *)
(*   backward  fused_backward_program.py: recompute, forward ring, grad_o, *)
(*             reverse ring, grad_h                                        *)
(*   carried   b4_pad_program.py, the backward before it was blocked: the  *)
(*             kernels carry their states through one pass over the chunks *)
(*                                                                         *)
(* Each has a P = 1 program of its own without rings.  No kernel holds a   *)
(* whole state: the key dimension is walked in nb blocks, the value        *)
(* dimension in nv and the rows of a chunk in nc, each reduction in the    *)
(* order that leaves its result in a tile, and states are rebuilt from     *)
(* what the first kernel recorded.                                         *)
(*                                                                         *)
(* A device runs its dispatches one after the other (PyptoDispatch says    *)
(* when), ranks at their own speed, the rings block by block.              *)
(***************************************************************************)
EXTENDS GlaAlgebra, Sequences

CONSTANTS Inputs,
          Programs, \* [op |-> forward, backward or carried, ranks |-> 1 or P]
          Plans     \* blockings [nb, nv, nc] and ring depth k

ASSUME PlanAssumption ==
  /\ \A program \in Programs :
       program.op \in {"forward", "backward", "carried"} /\ program.ranks \in {1, P}
  /\ \A plan \in Plans :
       /\ {plan.nb, plan.nv, plan.nc, plan.k} \subseteq Nat \ {0}
       /\ DK % plan.nb = 0 /\ DV % plan.nv = 0 /\ C % plan.nc = 0 /\ DK % plan.k = 0

VARIABLES
  input, program, plan,
  at, blk,        \* by rank: position in the script, block of the ring
  heap,           \* tensors by <<name, rank>>
  window, signal  \* by <<direction, rank>>: rows received; by <<direction, rank, block>>

vars == <<input, program, plan, at, blk, heap, window, signal>>

-----------------------------------------------------------------------------
(* Tensors *)

Devices == 0..(program.ranks - 1)
PerRank == (P * N) \div program.ranks
Slice   == 0..(PerRank - 1)
TokenAt(r, n, c) == (r * PerRank + n) * C + c

Arg(name, r, n, c, i) == input[name][TokenAt(r, n, c)][i]
Load(name, r)         == heap[<<name, r>>]

Inverse(x)     == CHOOSE y \in 1..(Prime - 1) : (x * y) % Prime = 1
Quotient(x, y) == x * Inverse(y)

ByChunk(R, S, F(_, _, _)) ==
  [n \in Slice |-> LET G(i, j) == F(n, i, j) IN Matrix(R, S, G)]
Vectors(F(_, _)) == [n \in Slice |-> [i \in Keys |-> F(n, i) % Prime]]

\* Mutant: blocks are placed by their number, not their size.
BlockedUnscaled(d, pieces, F) ==
  LET size == d \div pieces
      acc[x \in 0..d] ==
        IF x = 0 THEN 0 ELSE acc[x - 1] + F[((x - 1) \div size) + ((x - 1) % size)]
  IN acc[d]

\* A reduction of d terms, block after block.
Blocked(d, pieces, F) ==
  LET size == d \div pieces
      acc[x \in 0..d] ==
        IF x = 0 THEN 0 ELSE acc[x - 1] + F[((x - 1) \div size) * size + ((x - 1) % size)]
  IN acc[d]

-----------------------------------------------------------------------------
(* stage1 and recompute: walk the slice from S = 0 and record the walk *)

\* b = exp(tril @ log A) within a chunk, blocked over its rows.
WithinDecay(r, p, n, c, i) ==
  LET La[x \in Rows] == IF x <= c THEN Arg("g", r, n, x, i) ELSE 0 IN Exp(Blocked(C, p.nc, La))

\* exp(col_sum(log A)), the decay of a chunk.
ChunkDecay(r, n, i) == LET La[x \in Rows] == Arg("g", r, n, x, i) IN Exp(Blocked(C, 1, La))

DecayBefore(r, i) ==
  LET g[n \in 0..PerRank] ==
        IF n = 0 THEN 1 ELSE (g[n - 1] * ChunkDecay(r, n - 1, i)) % Prime
  IN g

\* Mutant: the chunk's own update is decayed once less.
LocalStateLate(r, p, i, j) ==
  LET KV(n) ==
        LET Term[x \in Rows] ==
              Quotient(Arg("k", r, n, x, i), WithinDecay(r, p, n, x, i)) * Arg("v", r, n, x, j)
        IN Blocked(C, p.nc, Term)
      S[n \in 0..PerRank] ==
        IF n = 0 THEN 0 ELSE (ChunkDecay(r, n - 1, i) * S[n - 1] + KV(n - 1)) % Prime
  IN S

\* S = gamma * (S + (K / b)^T @ V)
LocalState(r, p, i, j) ==
  LET KV(n) ==
        LET Term[x \in Rows] ==
              Quotient(Arg("k", r, n, x, i), WithinDecay(r, p, n, x, i)) * Arg("v", r, n, x, j)
        IN Blocked(C, p.nc, Term)
      S[n \in 0..PerRank] ==
        IF n = 0 THEN 0 ELSE (ChunkDecay(r, n - 1, i) * (S[n - 1] + KV(n - 1))) % Prime
  IN S

Walk(r, p, decays) ==
  LET Snap(n, i, j) == LocalState(r, p, i, j)[n]
      End(i, j)     == LocalState(r, p, i, j)[PerRank]
      Decay(n, i)   == DecayBefore(r, i)[n]
  IN Over(Named(<<"Ssnap", r>>, ByChunk(Keys, Values, Snap)),
     Over(Named(<<decays, r>>, Vectors(Decay)),
          Named(<<"Stot", r>>, Matrix(Keys, Values, End))))

Stage1(r) == Walk(r, plan, "Gsnap")

\* The backward also records b, which its other kernels only load.
Recompute(r) ==
  LET B(n, c, i) == WithinDecay(r, plan, n, c, i)
  IN Over(Walk(r, plan, "Cprev"), Named(<<"Bs", r>>, ByChunk(Rows, Keys, B)))

\* A kernel that is not blocked.
Whole == [nb |-> 1, nv |-> 1, nc |-> 1]

CarriedRecompute(r) == Walk(r, Whole, "Cprev")

-----------------------------------------------------------------------------
(* stage2 *)

\* Rank 0 has no predecessor.
Boundary(r, i, j) == IF r = 0 THEN 0 ELSE Load("Srecv", r)[i][j]

\* The state before chunk n: linear in the boundary, so rebuilt, not carried.
Rebuilt(decays, r, n, i, j) ==
  Load(decays, r)[n][i] * Boundary(r, i, j) + Load("Ssnap", r)[n][i][j]

\* The mask is elementwise: applied to the scores of each block of keys, it
\* distributes over their sum.
Stage2(r) ==
  LET b(n, c, i)  == WithinDecay(r, plan, n, c, i)
      qt(n, c, i) == Arg("q", r, n, c, i) * b(n, c, i)
      kb(n, x, i) == Quotient(Arg("k", r, n, x, i), b(n, x, i))
      O(n, c, j)  ==
        LET OfKey[i \in Keys] ==
              LET Intra[x \in Rows] ==
                    IF x <= c THEN qt(n, c, i) * kb(n, x, i) * Arg("v", r, n, x, j) ELSE 0
              IN (qt(n, c, i) * Rebuilt("Gsnap", r, n, i, j) + Blocked(C, plan.nc, Intra)) % Prime
        IN Blocked(DK, plan.nb, OfKey)
  IN Named(<<"O", r>>, ByChunk(Rows, Values, O))

-----------------------------------------------------------------------------
(* grad_o: three passes, each ordered for its own reduction *)

Scores(r, p, b, n, c, x) ==
  LET Term[i \in Keys] ==
        Arg("q", r, n, c, i) * b[n][c][i] * Quotient(Arg("k", r, n, x, i), b[n][x][i])
  IN IF x <= c THEN Blocked(DK, p.nb, Term) ELSE 0

\* dsc = (dO @ V^T) under the mask
ScoreGrad(r, p, n, c, x) ==
  LET Term[j \in Values] == Arg("dO", r, n, c, j) * Arg("v", r, n, x, j)
  IN IF x <= c THEN Blocked(DV, p.nv, Term) ELSE 0

QueryGrad(r, p, b, n, c, i) ==
  LET State[j \in Values] == Arg("dO", r, n, c, j) * Rebuilt("Cprev", r, n, i, j)
      Intra[x \in Rows] == ScoreGrad(r, p, n, c, x) * Quotient(Arg("k", r, n, x, i), b[n][x][i])
  IN (Blocked(DV, p.nv, State) + Blocked(C, p.nc, Intra)) * b[n][c][i]

OutputKeyGrad(r, p, b, n, x, i) ==
  LET Term[c \in Rows] == ScoreGrad(r, p, n, c, x) * Arg("q", r, n, c, i) * b[n][c][i]
  IN Quotient(Blocked(C, 1, Term) % Prime, b[n][x][i])

\* dH_n = (Q b)^T @ dO
StateGrad(r, b, n, i, j) ==
  LET Term[c \in Rows] == Arg("q", r, n, c, i) * b[n][c][i] * Arg("dO", r, n, c, j)
  IN Blocked(C, 1, Term) % Prime

OutputAdjoints(r, p, b) ==
  LET dQ(n, c, i)    == QueryGrad(r, p, b, n, c, i)
      dKo(n, c, i)   == OutputKeyGrad(r, p, b, n, c, i)
      dgcs(n, c, i)  == dQ(n, c, i) * Arg("q", r, n, c, i) - dKo(n, c, i) * Arg("k", r, n, c, i)
      dH(n, i, j)    == StateGrad(r, b, n, i, j)
      dCp(n, i)      == LET Term[j \in Values] == dH(n, i, j) * Boundary(r, i, j)
                        IN Blocked(DV, p.nv, Term)
      dVo(n, x, j)   == LET Term[c \in Rows] == Scores(r, p, b, n, c, x) * Arg("dO", r, n, c, j)
                        IN Blocked(C, 1, Term)
      dSrecv(i, j)   == LET Term(n) == dH(n, i, j) * Load("Cprev", r)[n][i] IN Total(PerRank, Term)
  IN Over(Named(<<"dQ", r>>, ByChunk(Rows, Keys, dQ)),
     Over(Named(<<"dKo", r>>, ByChunk(Rows, Keys, dKo)),
     Over(Named(<<"dgcso", r>>, ByChunk(Rows, Keys, dgcs)),
     Over(Named(<<"dH", r>>, ByChunk(Keys, Values, dH)),
     Over(Named(<<"dCp", r>>, Vectors(dCp)),
     Over(Named(<<"dVo", r>>, ByChunk(Rows, Values, dVo)),
          Named(<<"dSrecv", r>>, Matrix(Keys, Values, dSrecv))))))))

GradO(r) == OutputAdjoints(r, plan, Load("Bs", r))

\* Here b is computed again, from A.
Decays(r)       == LET B(n, c, i) == WithinDecay(r, Whole, n, c, i) IN ByChunk(Rows, Keys, B)
CarriedGradO(r) == OutputAdjoints(r, Whole, Decays(r))

-----------------------------------------------------------------------------
(* grad_h: the reverse walk, recorded; then what reads it *)

\* The ends of the reverse ring, and P = 1, start from zeros.
StateEnd(r, i, j) == IF program.ranks = 1 THEN 0 ELSE Load("dStot", r)[i][j]
DecayEnd(r, i)    == IF program.ranks = 1 THEN 0 ELSE Load("dgam", r)[i]

\* gamma_n * d_(n + 1), where d_n = gamma_n * d_(n + 1) + added_n
ReverseWalk(r, i, end, added) ==
  LET d[n \in 0..PerRank] ==
        IF n = PerRank THEN end ELSE (ChunkDecay(r, n, i) * d[n + 1] + added[n]) % Prime
  IN [n \in Slice |-> (ChunkDecay(r, n, i) * d[n + 1]) % Prime]

WalkAdjoints(r) ==
  LET dSl(n, i, j) ==
        ReverseWalk(r, i, StateEnd(r, i, j), [m \in Slice |-> Load("dH", r)[m][i][j]])[n]
      dCv(n, i) == ReverseWalk(r, i, DecayEnd(r, i), [m \in Slice |-> Load("dCp", r)[m][i]])[n]
  IN Over(Named(<<"dSl", r>>, ByChunk(Keys, Values, dSl)), Named(<<"dCv", r>>, Vectors(dCv)))

\* dK_h = (V @ dSl^T) / b
StateKeyGrad(r, p, b, dSl, n, c, i) ==
  LET Term[j \in Values] == Arg("v", r, n, c, j) * dSl[n][i][j]
  IN Quotient(Blocked(DV, p.nv, Term) % Prime, b[n][c][i])

\* The last row of a chunk is at or after every row of it: its correction is
\* the same constant for all of them, added after the reverse cumulative sum.
GateGrad(r, p, b, dSl, dCv, n, c, i) ==
  LET dkk[x \in Rows]  == StateKeyGrad(r, p, b, dSl, n, x, i) * Arg("k", r, n, x, i)
      dgcs[x \in Rows] == IF x >= c THEN Load("dgcso", r)[n][x][i] - dkk[x] ELSE 0
      c1[j \in Values] == dSl[n][i][j] * Load("Ssnap", r)[n][i][j]
      corr == Blocked(DV, p.nv, c1) + dCv[n][i] * Load("Cprev", r)[n][i] + Blocked(C, 1, dkk)
  IN Quotient((Blocked(C, p.nc, dgcs) + corr) % Prime, Exp(Arg("g", r, n, c, i)))

StateAdjoints(r, p, b, dSl, dCv) ==
  LET dA(n, c, i) == GateGrad(r, p, b, dSl, dCv, n, c, i)
      dK(n, c, i) == Load("dKo", r)[n][c][i] + StateKeyGrad(r, p, b, dSl, n, c, i)
      dV(n, c, j) ==
        LET Term[i \in Keys] == Quotient(Arg("k", r, n, c, i), b[n][c][i]) * dSl[n][i][j]
        IN Load("dVo", r)[n][c][j] + Blocked(DK, p.nb, Term)
  IN Over(Named(<<"dA", r>>, ByChunk(Rows, Keys, dA)),
     Over(Named(<<"dK", r>>, ByChunk(Rows, Keys, dK)),
          Named(<<"dV", r>>, ByChunk(Rows, Values, dV))))

GradH(r) ==
  LET walk == WalkAdjoints(r)
  IN Over(walk, StateAdjoints(r, plan, Load("Bs", r), walk[<<"dSl", r>>], walk[<<"dCv", r>>]))

\* The walk is carried from chunk to chunk and never stored.
CarriedGradH(r) ==
  LET walk == WalkAdjoints(r)
  IN StateAdjoints(r, Whole, Decays(r), walk[<<"dSl", r>>], walk[<<"dCv", r>>])

-----------------------------------------------------------------------------
(* The P = 1 programs write the same kernels out again. *)

Stage1P1(r)           == Stage1(r)
Stage2P1(r)           == Stage2(r)
RecomputeP1(r)        == Recompute(r)
GradOP1(r)            == GradO(r)
GradHP1(r)            == GradH(r)
CarriedRecomputeP1(r) == CarriedRecompute(r)
CarriedGradOP1(r)     == CarriedGradO(r)
CarriedGradHP1(r)     == CarriedGradH(r)

-----------------------------------------------------------------------------
(* The programs *)

ForwardStep(r) == IF r = 0 THEN "first" ELSE IF r = P - 1 THEN "last" ELSE "middle"
ReverseStep(r) == IF r = P - 1 THEN "source" ELSE IF r = 0 THEN "terminal" ELSE "bwd_middle"

FusedForward(r)    == <<"stage1", ForwardStep(r), "stage2">>
FusedForwardP1     == <<"stage1", "stage2">>
FusedBackward(r)   == <<"recompute", ForwardStep(r), "grad_o", ReverseStep(r), "grad_h">>
FusedBackwardP1    == <<"recompute", "grad_o", "grad_h">>
CarriedBackward(r) ==
  <<"carried_recompute", ForwardStep(r), "carried_grad_o", ReverseStep(r), "carried_grad_h">>
CarriedBackwardP1  == <<"carried_recompute", "carried_grad_o", "carried_grad_h">>

Script(r) ==
  CASE program.op = "forward"  -> IF program.ranks = 1 THEN FusedForwardP1 ELSE FusedForward(r)
    [] program.op = "backward" -> IF program.ranks = 1 THEN FusedBackwardP1 ELSE FusedBackward(r)
    [] program.op = "carried"  ->
         IF program.ranks = 1 THEN CarriedBackwardP1 ELSE CarriedBackward(r)

Kernels == {"stage1", "stage2", "recompute", "grad_o", "grad_h",
            "carried_recompute", "carried_grad_o", "carried_grad_h"}

Results(kernel, r) ==
  CASE kernel = "stage1"            -> Stage1(r)
    [] kernel = "stage2"            -> Stage2(r)
    [] kernel = "recompute"         -> Recompute(r)
    [] kernel = "grad_o"            -> GradO(r)
    [] kernel = "grad_h"            -> GradH(r)
    [] kernel = "carried_recompute" -> CarriedRecompute(r)
    [] kernel = "carried_grad_o"    -> CarriedGradO(r)
    [] kernel = "carried_grad_h"    -> CarriedGradH(r)

ResultsP1(kernel, r) ==
  CASE kernel = "stage1"            -> Stage1P1(r)
    [] kernel = "stage2"            -> Stage2P1(r)
    [] kernel = "recompute"         -> RecomputeP1(r)
    [] kernel = "grad_o"            -> GradOP1(r)
    [] kernel = "grad_h"            -> GradHP1(r)
    [] kernel = "carried_recompute" -> CarriedRecomputeP1(r)
    [] kernel = "carried_grad_o"    -> CarriedGradOP1(r)
    [] kernel = "carried_grad_h"    -> CarriedGradHP1(r)

Running(r) == IF at[r] <= Len(Script(r)) THEN Script(r)[at[r]] ELSE "ended"

Kernel(r) ==
  /\ Running(r) \in Kernels
  /\ heap' = Over(IF program.ranks = 1 THEN ResultsP1(Running(r), r) ELSE Results(Running(r), r),
                  heap)
  /\ at' = [at EXCEPT ![r] = @ + 1]
  /\ UNCHANGED <<input, program, plan, blk, window, signal>>

-----------------------------------------------------------------------------
(* The rings, one block of rows at a time *)

\* gammas[r], the product of the gates of the slice, comes from the host.
Gamma(r, i) == LET A(n) == ChunkDecay(r, n, i) IN Product(PerRank, A)

BlockRows(kk) == LET size == DK \div plan.k IN (kk * size)..(kk * size + size - 1)

Tile(kk, F(_, _))   == [i \in BlockRows(kk) |-> [j \in Values |-> F(i, j) % Prime]]
Column(kk, F(_))    == [i \in BlockRows(kk) |-> F(i) % Prime]
Stored(name, r, rows) ==
  Named(<<name, r>>, Over(rows, IF <<name, r>> \in DOMAIN heap THEN heap[<<name, r>>] ELSE <<>>))

Received(direction, r, i, j) == window[<<direction, r>>][i][j]
Arrived(direction, r)        == signal[<<direction, r, blk[r]>>] >= 1

\* remote_store and notify
Send(direction, r, peer, F(_, _)) ==
  /\ window' = [window EXCEPT ![<<direction, peer>>] = Over(Tile(blk[r], F), @)]
  /\ signal' = [signal EXCEPT ![<<direction, peer, blk[r]>>] = @ + 1]

Keep == UNCHANGED <<window, signal>>

NextBlock(r) ==
  /\ IF blk[r] = plan.k - 1
       THEN at' = [at EXCEPT ![r] = @ + 1] /\ blk' = [blk EXCEPT ![r] = 0]
       ELSE blk' = [blk EXCEPT ![r] = @ + 1] /\ UNCHANGED at
  /\ UNCHANGED <<input, program, plan>>

First(r) ==
  LET Out(i, j) == Load("Stot", r)[i][j]
  IN /\ Running(r) = "first"
     /\ heap' = Over(Stored("S_out", r, Tile(blk[r], Out)), heap)
     /\ Send("forward", r, r + 1, Out) /\ NextBlock(r)

\* The boundary is all a middle rank keeps; its own out only travels on.
Middle(r) ==
  LET Recv(i, j) == Received("forward", r, i, j)
      Out(i, j)  == Load("Stot", r)[i][j] + Gamma(r, i) * Recv(i, j)
  IN /\ Running(r) = "middle" /\ Arrived("forward", r)
     /\ heap' = Over(Stored("Srecv", r, Tile(blk[r], Recv)), heap)
     /\ Send("forward", r, r + 1, Out) /\ NextBlock(r)

Last(r) ==
  LET Recv(i, j) == Received("forward", r, i, j)
  IN /\ Running(r) = "last" /\ Arrived("forward", r)
     /\ heap' = Over(Stored("Srecv", r, Tile(blk[r], Recv)), heap)
     /\ Keep /\ NextBlock(r)

\* out[P - 1] feeds nothing: d = 0, and the message is the rank's own dSrecv.
Source(r) ==
  LET Nil(i, j) == 0
      Row(i)    == 0
      Msg(i, j) == Load("dSrecv", r)[i][j]
  IN /\ Running(r) = "source"
     /\ heap' = Over(Stored("dStot", r, Tile(blk[r], Nil)),
                  Over(Stored("dgam", r, Column(blk[r], Row)), heap))
     /\ Send("reverse", r, r - 1, Msg) /\ NextBlock(r)

\* Mutant: the message leaves out what its own rank received.
BwdMiddleAlone(r) ==
  LET d(i, j)   == Received("reverse", r, i, j)
      Msg(i, j) == Load("dSrecv", r)[i][j]
      dgam(i)   == LET Term(j) == d(i, j) * Boundary(r, i, j) IN Total(DV, Term)
  IN /\ Running(r) = "bwd_middle" /\ Arrived("reverse", r)
     /\ heap' = Over(Stored("dStot", r, Tile(blk[r], d)),
                  Over(Stored("dgam", r, Column(blk[r], dgam)), heap))
     /\ Send("reverse", r, r - 1, Msg) /\ NextBlock(r)

\* The received block is d[r]: nothing is added to it.
BwdMiddle(r) ==
  LET d(i, j)   == Received("reverse", r, i, j)
      Msg(i, j) == Load("dSrecv", r)[i][j] + Gamma(r, i) * d(i, j)
      dgam(i)   == LET Term(j) == d(i, j) * Boundary(r, i, j) IN Total(DV, Term)
  IN /\ Running(r) = "bwd_middle" /\ Arrived("reverse", r)
     /\ heap' = Over(Stored("dStot", r, Tile(blk[r], d)),
                  Over(Stored("dgam", r, Column(blk[r], dgam)), heap))
     /\ Send("reverse", r, r - 1, Msg) /\ NextBlock(r)

Terminal(r) ==
  LET d(i, j) == Received("reverse", r, i, j)
      Row(i)  == 0
  IN /\ Running(r) = "terminal" /\ Arrived("reverse", r)
     /\ heap' = Over(Stored("dStot", r, Tile(blk[r], d)),
                  Over(Stored("dgam", r, Column(blk[r], Row)), heap))
     /\ Keep /\ NextBlock(r)

ForwardRing(r) == First(r) \/ Middle(r) \/ Last(r)
ReverseRing(r) == Source(r) \/ BwdMiddle(r) \/ Terminal(r)

Init ==
  /\ input \in Inputs /\ program \in Programs /\ plan \in Plans
  /\ at = [r \in Devices |-> 1] /\ blk = [r \in Devices |-> 0]
  /\ heap = <<>>
  /\ window = [w \in {"forward", "reverse"} \X Devices |-> <<>>]
  /\ signal = [s \in {"forward", "reverse"} \X Devices \X (0..(plan.k - 1)) |-> 0]

Next == \E r \in Devices : Kernel(r) \/ ForwardRing(r) \/ ReverseRing(r)

Spec == Init /\ [][Next]_vars

-----------------------------------------------------------------------------
(* Properties *)

Has(name, r) == <<name, r>> \in DOMAIN heap

StateBefore(r, n, i, j) == RunningState(input, i, j)[TokenAt(r, n, 0) - 1]

\* The gradient of the state after chunk n of rank r, before any decay.
AdjointAfter(r, n, i, j) ==
  LET t == TokenAt(r, n, C - 1) + 1
  IN IF t = T THEN 0 ELSE (Gate(input, t, i) * AdjointState(input, i, j)[t]) % Prime

\* What the first kernel recorded from a zero state, and the boundary that
\* arrives later, rebuild the state sequential GLA has before every chunk.
RebuiltIsState ==
  \A r \in Devices, decays \in {"Gsnap", "Cprev"} :
    Has(decays, r) /\ at[r] > (IF program.ranks = 1 THEN 1 ELSE 2) =>
      \A n \in Slice, i \in Keys, j \in Values :
        Rebuilt(decays, r, n, i, j) % Prime = StateBefore(r, n, i, j)

\* A message of the reverse ring is the gradient of the state its receiver
\* ends with, and the recorded walk is that of the states between chunks,
\* decayed once more.
WalkIsAdjoint ==
  \A r \in Devices, i \in Keys, j \in Values :
    /\ program.ranks > 1 => \A kk \in 0..(plan.k - 1) :
         signal[<<"reverse", r, kk>>] >= 1 /\ i \in BlockRows(kk) =>
           Received("reverse", r, i, j) = AdjointAfter(r, PerRank - 1, i, j)
    /\ Has("dSl", r) => \A n \in Slice :
         Load("dSl", r)[n][i][j] = (ChunkDecay(r, n, i) * AdjointAfter(r, n, i, j)) % Prime

Ended == \A r \in Devices : Running(r) = "ended"
=============================================================================
