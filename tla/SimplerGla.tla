------------------------------ MODULE SimplerGla ------------------------------
(***************************************************************************)
(* SimplerZeCo.forward and .backward of the simpler backend: what the host *)
(* computes, what the five orchestrations compute chunk by chunk on each   *)
(* rank, and in which orders their tasks may run.  SimplerZeCo is about    *)
(* who holds the devices meanwhile, SimplerCore about the inside of a      *)
(* task, AllScanRing and AllScanBackward about the boundary exchange.      *)
(*                                                                         *)
(* An orchestration submits, for every chunk, a sequence of tasks.  The    *)
(* runtime starts a task when the tasks that produce its operands are done *)
(* and keeps at most Window tasks in flight behind the oldest unfinished   *)
(* one (a bound of this model).                                            *)
(***************************************************************************)
EXTENDS GlaAlgebra, FiniteSetsExt, Sequences

CONSTANTS Inputs, \* the inputs considered
          Ops,    \* the operations called: "forward", "backward"
          Window

VARIABLES
  input, op, \* the call
  at,        \* the position of the host in its script
  done,      \* tasks <<chunk, index>> of the current run that are done
  heap       \* tensors by <<name, rank, chunk>>; chunk 0 when not chunked

vars == <<input, op, at, done, heap>>

-----------------------------------------------------------------------------
(* Incore kernels: operands to results *)

MatMul(mode, a, b) ==
  LET l(i, x) == IF mode = "TN" THEN a[x][i] ELSE a[i][x]
      r(x, j) == IF mode = "NT" THEN b[j][x] ELSE b[x][j]
      inner   == IF mode = "TN" THEN DOMAIN a ELSE DOMAIN a[0]
      Entry(i, j) == LET Term(x) == l(i, x) * r(x, j) IN Total(Max(inner) + 1, Term)
  IN Matrix(IF mode = "TN" THEN DOMAIN a[0] ELSE DOMAIN a,
            IF mode = "NT" THEN DOMAIN b ELSE DOMAIN b[0], Entry)

\* tril @ g or triu @ g; logarithms of gates add modulo Prime - 1.
GateCumsum(kind, g, modulus) ==
  [c \in Rows |-> [i \in Keys |->
     LET sum[x \in 0..C] ==
           IF x = 0 THEN 0
           ELSE (sum[x - 1] + (IF IF kind = "tril" THEN x - 1 <= c ELSE x - 1 >= c
                               THEN g[x - 1][i] ELSE 0)) % modulus
     IN sum[C]]]

Rest(g_cs, c, i) == Exp(g_cs[C - 1][i] - g_cs[c][i])

PrepH(g_cs, k) ==
  LET k_rest(c, i) == k[c][i] * Rest(g_cs, c, i)
  IN <<Matrix(Rows, Keys, k_rest), [i \in Keys |-> Exp(g_cs[C - 1][i])]>>

\* <<S, s_snap>>; the first chunk does not read S, which is uninitialised.
Update(first, KV, decay, S) ==
  LET Zero(i, j) == 0
      Advanced(i, j) == decay[i] * S[i][j] + KV[i][j]
  IN IF first THEN <<KV, Matrix(Keys, Values, Zero)>> ELSE <<Matrix(Keys, Values, Advanced), S>>

PrepO(q, k, g_cs) ==
  LET q_eff(c, i) == q[c][i] * Exp(g_cs[c][i])
      k_eff(c, i) == k[c][i] * Exp(-g_cs[c][i])
  IN <<Matrix(Rows, Keys, q_eff), Matrix(Rows, Keys, k_eff)>>

Add(a, b) == LET Sum(i, j) == a[i][j] + b[i][j] IN Matrix(DOMAIN a, DOMAIN a[0], Sum)

\* The product with the lower triangle of ones.
Mask(a) == LET Masked(i, j) == IF j <= i THEN a[i][j] ELSE 0 IN Matrix(Rows, Rows, Masked)

Results(task, n, x) ==
  CASE task.kernel = "MM"     -> <<MatMul(task.mode, x[1], x[2])>>
    [] task.kernel = "CUMSUM" ->
         <<GateCumsum(task.mode, x[1], IF task.mode = "tril" THEN Prime - 1 ELSE Prime)>>
    [] task.kernel = "PREP_H" -> PrepH(x[1], x[2])
    [] task.kernel = "UPDATE" -> Update(n = 0, x[1], x[2], x[3])
    [] task.kernel = "PREP_O" -> PrepO(x[1], x[2], x[3])
    [] task.kernel = "ELT"    -> IF task.mode = "mul" THEN <<Mask(x[1])>> ELSE <<Add(x[1], x[2])>>

-----------------------------------------------------------------------------
(* Orchestrations: the tasks submitted for a chunk *)

Task(kernel, mode, in, out) == [kernel |-> kernel, mode |-> mode, in |-> in, out |-> out]
MM(mode, a, b, c)  == Task("MM", mode, <<a, b>>, <<c>>)
Masked(a, c)       == Task("ELT", "mul", <<a>>, <<c>>)
Added(a, b, c)     == Task("ELT", "add", <<a, b>>, <<c>>)
PrepareO           == Task("PREP_O", "", <<"q", "k", "g_cs">>, <<"q_eff", "k_eff">>)
PrepareH           == Task("PREP_H", "", <<"g_cs", "k">>, <<"k_rest", "decay">>)

CumsumOrch        == <<Task("CUMSUM", "tril", <<"g">>, <<"g_cs">>)>>
ReverseCumsumOrch == <<Task("CUMSUM", "triu", <<"dgcs">>, <<"dP">>)>>

\* S is INOUT: the update of a chunk also reads what the previous one wrote.
ChunkHOrch ==
  <<PrepareH, MM("TN", "k_rest", "v", "KV"),
    Task("UPDATE", "", <<"KV", "decay", "S">>, <<"S", "s_snap">>)>>

ChunkOOrch ==
  <<PrepareO, MM("NN", "q_eff", "snap", "inter"), MM("NT", "q_eff", "k_eff", "aqk"),
    Masked("aqk", "aqkm"), MM("NN", "aqkm", "v", "intra"), Added("inter", "intra", "o")>>

GradOOrch ==
  <<PrepareO, MM("NT", "q_eff", "k_eff", "aqk"), Masked("aqk", "scores"),
    MM("TN", "q_eff", "dO", "dH"), MM("NT", "dO", "v", "dsc_raw"), Masked("dsc_raw", "dsc"),
    MM("NT", "dO", "snap", "dqt_recon"), MM("NN", "dsc", "k_eff", "dqt_intra"),
    Added("dqt_recon", "dqt_intra", "dQt"), MM("TN", "dsc", "q_eff", "dKin"),
    MM("TN", "scores", "dO", "dVi")>>

GradHOrch ==
  <<PrepareH, MM("NT", "v", "dSloc", "dKstate"), MM("NN", "k_rest", "dSloc", "dVs")>>

Orchestration(stage) ==
  CASE stage = "gate_cumsum"    -> CumsumOrch
    [] stage = "chunk_h"        -> ChunkHOrch
    [] stage = "chunk_o"        -> ChunkOOrch
    [] stage = "grad_o"         -> GradOOrch
    [] stage = "grad_h"         -> GradHOrch
    [] stage = "reverse_cumsum" -> ReverseCumsumOrch

Runs == {"gate_cumsum", "chunk_h", "chunk_o", "grad_o", "grad_h", "reverse_cumsum"}

\* Tensors allocated inside an orchestration; its scope frees them.
Temporaries ==
  {"k_rest", "decay", "KV", "S", "q_eff", "k_eff", "inter", "aqk", "aqkm", "intra",
   "scores", "dsc_raw", "dsc", "dqt_recon", "dqt_intra"}

-----------------------------------------------------------------------------
(* The script of the host: <<stage, rank>> in order *)

EachRank(stages) ==
  [x \in 1..(P * Len(stages)) |->
     <<stages[((x - 1) % Len(stages)) + 1], (x - 1) \div Len(stages)>>]

Stage1 == EachRank(<<"gate_cumsum", "chunk_h", "S_total">>)

Script(o) ==
  IF o = "forward"
  THEN Stage1 \o <<<<"boundary", 0>>>> \o EachRank(<<"shift_snaps", "chunk_o">>)
  ELSE Stage1 \o <<<<"boundary", 0>>>> \o EachRank(<<"shift_snaps", "grad_o", "gate_o">>)
         \o <<<<"boundary_backward", 0>>>>
         \o EachRank(<<"recurrence", "grad_h", "gate_h", "reverse_cumsum", "gate_grad">>)

Ended == at > Len(Script(op))
Stage == Script(op)[at][1]
Rank  == Script(op)[at][2]

-----------------------------------------------------------------------------
(* Host glue, in terms of the heap *)

Tensor(name, n) == heap[<<name, Rank, n>>]
Perform(stage, tensors) ==
  /\ ~Ended /\ Stage = stage
  /\ heap' = Over(tensors, heap) /\ at' = at + 1
  /\ UNCHANGED <<input, op, done>>

Chunked(name, p, F(_)) == [key \in {<<name, p, n>> : n \in Chunks} |-> F(key[3])]
ByRank(name, F(_))     == [key \in {<<name, p, 0>> : p \in Ranks} |-> F(key[2])]

\* Mutant: the snapshot is not advanced through the last chunk.
S_totalStale(g_cs, k, v, s_snap) == s_snap

S_total(g_cs, k, v, s_snap) ==
  LET End(i, j) ==
        LET Term(c) == k[c][i] * Rest(g_cs, c, i) * v[c][j]
        IN Exp(g_cs[C - 1][i]) * s_snap[i][j] + Total(C, Term)
  IN Matrix(Keys, Values, End)

STotal ==
  Perform("S_total",
    Named(<<"S_total", Rank, 0>>,
      S_total(Tensor("g_cs", N - 1), Tensor("k", N - 1), Tensor("v", N - 1),
              Tensor("s_snap", N - 1))))

ChunkGate(p, n, i) == LET A(c) == Exp(heap[<<"g", p, n>>][c][i]) IN Product(C, A)
RankGate(p, i)     == LET A(n) == ChunkGate(p, n, i) IN Product(N, A)

\* Mutant: the decay of chunk n itself is included.
BeforeInclusive(p, n, i) == LET A(m) == ChunkGate(p, m, i) IN Product(n + 1, A)

\* The decay of the chunks of the rank before n, from A and from g_cs.
Before(p, n, i) == LET A(m) == ChunkGate(p, m, i) IN Product(n, A)
Gamma(n, i) == Exp(Tensor("g_cs", n)[C - 1][i])
CPrev(n, i) == LET G(m) == Gamma(m, i) IN Product(n, G)

\* The collective of AllScan, element by element.
Boundary ==
  LET Out(p) ==
        LET Entry(i, j) ==
              LET out[r \in Ranks] ==
                    (heap[<<"S_total", r, 0>>][i][j]
                       + (IF r = 0 THEN 0 ELSE RankGate(r, i) * out[r - 1])) % Prime
              IN out[p]
        IN Matrix(Keys, Values, Entry)
      Zero(i, j) == 0
      Recv(p) == IF p = 0 THEN Matrix(Keys, Values, Zero) ELSE Out(p - 1)
  IN Perform("boundary", ByRank("S_recv", Recv))

ShiftSnaps ==
  LET Fold(n) ==
        LET Entry(i, j) ==
              Tensor("s_snap", n)[i][j] + Before(Rank, n, i) * Tensor("S_recv", 0)[i][j]
        IN Matrix(Keys, Values, Entry)
  IN Perform("shift_snaps", Chunked("snap", Rank, Fold))

GateO ==
  LET dq(n)   == LET E(c, i) == Tensor("dQt", n)[c][i] * Exp(Tensor("g_cs", n)[c][i])
                 IN Matrix(Rows, Keys, E)
      dk_o(n) == LET E(c, i) == Tensor("dKin", n)[c][i] * Exp(-Tensor("g_cs", n)[c][i])
                 IN Matrix(Rows, Keys, E)
      dgcs(n) == LET E(c, i) == dq(n)[c][i] * Tensor("q", n)[c][i]
                                  - dk_o(n)[c][i] * Tensor("k", n)[c][i]
                 IN Matrix(Rows, Keys, E)
      dv(n)   == Tensor("dVi", n)
      dcprev(n) == [i \in Keys |->
                      LET Term(j) == Tensor("dH", n)[i][j] * Tensor("S_recv", 0)[i][j]
                      IN Total(DV, Term)]
      dS_recv(i, j) == LET Term(n) == CPrev(n, i) * Tensor("dH", n)[i][j] IN Total(N, Term)
  IN Perform("gate_o",
       Over(Chunked("dq", Rank, dq), Over(Chunked("dk_o", Rank, dk_o),
       Over(Chunked("dgcs_o", Rank, dgcs), Over(Chunked("dv", Rank, dv),
       Over(Chunked("dcprev", Rank, dcprev),
            Named(<<"dS_recv", Rank, 0>>, Matrix(Keys, Values, dS_recv))))))))

\* What rank p hands to the reverse ring is the gradient of what p + 1 received.
GOut(p, i, j) == IF p = P - 1 THEN 0 ELSE heap[<<"dS_recv", p + 1, 0>>][i][j]

BoundaryBackward ==
  LET dS(p, i, j) ==
        LET ds[r \in Ranks] ==
              (GOut(r, i, j) + (IF r = P - 1 THEN 0 ELSE RankGate(r + 1, i) * ds[r + 1])) % Prime
        IN ds[p]
      dS_total(p) == LET E(i, j) == dS(p, i, j) IN Matrix(Keys, Values, E)
      dgamma(p) ==
        [i \in Keys |->
           LET Term(j) == dS(p, i, j) * heap[<<"S_recv", p, 0>>][i][j] IN Total(DV, Term)]
  IN Perform("boundary_backward", Over(ByRank("dS_total", dS_total), ByRank("dgamma", dgamma)))

\* The reverse recurrence over the chunks of a rank.
Recurrence ==
  LET dSloc(n) ==
        LET E(i, j) ==
              LET cur[m \in Chunks] ==
                    IF m = N - 1 THEN Tensor("dS_total", 0)[i][j]
                    ELSE (Gamma(m + 1, i) * cur[m + 1] + Tensor("dH", m + 1)[i][j]) % Prime
              IN cur[n]
        IN Matrix(Keys, Values, E)
      dcvec(n) ==
        [i \in Keys |->
           LET cur[m \in Chunks] ==
                 IF m = N - 1 THEN Tensor("dgamma", 0)[i]
                 ELSE (Gamma(m + 1, i) * cur[m + 1] + Tensor("dcprev", m + 1)[i]) % Prime
           IN cur[n]]
  IN Perform("recurrence", Over(Chunked("dSloc", Rank, dSloc), Chunked("dcvec", Rank, dcvec)))

GateH ==
  LET dkh(n, c, i) == Tensor("dKstate", n)[c][i] * Rest(Tensor("g_cs", n), c, i)
      dk(n) == LET E(c, i) == Tensor("dk_o", n)[c][i] + dkh(n, c, i) IN Matrix(Rows, Keys, E)
      dv(n) == Add(Tensor("dv", n), Tensor("dVs", n))
      dgamma_state(n, i) ==
        LET Term(j) == Tensor("dSloc", n)[i][j] * Tensor("s_snap", n)[i][j] IN Total(DV, Term)
      dgamma_c(n, i) == Tensor("dcvec", n)[i] * CPrev(n, i)
      Correction(n, i) ==
        LET Term(c) == dkh(n, c, i) * Tensor("k", n)[c][i]
        IN (dgamma_state(n, i) + dgamma_c(n, i)) * Gamma(n, i) + Total(C, Term)
      dgcs(n) ==
        LET E(c, i) == Tensor("dgcs_o", n)[c][i] - dkh(n, c, i) * Tensor("k", n)[c][i]
                         + (IF c = C - 1 THEN Correction(n, i) ELSE 0)
        IN Matrix(Rows, Keys, E)
  IN Perform("gate_h",
       Over(Chunked("dk", Rank, dk), Over(Chunked("dv", Rank, dv), Chunked("dgcs", Rank, dgcs))))

GateGrad ==
  LET dA(n) == LET E(c, i) == Tensor("dP", n)[c][i] * Exp(-Tensor("g", n)[c][i])
               IN Matrix(Rows, Keys, E)
  IN Perform("gate_grad", Chunked("dA", Rank, dA))

-----------------------------------------------------------------------------
(* Tasks *)

Body      == Orchestration(Stage)
Submitted == Chunks \X DOMAIN Body
Order(t)  == t[1] * Len(Body) + t[2]
Key(name, n) == <<name, Rank, IF name = "S" THEN 0 ELSE n>>

Reads(t)  == {Key(Body[t[2]].in[i], t[1]) : i \in DOMAIN Body[t[2]].in}
Writes(t) == {Key(Body[t[2]].out[i], t[1]) : i \in DOMAIN Body[t[2]].out}

\* Mutant: a task that updates a tensor in place waits for itself.
ReadyAfterSelf(t) ==
  \A e \in Submitted \ done :
    /\ Order(t) < Order(e) + Window
    /\ Order(e) <= Order(t) => Writes(e) \cap Reads(t) = {}

Ready(t) ==
  \A e \in Submitted \ done :
    /\ Order(t) < Order(e) + Window
    /\ Order(e) < Order(t) => Writes(e) \cap Reads(t) = {}

\* A tensor that nothing has written yet is allocated and not cleared.
Uninitialised == [i \in Keys |-> [j \in Values |-> 1]]
Operand(key)  == IF key \in DOMAIN heap THEN heap[key] ELSE Uninitialised

RunTask(t) ==
  LET task    == Body[t[2]]
      results == Results(task, t[1], [i \in DOMAIN task.in |-> Operand(Key(task.in[i], t[1]))])
  IN /\ t \notin done /\ Ready(t)
     /\ done' = done \cup {t}
     /\ heap' = Over([key \in Writes(t) |->
                        results[CHOOSE i \in DOMAIN task.out : Key(task.out[i], t[1]) = key]],
                     heap)
     /\ UNCHANGED <<input, op, at>>

EndRun ==
  /\ done = Submitted
  /\ done' = {} /\ at' = at + 1
  /\ heap' = [key \in {x \in DOMAIN heap : x[1] \notin Temporaries} |-> heap[key]]
  /\ UNCHANGED <<input, op>>

OnDevice == ~Ended /\ Stage \in Runs /\ (EndRun \/ \E t \in Submitted : RunTask(t))

OnHost ==
  \/ STotal \/ Boundary \/ ShiftSnaps \/ GateO \/ BoundaryBackward
  \/ Recurrence \/ GateH \/ GateGrad

\* Rank p holds the tokens p * L .. (p + 1) * L - 1.
Shard(in) ==
  [key \in {"q", "k", "v", "g", "dO"} \X Ranks \X Chunks |->
     [c \in Rows |-> in[key[1]][Token(key[2], key[3], c)]]]

Init ==
  /\ input \in Inputs /\ op \in Ops
  /\ at = 1 /\ done = {} /\ heap = Shard(input)

Next == OnDevice \/ OnHost

Spec == Init /\ [][Next]_vars

-----------------------------------------------------------------------------
(* Properties *)

Defined(name, p) == <<name, p, 0>> \in DOMAIN heap

\* What the boundary exchange gives a rank is the state that sequential GLA
\* has at the start of the rank's tokens, and backward the gradient with
\* respect to the state at their end.
BoundaryIsState ==
  \A p \in Ranks, i \in Keys, j \in Values :
    /\ Defined("S_recv", p) =>
         heap[<<"S_recv", p, 0>>][i][j] = RunningState(input, i, j)[p * L - 1]
    /\ Defined("dS_total", p) =>
         heap[<<"dS_total", p, 0>>][i][j] =
           IF p = P - 1 THEN 0
           ELSE (Gate(input, (p + 1) * L, i) * AdjointState(input, i, j)[(p + 1) * L]) % Prime

\* A folded snapshot is the state that sequential GLA has before its chunk.
SnapshotsAreStates ==
  \A p \in Ranks : Defined("snap", p) =>
    \A n \in Chunks, i \in Keys, j \in Values :
      heap[<<"snap", p, n>>][i][j] = RunningState(input, i, j)[Token(p, n, 0) - 1]
=============================================================================
