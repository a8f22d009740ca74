------------------------------- MODULE GlaChunk -------------------------------
(***************************************************************************)
(* The chunk-wise GLA of gla/common.py that the torch workers run on each  *)
(* rank: the local scan, the reconstruction from the boundary state, and   *)
(* the explicit backward, by element.  The backward worker gets these      *)
(* gradients from torch.autograd over the two forward functions; autograd  *)
(* is a library, and gla_chunk_backward is the repository's own account of *)
(* what it returns.  Rank p reads its shard of the input through Token.    *)
(***************************************************************************)
EXTENDS GlaAlgebra

InvMod(x) == CHOOSE y \in 1..(Prime - 1) : (x * y) % Prime = 1

-----------------------------------------------------------------------------
(* Quantities of a chunk that both directions form *)

\* b: cumulative decay within the chunk, inclusive; gamma: its last row.
CumGate(in, p, n, c, i) ==
  LET A(x) == Gate(in, Token(p, n, x), i) IN Product(c + 1, A)
ChunkGamma(in, p, n, i) == CumGate(in, p, n, C - 1, i)

Qt(in, p, n, c, i)     == in.q[Token(p, n, c)][i] * CumGate(in, p, n, c, i)
Kintra(in, p, n, c, i) == in.k[Token(p, n, c)][i] * InvMod(CumGate(in, p, n, c, i))
ToEnd(in, p, n, c, i)  == ChunkGamma(in, p, n, i) * InvMod(CumGate(in, p, n, c, i))
Kstate(in, p, n, c, i) == in.k[Token(p, n, c)][i] * ToEnd(in, p, n, c, i)

Score(in, p, n, c, s) ==
  LET Term(i) == Qt(in, p, n, c, i) * Kintra(in, p, n, s, i)
  IN IF s <= c THEN Total(DK, Term) ELSE 0

\* S and c as the loop over chunks carries them: n chunks have been added.
LocalState(in, p, i, j) ==
  LET S[n \in 0..N] ==
        IF n = 0 THEN 0
        ELSE LET Term(c) == Kstate(in, p, n - 1, c, i) * in.v[Token(p, n - 1, c)][j]
             IN (ChunkGamma(in, p, n - 1, i) * S[n - 1] + Total(C, Term)) % Prime
  IN S

LocalDecay(in, p, n, i) == LET G(m) == ChunkGamma(in, p, m, i) IN Product(n, G)

-----------------------------------------------------------------------------
gla_chunk_scan(in, p) ==
  LET O(n, c, j) == LET Term(s) == Score(in, p, n, c, s) * in.v[Token(p, n, s)][j]
                    IN Total(C, Term)
      End(i, j)  == LocalState(in, p, i, j)[N]
      Prev(n)    == LET E(i, j) == LocalState(in, p, i, j)[n] IN Matrix(Keys, Values, E)
      Intra(n)   == LET E(c, j) == O(n, c, j) IN Matrix(Rows, Values, E)
  IN [S_prev  |-> [n \in Chunks |-> Prev(n)],
      c_prev  |-> [n \in Chunks |-> [i \in Keys |-> LocalDecay(in, p, n, i)]],
      O_intra |-> [n \in Chunks |-> Intra(n)],
      S_total |-> Matrix(Keys, Values, End),
      g_total |-> [i \in Keys |-> LocalDecay(in, p, N, i)]]

\* Mutant: the prefix is not decayed by the chunks before.
HistoryUndecayed(scan, S_recv, n, i, j) == scan.S_prev[n][i][j] + S_recv[i][j]

History(scan, S_recv, n, i, j) == scan.S_prev[n][i][j] + scan.c_prev[n][i] * S_recv[i][j]

gla_reconstruct(in, p, scan, S_recv) ==
  LET O(n) ==
        LET E(c, j) ==
              LET Term(i) == Qt(in, p, n, c, i) * History(scan, S_recv, n, i, j)
              IN Total(DK, Term) + scan.O_intra[n][c][j]
        IN Matrix(Rows, Values, E)
  IN [n \in Chunks |-> O(n)]

-----------------------------------------------------------------------------
(* grad_o: adjoints of the output stage *)

DH(in, p, n, i, j) ==
  LET Term(c) == Qt(in, p, n, c, i) * in.dO[Token(p, n, c)][j] IN Total(C, Term)

DScore(in, p, n, c, s) ==
  LET Term(j) == in.dO[Token(p, n, c)][j] * in.v[Token(p, n, s)][j]
  IN IF s <= c THEN Total(DV, Term) ELSE 0

DQt(in, p, scan, S_recv, n, c, i) ==
  LET Recon(j) == in.dO[Token(p, n, c)][j] * History(scan, S_recv, n, i, j)
      Intra(s) == DScore(in, p, n, c, s) * Kintra(in, p, n, s, i)
  IN Total(DV, Recon) + Total(C, Intra)

DKintra(in, p, n, s, i) ==
  LET Term(c) == DScore(in, p, n, c, s) * Qt(in, p, n, c, i) IN Total(C, Term)

DSRecv(in, p, scan) ==
  LET E(i, j) == LET Term(n) == scan.c_prev[n][i] * DH(in, p, n, i, j) IN Total(N, Term)
  IN Matrix(Keys, Values, E)

(* grad_h: adjoints of the state stage, carried backwards over the chunks *)

DSloc(in, p, dS_total, i, j) ==
  LET d[n \in Chunks] ==
        IF n = N - 1 THEN dS_total[i][j]
        ELSE (ChunkGamma(in, p, n + 1, i) * d[n + 1] + DH(in, p, n + 1, i, j)) % Prime
  IN d

DCvec(in, p, S_recv, dg_total, i) ==
  LET DCprev(n) == LET Term(j) == DH(in, p, n, i, j) * S_recv[i][j] IN Total(DV, Term)
      d[n \in Chunks] ==
        IF n = N - 1 THEN dg_total[i]
        ELSE (ChunkGamma(in, p, n + 1, i) * d[n + 1] + DCprev(n + 1)) % Prime
  IN d

DKstate(in, p, dS_total, n, c, i) ==
  LET Term(j) == in.v[Token(p, n, c)][j] * DSloc(in, p, dS_total, i, j)[n]
  IN Total(DV, Term)

DGamma(in, p, scan, S_recv, dS_total, dg_total, n, i) ==
  LET State(j)  == DSloc(in, p, dS_total, i, j)[n] * scan.S_prev[n][i][j]
      Kstates(c) == DKstate(in, p, dS_total, n, c, i) * in.k[Token(p, n, c)][i]
                      * InvMod(CumGate(in, p, n, c, i))
  IN Total(DV, State) + Total(C, Kstates)
       + DCvec(in, p, S_recv, dg_total, i)[n] * scan.c_prev[n][i]

(* Gate backward: what reaches b, and from b the gates *)

DB(in, p, scan, S_recv, dS_total, dg_total, n, c, i) ==
  LET b == CumGate(in, p, n, c, i)
  IN DQt(in, p, scan, S_recv, n, c, i) * in.q[Token(p, n, c)][i]
       - (DKintra(in, p, n, c, i) * Kintra(in, p, n, c, i)
           + DKstate(in, p, dS_total, n, c, i) * Kstate(in, p, n, c, i)) * InvMod(b)
       + (IF c = C - 1 THEN DGamma(in, p, scan, S_recv, dS_total, dg_total, n, i) ELSE 0)

gla_chunk_backward(in, p, scan, S_recv, dS_total, dg_total) ==
  LET dq(n, c, i) == DQt(in, p, scan, S_recv, n, c, i) * CumGate(in, p, n, c, i)
      dk(n, c, i) == DKintra(in, p, n, c, i) * InvMod(CumGate(in, p, n, c, i))
                       + DKstate(in, p, dS_total, n, c, i) * ToEnd(in, p, n, c, i)
      dv(n, s, j) ==
        LET Intra(c) == Score(in, p, n, c, s) * in.dO[Token(p, n, c)][j]
            State(i) == (Kstate(in, p, n, s, i) % Prime) * DSloc(in, p, dS_total, i, j)[n]
        IN Total(C, Intra) + Total(DK, State)
      dA(n, c, i) ==
        LET Later(x) ==
              IF x < c THEN 0
              ELSE (DB(in, p, scan, S_recv, dS_total, dg_total, n, x, i) % Prime)
                     * CumGate(in, p, n, x, i)
        IN Total(C, Later) * InvMod(Gate(in, Token(p, n, c), i))
      Keyed(F(_, _, _)) == [n \in Chunks |-> LET E(c, i) == F(n, c, i) IN Matrix(Rows, Keys, E)]
  IN [dq |-> Keyed(dq), dk |-> Keyed(dk), dA |-> Keyed(dA),
      dv |-> [n \in Chunks |-> LET E(c, j) == dv(n, c, j) IN Matrix(Rows, Values, E)]]
=============================================================================
