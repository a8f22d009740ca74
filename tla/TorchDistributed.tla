--------------------------- MODULE TorchDistributed ---------------------------
(***************************************************************************)
(* The torch.distributed baselines: a parent spawns one gloo process per   *)
(* rank, the ranks exchange boundary states by blocking send and recv, and *)
(* the parent collects one result per rank from a queue.  The program is   *)
(* one of the four baselines:                                              *)
(*                                                                         *)
(*   allscan, allscan_backward    allscan/implementations/torch_ref.py     *)
(*   zeco, zeco_backward          gla/implementations/torch_ref.py         *)
(*                                                                         *)
(* The two AllScan rings run block by block over the rows of the state,    *)
(* the ZeCO rings with the whole state as one block.  A blocking send      *)
(* returns when its message has been received, and may return before, when *)
(* gloo has buffered it; nothing says that it will.                        *)
(***************************************************************************)
EXTENDS GlaChunk, Sequences, FiniteSets

CONSTANTS Programs, Inputs,
          MaxCrashes \* bound on workers that raise

ASSUME ProgramAssumption ==
  Programs \subseteq {"allscan", "allscan_backward", "zeco", "zeco_backward"}

ASSUME InputAssumption ==
  \A in \in Inputs :
    /\ {in.q, in.k, in.g} \subseteq [Tokens -> [Keys -> Int]]
    /\ {in.v, in.dO} \subseteq [Tokens -> [Values -> Int]]

VARIABLES
  program, input,
  at,        \* by rank, the position in the program
  sending,   \* by rank, whether its send has not returned
  net,       \* by link <<from, to>>, messages not yet received, in order
  got,       \* by rank, what the worker has computed or received
  queue,     \* results put and not yet taken by the parent
  collected, \* the parent's results by rank
  raised     \* workers that have raised

vars == <<program, input, at, sending, net, got, queue, collected, raised>>

-----------------------------------------------------------------------------
(* Programs: steps <<action, what, block>> *)

\* Mutant: the loop over blocks receives and sends in opposite orders.
ForwardRingSwapped(blocks) ==
  [i \in 1..(2 * blocks) |-> IF i % 2 = 1 THEN <<"recv", "prefix", i \div 2>>
                             ELSE <<"send", "prefix", blocks - i \div 2>>]

\* Recv before send, block by block: a chain from the first rank up.
ForwardRing(blocks) ==
  [i \in 1..(2 * blocks) |-> IF i % 2 = 1 THEN <<"recv", "prefix", i \div 2>>
                             ELSE <<"send", "prefix", i \div 2 - 1>>]

\* The same from the last rank down.
BackwardRing(blocks) ==
  [i \in 1..(2 * blocks) |-> IF i % 2 = 1 THEN <<"recv", "adjoint", i \div 2>>
                             ELSE <<"send", "adjoint", i \div 2 - 1>>]

\* The forward ring, the gradients of the states handed on, the reverse ring.
ForwardAndBackward ==
  <<<<"recv", "prefix", 0>>, <<"send", "prefix", 0>>,
    <<"recv", "g_out", 0>>, <<"send", "g_out", 0>>,
    <<"recv", "adjoint", 0>>, <<"send", "adjoint", 0>>>>

PutResult == <<"put", "result", 0>>

Blocks(prog) == IF prog \in {"allscan", "allscan_backward"} THEN DK ELSE 1

Script(prog) ==
  Append(CASE prog \in {"allscan", "zeco"} -> ForwardRing(Blocks(prog))
           [] prog = "allscan_backward"    -> BackwardRing(Blocks(prog))
           [] prog = "zeco_backward"       -> ForwardAndBackward,
         PutResult)

BlockRows(k) == IF Blocks(program) = 1 THEN Keys ELSE {k}

-----------------------------------------------------------------------------
(* What a worker has, by name *)

Zero == [i \in Keys |-> [j \in Values |-> 0]]

\* Upstream gradients of the AllScan baseline: any values do.
MakeGradInputs(in, p) ==
  LET E(i, j) == in.k[p * L][i] * in.dO[p * L][j] IN Matrix(Keys, Values, E)

\* expected_allscan and expected_allscan_backward, on the ranks' scans: row i
\* and column j of out[p] and of d[p], for every p.
Out(scan, i, j) ==
  LET out[p \in Ranks] ==
        (scan[p].S_total[i][j] + (IF p = 0 THEN 0 ELSE scan[p].g_total[i] * out[p - 1])) % Prime
  IN out

Adjoint(scan, g_out, i, j) ==
  LET d[p \in Ranks] ==
        (g_out[p][i][j] + (IF p = P - 1 THEN 0 ELSE scan[p + 1].g_total[i] * d[p + 1])) % Prime
  IN d

ExpectedAllScan(scan) == [p \in Ranks |-> [i \in Keys |-> [j \in Values |-> Out(scan, i, j)[p]]]]

ExpectedState(scan, g_out) ==
  [p \in Ranks |-> [i \in Keys |-> [j \in Values |-> Adjoint(scan, g_out, i, j)[p]]]]

ExpectedDecay(dS, fwd_recv) ==
  [p \in Ranks |-> [i \in Keys |->
     IF p = 0 THEN 0
     ELSE LET Term(j) == dS[p][i][j] * fwd_recv[p][i][j] IN Total(DV, Term)]]

FwdRecv(scan) == [p \in Ranks |-> IF p = 0 THEN Zero ELSE ExpectedAllScan(scan)[p - 1]]

\* The worker has scanned its shard before the first communication.
Fresh(prog, in) ==
  LET scan == [p \in Ranks |-> gla_chunk_scan(in, p)]
  IN [p \in Ranks |->
       [scan    |-> scan[p],
        prefix  |-> IF prog = "allscan_backward" THEN FwdRecv(scan)[p] ELSE Zero,
        g_out   |-> IF prog = "allscan_backward" THEN MakeGradInputs(in, p) ELSE Zero,
        adjoint |-> Zero]]

\* d[p], rows of it as they are formed from the adjoint received.
D(have, i, j) == (have.g_out[i][j] + have.adjoint[i][j]) % Prime

Outgoing(p, what, k) ==
  LET E(i, j) ==
        CASE what = "prefix"  -> got[p].scan.S_total[i][j] + got[p].scan.g_total[i] * got[p].prefix[i][j]
          [] what = "g_out"   -> DSRecv(input, p, got[p].scan)[i][j]
          [] what = "adjoint" -> got[p].scan.g_total[i] * D(got[p], i, j)
  IN Matrix(BlockRows(k), Values, E)

\* What rank p puts on the queue, from what it has.
Result(prog, in, p, have) ==
  LET scan == have.scan
      send == LET E(i, j) == scan.S_total[i][j] + scan.g_total[i] * have.prefix[i][j]
              IN Matrix(Keys, Values, E)
      dS   == [i \in Keys |-> [j \in Values |-> D(have, i, j)]]
      dgamma == [i \in Keys |-> LET Term(j) == dS[i][j] * have.prefix[i][j]
                                IN IF p = 0 THEN 0 ELSE Total(DV, Term)]
  IN CASE prog = "allscan"          -> send
       [] prog = "allscan_backward" -> <<dS, dgamma>>
       [] prog = "zeco"             -> gla_reconstruct(in, p, scan, have.prefix)
       [] prog = "zeco_backward"    -> gla_chunk_backward(in, p, scan, have.prefix, dS, dgamma)

-----------------------------------------------------------------------------
(* Actions *)

Step(p) == Script(program)[at[p]]
Running(p) == p \notin raised /\ at[p] <= Len(Script(program))

\* The neighbour a step of p talks to; the prefix goes up, the rest down.
Up(what) == what = "prefix"
Source(p, what) == IF Up(what) THEN p - 1 ELSE p + 1

\* Mutant: the last rank of the ring sends on to the first.
TargetWrapped(p, what) == IF Up(what) THEN (p + 1) % P ELSE p - 1

Target(p, what) == IF Up(what) THEN p + 1 ELSE p - 1

Advance(p) == at' = [at EXCEPT ![p] = @ + 1]

\* The first rank of a chain has nobody to receive from, the last to send to.
Skip(p) ==
  /\ Running(p) /\ ~sending[p]
  /\ \/ Step(p)[1] = "recv" /\ Source(p, Step(p)[2]) \notin Ranks
     \/ Step(p)[1] = "send" /\ Target(p, Step(p)[2]) \notin Ranks
  /\ Advance(p)
  /\ UNCHANGED <<program, input, sending, net, got, queue, collected, raised>>

\* A message is received into the rows of a tensor that it names.
Overwrite(block, tensor) ==
  [i \in DOMAIN tensor |-> IF i \in DOMAIN block THEN block[i] ELSE tensor[i]]

Recv(p) ==
  /\ Running(p) /\ Step(p)[1] = "recv" /\ Source(p, Step(p)[2]) \in Ranks
  /\ LET what == Step(p)[2]
         link == <<Source(p, what), p>>
     IN /\ net[link] # <<>>
        /\ got' = [got EXCEPT ![p][what] = Overwrite(Head(net[link]).data, @)]
        /\ net' = [net EXCEPT ![link] = Tail(@)]
  /\ Advance(p)
  /\ UNCHANGED <<program, input, sending, queue, collected, raised>>

Send(p) ==
  /\ Running(p) /\ ~sending[p] /\ Step(p)[1] = "send" /\ Target(p, Step(p)[2]) \in Ranks
  /\ LET what == Step(p)[2]
     IN net' = [net EXCEPT ![<<p, Target(p, what)>>] =
                  Append(@, [what |-> what, data |-> Outgoing(p, what, Step(p)[3])])]
  /\ sending' = [sending EXCEPT ![p] = TRUE]
  /\ UNCHANGED <<program, input, at, got, queue, collected, raised>>

SendReturns(p) ==
  /\ Running(p) /\ sending[p]
  /\ sending' = [sending EXCEPT ![p] = FALSE]
  /\ Advance(p)
  /\ UNCHANGED <<program, input, net, got, queue, collected, raised>>

Received(p) == net[<<p, Target(p, Step(p)[2])>>] = <<>>

Put(p) ==
  /\ Running(p) /\ Step(p)[1] = "put"
  /\ queue' = queue \cup {<<p, Result(program, input, p, got[p])>>}
  /\ Advance(p)
  /\ UNCHANGED <<program, input, sending, net, got, collected, raised>>

Collect ==
  \E result \in queue :
    /\ queue' = queue \ {result}
    /\ collected' = [p \in DOMAIN collected \cup {result[1]} |->
                      IF p = result[1] THEN result[2] ELSE collected[p]]
    /\ UNCHANGED <<program, input, at, sending, net, got, raised>>

Raise(p) ==
  /\ Running(p) /\ Cardinality(raised) < MaxCrashes
  /\ raised' = raised \cup {p}
  /\ UNCHANGED <<program, input, at, sending, net, got, queue, collected>>

\* gloo closes the connections of a worker that raised: a recv or send that
\* still waits for it raises in turn.
PeerLost(p) ==
  /\ Running(p) /\ Step(p)[1] \in {"recv", "send"}
  /\ \/ Step(p)[1] = "recv" /\ Source(p, Step(p)[2]) \in raised
                            /\ net[<<Source(p, Step(p)[2]), p>>] = <<>>
     \/ Step(p)[1] = "send" /\ Target(p, Step(p)[2]) \in raised
  /\ raised' = raised \cup {p}
  /\ UNCHANGED <<program, input, at, sending, net, got, queue, collected>>

\* The parent takes P results and joins the workers.
Returned == DOMAIN collected = Ranks /\ \A p \in Ranks : ~Running(p)

Init ==
  /\ program \in Programs /\ input \in Inputs
  /\ at = [p \in Ranks |-> 1] /\ sending = [p \in Ranks |-> FALSE]
  /\ net = [link \in Ranks \X Ranks |-> <<>>]
  /\ got = Fresh(program, input)
  /\ queue = {} /\ collected = <<>> /\ raised = {}

Next ==
  \/ Collect
  \/ \E p \in Ranks : Skip(p) \/ Recv(p) \/ Send(p) \/ SendReturns(p) \/ Put(p)
                       \/ Raise(p) \/ PeerLost(p)

Spec == Init /\ [][Next]_vars

\* A process runs; a send surely returns only when its message is received.
FairSpec ==
  /\ Spec /\ WF_vars(Collect)
  /\ \A p \in Ranks :
       WF_vars(Skip(p) \/ Recv(p) \/ Send(p) \/ Put(p) \/ PeerLost(p) \/ (SendReturns(p) /\ Received(p)))

-----------------------------------------------------------------------------
(* Inductive invariant.  Every script is a series of exchanges, a recv and   *)
(* then a send of the same block; the first Ups of them go up the chain.     *)

Exchanges == CASE program \in {"allscan", "allscan_backward"} -> DK
               [] program = "zeco"                            -> 1
               [] program = "zeco_backward"                   -> 3
Ups == CASE program = "allscan"                   -> DK
         [] program = "allscan_backward"          -> 0
         [] program \in {"zeco", "zeco_backward"} -> 1

What(e)  == Script(program)[2 * e][2]
Block(e) == Script(program)[2 * e][3]
Sent(p, e) == Outgoing(p, What(e), Block(e))

\* Exchanges whose recv, and whose send, p has behind it or under way.
Taken(p)  == IF at[p] > 2 * Exchanges THEN Exchanges ELSE at[p] \div 2
Posted(p) == (at[p] - 1) \div 2 + (IF sending[p] THEN 1 ELSE 0)

\* The last of the exchanges up to n that p makes with its neighbour q.
Upto(p, q, n) == IF q = p + 1 THEN (IF n < Ups THEN n ELSE Ups) ELSE (IF n > Ups THEN n ELSE Ups)

\* The link from p to q holds exchanges first + 1 to last, what p has for them.
Mail(p, q, first, last) ==
  /\ first <= last
  /\ net[<<p, q>>] = [m \in 1..(last - first) |->
       [what |-> What(first + m), data |-> Sent(p, first + m)]]

InvPlaces ==
  /\ program \in Programs /\ input \in Inputs
  /\ at \in [Ranks -> 1..(2 * Exchanges + 2)] /\ sending \in [Ranks -> BOOLEAN]
  /\ DOMAIN net = Ranks \X Ranks /\ DOMAIN got = Ranks
  /\ \A p \in Ranks :
       /\ DOMAIN got[p] = {"scan", "prefix", "g_out", "adjoint"}
       /\ \A what \in {"prefix", "g_out", "adjoint"} : DOMAIN got[p][what] = Keys
  /\ \A p \in Ranks :
       sending[p] => /\ at[p] \in {2 * e : e \in 1..Exchanges}
                     /\ Target(p, What(at[p] \div 2)) \in Ranks

InvMail ==
  \A p, q \in Ranks :
    q \in {p - 1, p + 1} => Mail(p, q, Upto(p, q, Taken(q)), Upto(p, q, Posted(p)))

\* What a worker has of an exchange is what its neighbour has for it, and the
\* end of the chain has what it started with.
InvGot ==
  \A q \in Ranks :
    /\ got[q].scan = Fresh(program, input)[q].scan
    /\ \A e \in 1..Exchanges : LET p == Source(q, What(e)) IN
         IF p \in Ranks /\ e <= Taken(q)
         THEN \A i \in BlockRows(Block(e)) : got[q][What(e)][i] = Sent(p, e)[i]
         ELSE \A i \in BlockRows(Block(e)) : got[q][What(e)][i] = Zero[i]
    /\ \A what \in {"prefix", "g_out", "adjoint"} \ {What(e) : e \in 1..Exchanges} :
         got[q][what] = Fresh(program, input)[q][what]

Owed(p) == Result(program, input, p, got[p])

InvResults ==
  /\ \A x \in queue : x[1] \in Ranks /\ at[x[1]] = 2 * Exchanges + 2 /\ x[2] = Owed(x[1])
  /\ \A p \in DOMAIN collected :
       p \in Ranks /\ at[p] = 2 * Exchanges + 2 /\ collected[p] = Owed(p)

TorchInv == InvPlaces /\ InvMail /\ InvGot /\ InvResults

-----------------------------------------------------------------------------
(* Properties *)

\* Point-to-point messages carry no tag: what a recv takes off its link is
\* nevertheless what it was posted for.
MessagesInStep ==
  \A p \in Ranks :
    Running(p) /\ Step(p)[1] = "recv" /\ Source(p, Step(p)[2]) \in Ranks =>
      LET mail == net[<<Source(p, Step(p)[2]), p>>]
      IN mail # <<>> => Head(mail).what = Step(p)[2] /\ DOMAIN Head(mail).data = BlockRows(Step(p)[3])

\* Chunk n of rank p of a reference over the whole sequence.
Shard(expected, p) == [n \in Chunks |-> [c \in Rows |-> expected[Token(p, n, c)]]]

\* What the parent has collected is what the sequential reference computes.
CollectedIsReference ==
  LET scan     == [p \in Ranks |-> got[p].scan]
      grads    == [p \in Ranks |-> got[p].g_out]
      dS       == ExpectedState(scan, grads)
      backward == ExpectedGlaBackward(input)
  IN \A p \in DOMAIN collected :
       collected[p] =
         CASE program = "allscan"          -> ExpectedAllScan(scan)[p]
           [] program = "allscan_backward" -> <<dS[p], ExpectedDecay(dS, FwdRecv(scan))[p]>>
           [] program = "zeco"             -> Shard(ExpectedGla(input), p)
           [] program = "zeco_backward"    ->
                [name \in {"dq", "dk", "dv", "dA"} |-> Shard(backward[name], p)]

\* No worker blocks for ever on another one, not even on one that raised.
WorkersStop == <>(\A p \in Ranks : ~Running(p))

\* run_distributed and its three siblings return an exit code: whatever a
\* worker does, says their docstring ...
RunReturns == <>Returned

\* ... and when no worker raises, whatever the order of the messages.
ReturnsUnlessRaised == <>(Returned \/ raised # {})
=============================================================================
