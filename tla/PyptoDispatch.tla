---------------------------- MODULE PyptoDispatch ----------------------------
(***************************************************************************)
(* The scheduler that runs the distributed pypto programs (PyptoPrograms). *)
(*                                                                         *)
(* host_orch submits its dispatches in program order, but a dispatch is    *)
(* ordered after another only by the tensors it names.  Windows name       *)
(* none: unless the code generator threads an ordering token through the   *)
(* dispatches of a rank that touch a window, nothing orders a wait after   *)
(* the send its own rank still owes.  A dispatch is routed to the FIFO of  *)
(* its device once its producers have completed; a device runs one         *)
(* dispatch at a time, in FIFO order.                                      *)
(*                                                                         *)
(* What a compute dispatch computes is kept symbolic: its result names     *)
(* the dispatch and everything it read.                                    *)
(***************************************************************************)
EXTENDS ScanAlgebra, PyptoPrograms

CONSTANTS Cases,     \* <<program, whether comm dispatches carry a token>>
          MaxCalls   \* bound on the number of calls explored

ASSUME DispatchAssumption ==
  /\ Cases \subseteq Programs \X BOOLEAN
  /\ MaxCalls \in Nat

VARIABLES
  program, tokens,   \* the prepared program, and how it was compiled
  calls, active,     \* calls made; whether one is under way
  tensors,           \* host-visible tensors <<name, ring, rank>>
  window, sig,       \* receive blocks and signals <<pair, ring, rank, block>>
  submitted, done,   \* dispatches handed to the scheduler, and completed
  fifo, running,     \* per device: routed dispatches, and the one it executes
  pc, blk, tile      \* per device: position in that dispatch, received block

hostVars == <<program, tokens, calls, active>>
winVars  == <<window, sig>>
vars == <<hostVars, tensors, winVars, submitted, done, fifo, running, pc, blk, tile>>

Nobody     == <<>>
Collective == program \in Collectives
Rings      == RingsOf[program]
Blocks     == BlocksOf[program]
Tasks      == TasksOf[program]
Names      == NamesOf[program]
Staged     == StagedOf(program)
Outputs    == OutputsOf(program)

In(p, t)   == Body[p][t[2]][t[3]]
Does(t)    == In(program, t)
Touches(d) == d.wait # None \/ d.send # None

-----------------------------------------------------------------------------
(* Dependencies: producers of the tensors a dispatch names *)

\* Mutant: the tokens of all ranks are slices of one allocation, one identity.
TokenShared(case, t) == IF case[2] /\ Touches(In(case[1], t)) THEN {<<"token", 0, 0>>} ELSE {}

\* The token of a rank, INOUT on its dispatches that touch a window.
Token(case, t) == IF case[2] /\ Touches(In(case[1], t)) THEN {<<"token", 0, t[2]>>} ELSE {}

Named(t, names) == {<<n, t[1], t[2]>> : n \in names}
Outs(case, t)   == Named(t, In(case[1], t).writes) \cup Token(case, t)
Ins(case, t)    == Named(t, In(case[1], t).reads) \cup Outs(case, t)

Producers ==
  [case \in Cases |-> [t \in TasksOf[case[1]] |->
     {u \in TasksOf[case[1]] : Before(u, t) /\ Outs(case, u) \cap Ins(case, t) # {}}]]

ReadyNow(t) == Producers[<<program, tokens>>][t] \subseteq done

Elements(q) == {q[i] : i \in DOMAIN q}
Distinct(q) == \A i, j \in DOMAIN q : q[i] = q[j] => i = j
Routed  == done \cup UNION {Elements(fifo[r]) \cup {running[r]} : r \in Ranks}
Pending == submitted \ Routed
Append1(t) == fifo' = [fifo EXCEPT ![t[2]] = Append(@, t)]

-----------------------------------------------------------------------------
(* Contents *)

Blank(p) == [k \in BlocksOf[p] |-> Zero]

\* The tensor n of rank r that a dispatch of call c makes of what it read.
Made(p, n, c, r, read) == [k \in BlocksOf[p] |-> Leaf(<<n, c, r, k, read>>)]

NothingRead == <<>>

Keys == Names \X Rings \X Ranks
WindowCells == {"forward", "reverse"} \X Rings \X Ranks \X Blocks

Init ==
  /\ \E case \in Cases : program = case[1] /\ tokens = case[2]
  /\ calls = 0 /\ active = FALSE
  /\ tensors = [x \in Keys |-> Blank(program)]
  /\ window = [c \in WindowCells |-> Zero]
  /\ sig = [c \in WindowCells |-> 0]
  /\ submitted = {} /\ done = {}
  /\ fifo = [r \in Ranks |-> <<>>]
  /\ running = [r \in Ranks |-> Nobody]
  /\ pc = [r \in Ranks |-> "idle"]
  /\ blk = [r \in Ranks |-> 0]
  /\ tile = [r \in Ranks |-> Zero]

-----------------------------------------------------------------------------
(* The host *)

\* A call stages the inputs in place, zeroes the outputs and dispatches the
\* program on a newly allocated comm domain.  Intermediates keep what the last
\* call left in them.  out_prev of rank 0 is zero.
StartCall ==
  /\ ~active
  /\ calls < MaxCalls
  /\ calls' = calls + 1
  /\ active' = TRUE
  /\ tensors' = [x \in Keys |->
       IF x[1] \in Outputs \/ (x[1] = "out_prev" /\ x[3] = 0) THEN Blank(program)
       ELSE IF x[1] \in Staged THEN Made(program, x[1], calls + 1, x[3], NothingRead)
       ELSE tensors[x]]
  /\ window' = [c \in WindowCells |-> Zero]
  /\ sig' = [c \in WindowCells |-> 0]
  /\ submitted' = {} /\ done' = {}
  /\ UNCHANGED <<program, tokens, fifo, running, pc, blk, tile>>

\* A dispatch whose producers have completed is routed as it is submitted.
Submit(t) ==
  /\ active
  /\ \A u \in Tasks : Before(u, t) => u \in submitted
  /\ submitted' = submitted \cup {t}
  /\ IF ReadyNow(t) THEN Append1(t) ELSE UNCHANGED fifo
  /\ UNCHANGED <<hostVars, tensors, winVars, done, running, pc, blk, tile>>

\* The completion of its last producer routes a dispatch submitted earlier.
Release(t) ==
  /\ ReadyNow(t)
  /\ Append1(t)
  /\ UNCHANGED <<hostVars, tensors, winVars, submitted, done, running, pc, blk, tile>>

Return ==
  /\ active
  /\ done = Tasks
  /\ active' = FALSE
  /\ UNCHANGED <<program, tokens, calls, tensors, winVars, submitted, done, fifo,
                 running, pc, blk, tile>>

-----------------------------------------------------------------------------
(* Device r *)

Idle(r) ==
  /\ running' = [running EXCEPT ![r] = Nobody]
  /\ pc' = [pc EXCEPT ![r] = "idle"]
  /\ done' = done \cup {running[r]}

Dispatch(r) ==
  /\ running[r] = Nobody
  /\ fifo[r] # <<>>
  /\ running' = [running EXCEPT ![r] = Head(fifo[r])]
  /\ fifo' = [fifo EXCEPT ![r] = Tail(@)]
  /\ pc' = [pc EXCEPT ![r] = IF Touches(Does(Head(fifo[r]))) THEN "receive" ELSE "compute"]
  /\ blk' = [blk EXCEPT ![r] = 0]
  /\ UNCHANGED <<hostVars, tensors, winVars, submitted, done, tile>>

Own(n, t) == tensors[<<n, t[1], t[2]>>]

\* stage1, stage2, recompute, grad_o, grad_h; the doubling of a probe
Compute(r) ==
  LET t == running[r]
      read == [n \in Does(t).reads |-> Own(n, t)]
  IN  /\ pc[r] = "compute"
      /\ tensors' = [x \in Keys |-> IF x \in Named(t, Does(t).writes) THEN Made(program, x[1], calls, r, read)
                                    ELSE tensors[x]]
      /\ Idle(r)
      /\ UNCHANGED <<hostVars, winVars, submitted, fifo, blk, tile>>

ProbeOps      == {"send", "recv", "send_then_wait", "wait_then_send"}
Waits(d)      == d.wait # None /\ d.op # "send_then_wait"
Sends(d)      == d.send # None
Forwards(d)   == d.op \in {"first", "middle", "last"}
Reduces(p, d) == d.op = "bwd_middle" \/ (d.op = "source" /\ p \in Collectives)
Gamma(r)      == <<calls, r, blk[r]>>

\* Mutant: both rings of a program use one pair of window buffers.
WindowShared(on, t) == <<"forward", t[1]>>

\* The window buffers of a dispatch: a pair per ring, and per direction.
Window(on, t) == <<on, t[1]>>

Peer(t)         == t[2] + Does(t).hop
Cell(on, t, r)  == <<Window(on, t)[1], Window(on, t)[2], r, blk[t[2]]>>
InCell(t)       == Cell(Does(t).wait, t, t[2])
OutCell(t)      == Cell(Does(t).send, t, Peer(t))

\* Mutant: the loop runs one block too far.
NextBlockTooFar(r) ==
  IF blk[r] \notin Blocks
    THEN Idle(r) /\ UNCHANGED blk
    ELSE /\ blk' = [blk EXCEPT ![r] = @ + 1]
         /\ pc' = [pc EXCEPT ![r] = "receive"]
         /\ UNCHANGED <<running, done>>

NextBlock(r) ==
  IF blk[r] + 1 \notin Blocks
    THEN Idle(r) /\ UNCHANGED blk
    ELSE /\ blk' = [blk EXCEPT ![r] = @ + 1]
         /\ pc' = [pc EXCEPT ![r] = "receive"]
         /\ UNCHANGED <<running, done>>

\* The running block with what the ring brought: out of a forward rank, d of a
\* rank of the collective's reverse ring.
Sum(t, got) == Own("S_local", t)[blk[t[2]]] \cup Decay(Gamma(t[2]), got)
Adj(t, got) == IF Collective THEN Own("g_out", t)[blk[t[2]]] \cup got ELSE got

\* send_then_wait stores what it receives only after its wait.
ProbeStores(d) == IF d.op = "send_then_wait" THEN d.writes \ {d.into} ELSE d.writes

\* The fused ends of the reverse ring zero dgamma, the collective's terminal
\* leaves it to the host; the other ranks reduce it after their send.
ReverseStores(p, d) ==
  IF p \in Collectives \/ Reduces(p, d) THEN {"dS_total"} ELSE {"dS_total", "dgamma"}

\* Mutant: a middle rank of the fused ring publishes the sum it sends on.
PublishSum(t, got) ==
  CASE Does(t).op \in ProbeOps ->
           [n \in ProbeStores(Does(t)) |-> IF n = Does(t).into THEN got ELSE Own(Does(t).from, t)[0]]
    [] Forwards(Does(t)) -> [n \in Does(t).writes |-> Sum(t, got)]
    [] OTHER       -> [n \in ReverseStores(program, Does(t)) |-> IF n = "dS_total" THEN Adj(t, got) ELSE Zero]

\* What a comm dispatch stores before it sends: the collective its own result,
\* the fused forward ring the boundary it received (rank 0 its own state), the
\* reverse rings d; a probe the echo of what it sends, and what it received.
Publish(t, got) ==
  CASE Does(t).op \in ProbeOps ->
           [n \in ProbeStores(Does(t)) |-> IF n = Does(t).into THEN got ELSE Own(Does(t).from, t)[0]]
    [] Forwards(Does(t)) -> [n \in Does(t).writes |-> IF n = "S_out" THEN Sum(t, got) ELSE got]
    [] OTHER       -> [n \in ReverseStores(program, Does(t)) |-> IF n = "dS_total" THEN Adj(t, got) ELSE Zero]

StoreBlock(t, values) ==
  tensors' = [x \in Keys |->
    IF x[1] \in DOMAIN values /\ x[2] = t[1] /\ x[3] = t[2]
      THEN [tensors[x] EXCEPT ![blk[t[2]]] = values[x[1]]]
      ELSE tensors[x]]

\* pld.system.wait(signal, expected = 1, Ge), then load and store the block.
Receive(r) ==
  LET t == running[r]
      got == IF Waits(Does(t)) THEN window[InCell(t)] ELSE Zero
  IN  /\ pc[r] = "receive"
      /\ Waits(Does(t)) => sig[InCell(t)] >= 1
      /\ StoreBlock(t, Publish(t, got))
      /\ tile' = [tile EXCEPT ![r] = got]
      /\ IF Sends(Does(t))
           THEN pc' = [pc EXCEPT ![r] = "send"] /\ UNCHANGED <<running, done, blk>>
           ELSE NextBlock(r)
      /\ UNCHANGED <<hostVars, winVars, submitted, fifo>>

\* The message to the neighbour: out forwards, gamma * d backwards; in the fused
\* reverse ring the message already is the neighbour's d.
Message(t) ==
  LET r == t[2] IN
  IF Does(t).op \in ProbeOps THEN Own(Does(t).from, t)[0]
  ELSE IF Forwards(Does(t)) THEN Sum(t, tile[r])
  ELSE IF Collective THEN Decay(Gamma(r), Adj(t, tile[r]))
  ELSE Own("dS_recv", t)[blk[r]] \cup Decay(Gamma(r), tile[r])

\* Mutant: the store is addressed to the first block.
SendNoOffset(r) ==
  LET t == running[r] IN
  /\ pc[r] = "send"
  /\ window' = [window EXCEPT ![Window(Does(t).send, t) \o <<Peer(t), 0>>] = Message(t)]
  /\ pc' = [pc EXCEPT ![r] = "notify"]
  /\ UNCHANGED <<hostVars, tensors, sig, submitted, done, fifo, running, blk, tile>>

\* remote_store; it drains before the next instruction.
Send(r) ==
  LET t == running[r] IN
  /\ pc[r] = "send"
  /\ window' = [window EXCEPT ![OutCell(t)] = Message(t)]
  /\ pc' = [pc EXCEPT ![r] = "notify"]
  /\ UNCHANGED <<hostVars, tensors, sig, submitted, done, fifo, running, blk, tile>>

\* notify(AtomicAdd 1)
Notify(r) ==
  LET t == running[r] IN
  /\ pc[r] = "notify"
  /\ sig' = [sig EXCEPT ![OutCell(t)] = @ + 1]
  /\ CASE Reduces(program, Does(t)) -> pc' = [pc EXCEPT ![r] = "reduce"] /\ UNCHANGED <<running, done, blk>>
       [] Does(t).op = "send_then_wait" ->
            pc' = [pc EXCEPT ![r] = "await"] /\ UNCHANGED <<running, done, blk>>
       [] OTHER -> NextBlock(r)
  /\ UNCHANGED <<hostVars, tensors, window, submitted, fifo, tile>>

\* The wait of a dispatch that sent first.
Await(r) ==
  LET t == running[r] IN
  /\ pc[r] = "await"
  /\ sig[InCell(t)] >= 1
  /\ StoreBlock(t, [n \in {Does(t).into} |-> window[InCell(t)]])
  /\ NextBlock(r)
  /\ UNCHANGED <<hostVars, winVars, submitted, fifo, tile>>

\* dgamma = rowsum(d * out[r - 1]), kept as the pairs of terms multiplied.
Reduce(r) ==
  LET t == running[r]
      previous == Own(IF Collective THEN "out_prev" ELSE Boundary(program, r), t)[blk[r]]
  IN  /\ pc[r] = "reduce"
      /\ StoreBlock(t, [n \in {"dgamma"} |-> Adj(t, tile[r]) \X previous])
      /\ NextBlock(r)
      /\ UNCHANGED <<hostVars, winVars, submitted, fifo, tile>>

Device(r) ==
  Dispatch(r) \/ Compute(r) \/ Receive(r) \/ Send(r) \/ Notify(r) \/ Await(r) \/ Reduce(r)

\* Every call was made and has returned.
Finished ==
  /\ ~active
  /\ calls = MaxCalls
  /\ UNCHANGED vars

Progress ==
  \/ \E t \in Tasks \ submitted : Submit(t)
  \/ \E t \in Pending : Release(t)
  \/ Return
  \/ \E r \in Ranks : Device(r)

Next == StartCall \/ Progress \/ Finished

Spec == Init /\ [][Next]_vars

\* Something that can move does: the host, the scheduler or a device.  No more
\* is needed, as a call takes finitely many steps; no call is promised.
FairSpec == Spec /\ WF_vars(Progress)

-----------------------------------------------------------------------------
(* What a call owes its caller: call c of program p, rank r, block k *)

\* out[r], and what rank r receives of it
ScanOf(c, r, k) ==
  {<<<<"S_local", c, q, k, NothingRead>>, {<<c, j, k>> : j \in (q + 1)..r}>> : q \in 0..r}
BoundaryOf(p, c, r) ==
  [k \in BlocksOf[p] |-> IF Boundary(p, r) = "zero" THEN Zero ELSE ScanOf(c, r - 1, k)]

SnapsOf(p, c, r) == Made(p, "snaps", c, r, NothingRead)
FromBoundary(p, c, r) ==
  [n \in {"snaps", Boundary(p, r)} |->
     IF n = "snaps" THEN SnapsOf(p, c, r) ELSE BoundaryOf(p, c, r)]

\* d[r]: the gradient of the state rank r hands on.  In the collective every
\* rank's out has a gradient of its own; in GLA out[r] is only used by rank r + 1.
AdjointOf(p, c, r, k) ==
  IF p \in Collectives
    THEN {<<<<"g_out", c, q, k, NothingRead>>, {<<c, j, k>> : j \in (r + 1)..q}>> : q \in r..(P - 1)}
    ELSE {<<<<"dS_recv", c, q, k, FromBoundary(p, c, q)>>, {<<c, j, k>> : j \in (r + 1)..(q - 1)}>> :
            q \in (r + 1)..(P - 1)}
GammaGradOf(p, c, r, k) ==
  AdjointOf(p, c, r, k) \X
    (IF r = 0 THEN Zero
     ELSE IF p \in Collectives THEN Leaf(<<"out_prev", c, r, k, NothingRead>>)
     ELSE BoundaryOf(p, c, r)[k])

GradsRead(p, c, r) ==
  [m \in {"snaps", "partials"} \cup (IF p = "stub_reverse" THEN {"zero"} ELSE Adjoints) |->
     CASE m = "snaps"    -> SnapsOf(p, c, r)
       [] m = "partials" -> Made(p, "partials", c, r, FromBoundary(p, c, r))
       [] m = "dS_total" -> [k \in BlocksOf[p] |-> AdjointOf(p, c, r, k)]
       [] m = "dgamma"   -> [k \in BlocksOf[p] |-> GammaGradOf(p, c, r, k)]
       [] OTHER          -> Blank(p)]

\* The payloads main() of the probes checks: <<tensor, rank, what, of rank>>.
BackPayload(p) ==
  CASE p = "samedir"                                       -> <<"Rb", 1, "T1", 0>>
    [] p \in {"sendfirst", "sendfirstdep", "fusedcomm"}    -> <<"Rb", 0, "T0", 1>>
    [] OTHER                                               -> <<"Rb", 0, "T1", 1>>
Payloads(p) ==
  (IF p = "rev" THEN {} ELSE {<<"Rf", 1, "T0", 0>>})
  \cup (IF p \in {"fwd", "fwd5"} THEN {} ELSE {BackPayload(p)})

Doubled(p, x, c, q) ==
  LET T0 == Made(p, "T0", c, q, [n \in {"X"} |-> Made(p, "X", c, q, NothingRead)])
  IN  IF x = "T0" THEN T0 ELSE Made(p, "T1", c, q, [n \in {"T0"} |-> T0])

Promised(p, n, c, r) ==
  CASE n = "S_out"    -> [k \in BlocksOf[p] |-> ScanOf(c, r, k)]
    [] n = "dS_total" -> [k \in BlocksOf[p] |-> AdjointOf(p, c, r, k)]
    [] n = "dgamma"   -> [k \in BlocksOf[p] |-> GammaGradOf(p, c, r, k)]
    [] n = "O"        -> Made(p, "O", c, r, FromBoundary(p, c, r))
    [] OTHER          -> Made(p, n, c, r, GradsRead(p, c, r))

\* What the window pair <<on, ring, r>> is owed in block k.
Owed(p, c, on, r, k) ==
  IF p \in Probes
    THEN IF on = "forward" THEN Doubled(p, "T0", c, 0)[0]
         ELSE Doubled(p, BackPayload(p)[3], c, BackPayload(p)[4])[0]
  ELSE IF on = "forward" THEN ScanOf(c, r - 1, k)
  ELSE IF p \in Collectives THEN Decay(<<c, r + 1, k>>, AdjointOf(p, c, r + 1, k))
  ELSE AdjointOf(p, c, r, k)

-----------------------------------------------------------------------------
(* Properties *)

\* Contents and positions keep their shapes; a device is never past its loop.
TypeOK ==
  /\ <<program, tokens>> \in Cases
  /\ calls \in 0..MaxCalls /\ active \in BOOLEAN
  /\ submitted \subseteq Tasks /\ done \subseteq submitted
  /\ \A r \in Ranks :
       /\ Elements(fifo[r]) \subseteq {t \in submitted : t[2] = r}
       /\ running[r] = Nobody \/ running[r] \in {t \in submitted \ done : t[2] = r}
  /\ pc \in [Ranks -> {"idle", "compute", "receive", "send", "notify", "await", "reduce"}]
  /\ blk \in [Ranks -> Blocks]
  /\ DOMAIN tensors = Keys /\ DOMAIN window = WindowCells
  /\ sig \in [WindowCells -> Nat]

\* A raised signal means the block the neighbour owes is in the receive window,
\* whole and of this call (forward ring: out[r - 1]; reverse ring: its message;
\* probe: the tensor the peer sends).
SignalMeansDelivered ==
  active => \A c \in WindowCells : sig[c] >= 1 => window[c] = Owed(program, calls, c[1], c[3], c[4])

\* Nothing is stored over a block once its signal is up, by the other ring of
\* the program or by another ring of the batch.
RecvStable ==
  [][\A c \in WindowCells : active /\ sig[c] >= 1 => window'[c] = window[c]]_vars

\* A call returns what its own inputs call for, although intermediates still
\* hold the previous call's tensors and ranks run at different dispatches; a
\* probe delivers the payloads its main() checks.
ReturnsPromised ==
  [][active /\ ~active' =>
       IF program \in Probes
       THEN \A w \in Payloads(program) :
              tensors'[<<w[1], 0, w[2]>>] = Doubled(program, w[3], calls, w[4])
       ELSE \A n \in Outputs, b \in Rings, r \in Ranks :
              tensors'[<<n, b, r>>] = Promised(program, n, calls, r)]_vars

\* No dispatch waits on its device for a send that is queued behind it.
EveryCallReturns == active ~> ~active

-----------------------------------------------------------------------------
(* The inductive invariant *)

\* What a tensor holds in call c, once its dispatch has made it.
Holds(p, n, c, r) ==
  CASE n \in {"T0", "T1"}                                 -> Doubled(p, n, c, r)
    [] n = "Rf"                                           -> Doubled(p, "T0", c, 0)
    [] n = "Rb"                                           -> Doubled(p, BackPayload(p)[3], c, BackPayload(p)[4])
    [] n = "zero" \/ (n = "out_prev" /\ r = 0)            -> Blank(p)
    [] n \in {"snaps", "S_local", "g_out", "X"} \/ (n = "out_prev" /\ r # 0) -> Made(p, n, c, r, NothingRead)
    [] n = "S_recv"                                       -> BoundaryOf(p, c, r)
    [] n \in {"partials", "dS_recv"}                      -> Made(p, n, c, r, FromBoundary(p, c, r))
    [] OTHER                                              -> Promised(p, n, c, r)

\* Echo, T2 and T3 of the probes are read by nobody.
Tracked(n) == n \notin {"Echo", "T2", "T3"}

\* What the host provides: the inputs, zeros, and the dgamma of rank 0, which
\* the collective's terminal leaves as the host zeroed it.
Given(p, n, r) ==
  \/ n \in StagedOf(p) \cup {"zero"}
  \/ p = "allscan_backward" /\ n = "dgamma" /\ r = 0

\* What a comm dispatch stores as it receives a block, and what it adds later.
StoresFirst(p, d) ==
  IF d.op \in ProbeOps THEN ProbeStores(d) ELSE IF Forwards(d) THEN d.writes ELSE ReverseStores(p, d)
StoresLater(p, d) ==
  IF Reduces(p, d) THEN {"dgamma"} ELSE IF d.op = "send_then_wait" THEN {d.into} ELSE {}
Stores(p, d) == IF Touches(d) THEN StoresFirst(p, d) \cup StoresLater(p, d) ELSE d.writes

\* Dispatch t is past block k altogether; it has stored tensor n of block k.
Past(t, k) ==
  \/ t \in done
  \/ /\ running[t[2]] = t /\ Touches(Does(t))
     /\ k < blk[t[2]] \/ (k = blk[t[2]] /\ pc[t[2]] \in {"reduce", "await"})
Wrote(t, n, k) ==
  \/ t \in done
  \/ /\ running[t[2]] = t /\ Touches(Does(t)) /\ n \in Stores(program, Does(t))
     /\ \/ k < blk[t[2]]
        \/ k = blk[t[2]] /\ pc[t[2]] # "receive" /\ n \in StoresFirst(program, Does(t))

\* The cell dispatch t stores block k into.
SentTo(p, t, k) == <<In(p, t).send, t[1], t[2] + In(p, t).hop, k>>

\* Every dispatch is in one place; those routed have their producers behind them.
InvPlaces ==
  /\ fifo \in [Ranks -> Seq(Tasks)]
  /\ running \in [Ranks -> Tasks \cup {Nobody}]
  /\ \A r \in Ranks :
       /\ Distinct(fifo[r])
       /\ Elements(fifo[r]) \cap (done \cup {running[r]}) = {}
       /\ running[r] = Nobody <=> pc[r] = "idle"
  /\ \A r \in Ranks : \A t \in Elements(fifo[r]) \cup ({running[r]} \ {Nobody}) :
       Producers[<<program, tokens>>][t] \subseteq done
  /\ ~active => submitted = done

\* A device is at a step its dispatch has.
StepFits(p, d, x) ==
  /\ x = "compute" <=> ~Touches(d)
  /\ x \in {"send", "notify"} => Sends(d)
  /\ x = "reduce" => Reduces(p, d)
  /\ x = "await" => d.op = "send_then_wait"

InvSteps ==
  \A r \in Ranks : running[r] # Nobody => StepFits(program, Does(running[r]), pc[r])

\* Every tensor has its blocks; the caller's zeros stay zero.
InvTensors ==
  /\ \A x \in Keys : tensors[x] = [k \in Blocks |-> tensors[x][k]]
  /\ \A x \in Keys : x[1] = "zero" => tensors[x] = Blank(program)

\* Tensors hold what the call calls for, from the moment they are made.
InvContents ==
  active =>
    /\ \A x \in Keys : Given(program, x[1], x[3]) => tensors[x] = Holds(program, x[1], calls, x[3])
    /\ \A t \in Tasks : \A n \in Stores(program, Does(t)) : \A k \in Blocks :
         Tracked(n) /\ Wrote(t, n, k) =>
           tensors[<<n, t[1], t[2]>>][k] = Holds(program, n, calls, t[2])[k]

\* The block a device works on is the one it was owed.
Got(p, c, d, r, k) == IF Waits(d) THEN Owed(p, c, d.wait, r, k) ELSE Zero

InvTile ==
  /\ DOMAIN tile = Ranks
  /\ \A r \in Ranks : pc[r] \in {"send", "notify", "reduce"} =>
       tile[r] = Got(program, calls, Does(running[r]), r, blk[r])

\* A signal is raised by a dispatch that is past the block; until then the
\* window holds the message from its store on.
InvSignals ==
  /\ \A c \in WindowCells : sig[c] >= 1 =>
       \E t \in Tasks : Sends(Does(t)) /\ c = SentTo(program, t, c[4]) /\ Past(t, c[4])
  /\ active => \A r \in Ranks : pc[r] = "notify" =>
       window[OutCell(running[r])] =
         Owed(program, calls, Does(running[r]).send, Peer(running[r]), blk[r])

DispatchInv ==
  /\ TypeOK
  /\ InvPlaces
  /\ InvSteps
  /\ InvTensors
  /\ InvContents
  /\ InvTile
  /\ InvSignals
  /\ SignalMeansDelivered
=============================================================================
