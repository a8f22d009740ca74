-------------------------- MODULE AllScanBackward --------------------------
(***************************************************************************)
(* The backward AllScan of the "simpler" backend: the reverse ring kernel  *)
(* (allscan_backward_kernel.cpp) and the host calls that dispatch it       *)
(* (SimplerAllscan.run_backward, run_multi_backward, run_batch_backward).  *)
(*                                                                         *)
(* Rank P - 1 is the source and rank 0 the terminal.  Rank p forms         *)
(* d = g_out + message, publishes it as dS, sends gamma * d to rank p - 1, *)
(* flushes, notifies, and only then reduces dgamma from d and the retained *)
(* forward output out[p - 1].  Windows, signals and remote stores are as   *)
(* in AllScanRing.                                                         *)
(***************************************************************************)
EXTENDS AllScanCalls, ScanAlgebra

Ids    == (0..MaxCalls) \X Buffers \X Ranks \X Blocks
Values == SUBSET (Ids \X SUBSET Ids)

\* The row sums of d * out[q], kept as the terms of d paired with that block.
RowSum(d, x) == {<<t, x>> : t \in d}

\* The adjoint of expected_allscan_backward in closed form: g_out of the ranks
\* q >= p, decayed by the gammas of the ranks p + 1 .. q.
Adjoint(c, b, p, k) ==
  {<<InputId(c, b, q, k), {InputId(c, b, j, k) : j \in (p + 1)..q}>> : q \in p..(P - 1)}

\* dgamma[p]; rank 0 has no predecessor and its gradient is zero.
GammaGrad(c, b, p, k) ==
  IF p = 0 THEN Zero ELSE RowSum(Adjoint(c, b, p, k), InputId(c, b, p - 1, k))

VARIABLES
  calls, kind, input,  \* as in AllScanRing; host_g and host_gout are one input
  hostDS, hostDG,      \* the shared dS and dgamma tensors the kernels write
  dS, dgamma,          \* the tensors handed back to the caller
  sig, recv, inflight, \* the windows and the remote stores under way
  todo, pc, cur, blk,  \* per rank: tasks not started, kernel position
  tile                 \* sTile, which holds d

hostVars == <<calls, kind, input, dS, dgamma>>
winVars  == <<sig, recv, inflight>>
vars == <<hostVars, hostDS, hostDG, winVars, todo, pc, cur, blk, tile>>

PCs == {"idle", "wait", "form", "publish", "push", "flush", "notify", "reduce"}

TypeOK ==
  /\ calls \in 0..MaxCalls
  /\ kind \in Kinds \cup {"none"}
  /\ input \in [Buffers -> 0..MaxCalls]
  /\ hostDS \in [Tiles -> Values] /\ dS \in [Tiles -> Values]
  /\ hostDG \in [Tiles -> SUBSET ((Ids \X SUBSET Ids) \X Ids)]
  /\ dgamma \in [Tiles -> SUBSET ((Ids \X SUBSET Ids) \X Ids)]
  /\ sig \in [Cells -> Nat]
  /\ recv \in [Cells -> Values]
  /\ inflight \in SUBSET (Slots \X Ranks \X Blocks \X Values)
  /\ todo \in [Ranks -> SUBSET Slots]
  /\ pc \in [Ranks -> PCs]
  /\ cur \in [Ranks -> Slots]
  /\ blk \in [Ranks -> Blocks]
  /\ tile \in [Ranks -> Values]

Init ==
  /\ calls = 0 /\ kind = "none"
  /\ input = [b \in Buffers |-> 0]
  /\ hostDS = [c \in Tiles |-> Zero] /\ hostDG = [c \in Tiles |-> Zero]
  /\ dS = [c \in Tiles |-> Zero] /\ dgamma = [c \in Tiles |-> Zero]
  /\ sig = [c \in Cells |-> 0]
  /\ recv = [c \in Cells |-> Zero]
  /\ inflight = {}
  /\ todo = [p \in Ranks |-> {}]
  /\ pc = [p \in Ranks |-> "idle"]
  /\ cur = [p \in Ranks |-> 0]
  /\ blk = [p \in Ranks |-> 0]
  /\ tile = [p \in Ranks |-> Zero]

-----------------------------------------------------------------------------
(* The host *)

\* run_batch_backward zeroes no output and reads none back.
Cleared(kd, buf) ==
  [c \in Tiles |-> IF Returns(kd) /\ c[1] \in BuffersOf(kd) THEN Zero ELSE buf[c]]

\* Inputs are copied (g_out, gamma, and outs shifted by one rank into
\* out_prev), a zeroed window is allocated, every task is submitted.
StartRun(kd) ==
  /\ kind = "none"
  /\ calls < MaxCalls
  /\ calls' = calls + 1
  /\ kind' = kd
  /\ input' = [b \in Buffers |-> IF b \in BuffersOf(kd) THEN calls + 1 ELSE input[b]]
  /\ hostDS' = Cleared(kd, hostDS)
  /\ hostDG' = Cleared(kd, hostDG)
  /\ sig' = [c \in Cells |-> 0]
  /\ recv' = [c \in Cells |-> Zero]
  /\ todo' = [p \in Ranks |-> SlotsOf(kd)]
  /\ UNCHANGED <<dS, dgamma, inflight, pc, cur, blk, tile>>

Drained == \A p \in Ranks : todo[p] = {} /\ pc[p] = "idle"

Return ==
  /\ kind # "none"
  /\ Drained
  /\ kind' = "none"
  /\ LET Back(old, buf) == [c \in Tiles |-> IF Returns(kind) /\ c[1] \in BuffersOf(kind)
                                              THEN buf[c] ELSE old[c]]
     IN  dS' = Back(dS, hostDS) /\ dgamma' = Back(dgamma, hostDG)
  /\ UNCHANGED <<calls, input, hostDS, hostDG, winVars, todo, pc, cur, blk, tile>>

-----------------------------------------------------------------------------
(* The kernel of rank p *)

IsSource(p)   == p = P - 1
IsTerminal(p) == p = 0
EntryPoint(p) == IF IsSource(p) THEN "form" ELSE "wait"

StartTask(p) ==
  /\ pc[p] = "idle"
  /\ \E s \in todo[p] :
       /\ todo' = [todo EXCEPT ![p] = @ \ {s}]
       /\ cur' = [cur EXCEPT ![p] = s]
  /\ blk' = [blk EXCEPT ![p] = 0]
  /\ pc' = [pc EXCEPT ![p] = EntryPoint(p)]
  /\ UNCHANGED <<hostVars, hostDS, hostDG, winVars, tile>>

\* TWAIT(signal + k, epoch, GE), with the literal epoch 1.
Wait(p) ==
  /\ pc[p] = "wait"
  /\ sig[<<cur[p], p, blk[p]>>] >= 1
  /\ pc' = [pc EXCEPT ![p] = "form"]
  /\ UNCHANGED <<hostVars, hostDS, hostDG, winVars, todo, cur, blk, tile>>

\* The caller's block of rank q that this task works on.
Block(p, q) == LET b == BufOf(kind, cur[p]) IN InputId(input[b], b, q, blk[p])

\* d = g_out (+ message), into sTile
Form(p) ==
  /\ pc[p] = "form"
  /\ tile' = [tile EXCEPT ![p] = IF IsSource(p) THEN Leaf(Block(p, p))
                                 ELSE Leaf(Block(p, p)) \cup recv[<<cur[p], p, blk[p]>>]]
  /\ pc' = [pc EXCEPT ![p] = "publish"]
  /\ UNCHANGED <<hostVars, hostDS, hostDG, winVars, todo, cur, blk>>

\* Mutant: the loop runs one block too far.
NextBlockTooFar(p) ==
  IF blk[p] = K
    THEN /\ pc' = [pc EXCEPT ![p] = "idle"]
         /\ UNCHANGED blk
    ELSE /\ pc' = [pc EXCEPT ![p] = EntryPoint(p)]
         /\ blk' = [blk EXCEPT ![p] = @ + 1]

NextBlock(p) ==
  IF blk[p] = K - 1
    THEN /\ pc' = [pc EXCEPT ![p] = "idle"]
         /\ UNCHANGED blk
    ELSE /\ pc' = [pc EXCEPT ![p] = EntryPoint(p)]
         /\ blk' = [blk EXCEPT ![p] = @ + 1]

\* TSTORE(dSG, sTile); the terminal rank sends nothing and has no dgamma.
Publish(p) ==
  /\ pc[p] = "publish"
  /\ hostDS' = [hostDS EXCEPT ![<<BufOf(kind, cur[p]), p, blk[p]>>] = tile[p]]
  /\ IF IsTerminal(p)
       THEN NextBlock(p)
       ELSE pc' = [pc EXCEPT ![p] = "push"] /\ UNCHANGED blk
  /\ UNCHANGED <<hostVars, hostDG, winVars, todo, cur, tile>>

\* Mutant: the message is d, without this rank's gamma (the forward's rule).
PushUndecayed(p) ==
  /\ pc[p] = "push"
  /\ inflight' = inflight \cup {<<cur[p], p - 1, blk[p], tile[p]>>}
  /\ pc' = [pc EXCEPT ![p] = "flush"]
  /\ UNCHANGED <<hostVars, hostDS, hostDG, sig, recv, todo, cur, blk, tile>>

\* Mutant: the message of every block goes to the start of the receive region.
PushNoOffset(p) ==
  /\ pc[p] = "push"
  /\ inflight' = inflight \cup {<<cur[p], p - 1, 0, Decay(Block(p, p), tile[p])>>}
  /\ pc' = [pc EXCEPT ![p] = "flush"]
  /\ UNCHANGED <<hostVars, hostDS, hostDG, sig, recv, todo, cur, blk, tile>>

\* m = gamma[p] * d, posted to rank p - 1's window
Push(p) ==
  /\ pc[p] = "push"
  /\ inflight' = inflight \cup {<<cur[p], p - 1, blk[p], Decay(Block(p, p), tile[p])>>}
  /\ pc' = [pc EXCEPT ![p] = "flush"]
  /\ UNCHANGED <<hostVars, hostDS, hostDG, sig, recv, todo, cur, blk, tile>>

Land(m) ==
  /\ m \in inflight
  /\ recv' = [recv EXCEPT ![<<m[1], m[2], m[3]>>] = m[4]]
  /\ inflight' = inflight \ {m}
  /\ UNCHANGED <<hostVars, hostDS, hostDG, sig, todo, pc, cur, blk, tile>>

\* Mutant: the notify is not held back until the store is visible.
FlushNoWait(p) ==
  /\ pc[p] = "flush"
  /\ pc' = [pc EXCEPT ![p] = "notify"]
  /\ UNCHANGED <<hostVars, hostDS, hostDG, winVars, todo, cur, blk, tile>>

Flush(p) ==
  /\ pc[p] = "flush"
  /\ \A m \in inflight : m[2] # p - 1
  /\ pc' = [pc EXCEPT ![p] = "notify"]
  /\ UNCHANGED <<hostVars, hostDS, hostDG, winVars, todo, cur, blk, tile>>

\* Mutant: the source skips the notify, as the terminal does.
NotifyNotSource(p) ==
  /\ pc[p] = "notify"
  /\ sig' = IF IsSource(p) THEN sig ELSE [sig EXCEPT ![<<cur[p], p - 1, blk[p]>>] = @ + 1]
  /\ pc' = [pc EXCEPT ![p] = "reduce"]
  /\ UNCHANGED <<hostVars, hostDS, hostDG, recv, inflight, todo, cur, blk, tile>>

Notify(p) ==
  /\ pc[p] = "notify"
  /\ sig' = [sig EXCEPT ![<<cur[p], p - 1, blk[p]>>] = @ + 1]
  /\ pc' = [pc EXCEPT ![p] = "reduce"]
  /\ UNCHANGED <<hostVars, hostDS, hostDG, recv, inflight, todo, cur, blk, tile>>

\* dgamma[p] = rowsum(d * out_prev); host_outprev[p] holds outs[p - 1].
Reduce(p) ==
  /\ pc[p] = "reduce"
  /\ hostDG' = [hostDG EXCEPT ![<<BufOf(kind, cur[p]), p, blk[p]>>] =
                  RowSum(tile[p], Block(p, p - 1))]
  /\ NextBlock(p)
  /\ UNCHANGED <<hostVars, hostDS, winVars, todo, cur, tile>>

Kernel(p) ==
  \/ StartTask(p) \/ Wait(p) \/ Form(p) \/ Publish(p)
  \/ Push(p) \/ Flush(p) \/ Notify(p) \/ Reduce(p)

\* Every call was made and has returned.
Finished ==
  /\ kind = "none"
  /\ calls = MaxCalls
  /\ UNCHANGED vars

Next ==
  \/ \E kd \in Kinds : StartRun(kd)
  \/ Return
  \/ \E p \in Ranks : Kernel(p)
  \/ \E m \in inflight : Land(m)
  \/ Finished

Spec == Init /\ [][Next]_vars
FairSpec ==
  /\ Spec
  /\ \A p \in Ranks : WF_vars(Kernel(p))
  /\ WF_vars(\E m \in inflight : Land(m))
  /\ WF_vars(Return)

-----------------------------------------------------------------------------
(* Properties *)

\* A raised signal means the successor's whole decayed adjoint block is in the
\* receive region.
MessageDelivered ==
  kind # "none" =>
    \A s \in SlotsOf(kind), p \in Ranks, k \in Blocks :
      sig[<<s, p, k>>] >= 1 =>
        LET b == BufOf(kind, s)
        IN  recv[<<s, p, k>>] = Decay(InputId(calls, b, p + 1, k), Adjoint(calls, b, p + 1, k))

\* A call hands back the gradients of its own inputs: dS[p] = d[p] and
\* dgamma[p] = rowsum(d[p] * out[p - 1]) in every head, rank and block, and
\* dgamma[0] is zero although no kernel writes it.
ReturnsGradients ==
  [][kind # "none" /\ kind' = "none" /\ Returns(kind) =>
       \A c \in BuffersOf(kind) \X Ranks \X Blocks :
         /\ dS'[c] = Adjoint(calls, c[1], c[2], c[3])
         /\ dgamma'[c] = GammaGrad(calls, c[1], c[2], c[3])]_vars

\* A message block does not change under its reader once its signal is up.
RecvStable ==
  [][\A c \in Cells : sig[c] >= 1 /\ kind # "none" => recv'[c] = recv[c]]_vars

\* Every call returns, in whatever order the runtime starts its tasks: only the
\* ranks below the source wait, each for the rank above.
EveryCallReturns == (kind # "none") ~> (kind = "none")
-----------------------------------------------------------------------------
(* The inductive invariant behind the safety properties *)

\* Rank p runs, or has run, the task of slot s.
Started(s, p) == s \in SlotsOf(kind) /\ s \notin todo[p]
Running(s, p) == pc[p] # "idle" /\ cur[p] = s

\* Rank p is through with block k of slot s; has at least sent and notified it;
\* has at least published its dS.
Passed(s, p, k)    == Started(s, p) /\ (Running(s, p) => k < blk[p])
Sent(s, p, k)      == Passed(s, p, k) \/ (Running(s, p) /\ k = blk[p] /\ pc[p] = "reduce")
Published(s, p, k) ==
  Passed(s, p, k) \/ (Running(s, p) /\ k = blk[p] /\ pc[p] \in {"push", "flush", "notify", "reduce"})

\* The message rank p forms from its tile.
Message(p) == Decay(Block(p, p), tile[p])

InvHost ==
  /\ kind = "none" => inflight = {} /\ \A p \in Ranks : pc[p] = "idle"
  /\ kind # "none" => \A b \in BuffersOf(kind) : input[b] = calls

InvTasks ==
  \A p \in Ranks :
    /\ todo[p] \subseteq SlotsOf(kind)
    /\ pc[p] # "idle" => Started(cur[p], p)
    /\ pc[p] = "wait" => p < P - 1
    /\ pc[p] \in {"push", "flush", "notify", "reduce"} => p > 0

\* A store under way belongs to a sender that has not passed its flush.
InvStores ==
  /\ \A m \in inflight :
       \E p \in Ranks : pc[p] = "flush" /\ m = <<cur[p], p - 1, blk[p], Message(p)>>
  /\ \A p \in Ranks :
       /\ pc[p] = "flush" => \/ <<cur[p], p - 1, blk[p], Message(p)>> \in inflight
                              \/ recv[<<cur[p], p - 1, blk[p]>>] = Message(p)
       /\ pc[p] = "notify" => recv[<<cur[p], p - 1, blk[p]>>] = Message(p)

\* A signal word counts the messages of the successor: 0 or 1.
InvSignals ==
  kind # "none" =>
    \A s \in Slots, p \in Ranks, k \in Blocks :
      sig[<<s, p, k>>] = IF p < P - 1 /\ Sent(s, p + 1, k) THEN 1 ELSE 0

InvData ==
  \A p \in Ranks :
    /\ pc[p] = "form" /\ p < P - 1 => sig[<<cur[p], p, blk[p]>>] >= 1
    /\ pc[p] \in {"publish", "push", "flush", "notify", "reduce"} =>
         tile[p] = Adjoint(calls, BufOf(kind, cur[p]), p, blk[p])

\* What the buffers of the call hold; no kernel writes the dgamma of rank 0.
InvOut ==
  /\ kind # "none" =>
       \A s \in SlotsOf(kind), p \in Ranks, k \in Blocks :
         LET b == BufOf(kind, s) IN
         /\ Published(s, p, k) => hostDS[<<b, p, k>>] = Adjoint(calls, b, p, k)
         /\ Passed(s, p, k) /\ p > 0 => hostDG[<<b, p, k>>] = GammaGrad(calls, b, p, k)
  /\ \A b \in Buffers, k \in Blocks : hostDG[<<b, 0, k>>] = Zero

\* The argument for the reverse ring: where every rank is determines which
\* signals are up, which stores may be under way, and what each receive block,
\* tile and output block holds.
ReverseInv ==
  /\ InvHost /\ InvTasks /\ InvStores /\ InvSignals /\ InvData /\ InvOut
  /\ MessageDelivered
=============================================================================
