---------------------------- MODULE AllScanRing ----------------------------
(***************************************************************************)
(* The forward AllScan ring of the "simpler" backend: the per-rank AIV     *)
(* kernel (allscan_kernel.cpp) and the host calls that dispatch it         *)
(* (SimplerAllscan.run, run_multi, run_batch).                             *)
(*                                                                         *)
(* A call copies its inputs into shared host buffers, allocates one zeroed *)
(* symmetric window over all ranks and submits one task per (slot, rank).  *)
(* Slot s of rank p's window holds, for every block k, a receive block     *)
(* recv[<<s, p, k>>] and a signal word sig[<<s, p, k>>].  The kernel of    *)
(* rank p takes its blocks in order: wait for the signal of block k, fuse, *)
(* publish locally, store remotely into rank p+1's receive block, flush,   *)
(* notify.  A remote store is posted first (inflight) and becomes visible  *)
(* to the peer later.                                                      *)
(***************************************************************************)
EXTENDS AllScanCalls, ScanAlgebra

Ids    == (0..MaxCalls) \X Buffers \X Ranks \X Blocks
Values == SUBSET (Ids \X SUBSET Ids)

VARIABLES
  calls,     \* host calls made so far
  kind,      \* the call worker.run is executing, or "none"
  input,     \* input[b]: the call whose inputs host buffer b holds
  hostOut,   \* the shared output tensors the kernels write
  outputs,   \* the tensors handed back to the caller
  sig,       \* signal words of the windows
  recv,      \* receive regions of the windows
  inflight,  \* remote stores posted, not yet visible: <<slot, rank, block, value>>
  todo,      \* todo[p]: slots whose task rank p's worker has not started
  pc,        \* where rank p's kernel is
  cur,       \* the slot of the task rank p is running
  blk,       \* its loop index k
  tile       \* sTile

hostVars == <<calls, kind, input, outputs>>
vars == <<calls, kind, input, hostOut, outputs, sig, recv, inflight, todo,
          pc, cur, blk, tile>>

TypeOK ==
  /\ calls \in 0..MaxCalls
  /\ kind \in Kinds \cup {"none"}
  /\ input \in [Buffers -> 0..MaxCalls]
  /\ hostOut \in [Tiles -> Values]
  /\ outputs \in [Tiles -> Values]
  /\ sig \in [Cells -> Nat]
  /\ recv \in [Cells -> Values]
  /\ inflight \in SUBSET (Slots \X Ranks \X Blocks \X Values)
  /\ todo \in [Ranks -> SUBSET Slots]
  /\ pc \in [Ranks -> {"idle", "wait", "fuse", "publish", "push", "flush", "notify"}]
  /\ cur \in [Ranks -> Slots]
  /\ blk \in [Ranks -> Blocks]
  /\ tile \in [Ranks -> Values]

Init ==
  /\ calls = 0
  /\ kind = "none"
  /\ input = [b \in Buffers |-> 0]
  /\ hostOut = [c \in Tiles |-> Zero]
  /\ outputs = [c \in Tiles |-> Zero]
  /\ sig = [c \in Cells |-> 0]
  /\ recv = [c \in Cells |-> Zero]
  /\ inflight = {}
  /\ todo = [p \in Ranks |-> {}]
  /\ pc = [p \in Ranks |-> "idle"]
  /\ cur = [p \in Ranks |-> 0]
  /\ blk = [p \in Ranks |-> 0]
  /\ tile = [p \in Ranks |-> Zero]

-----------------------------------------------------------------------------
(* The host *)

\* run zeroes host_out and run_multi its per-head buffers; run_batch, which
\* reads no result, leaves what was there.
ClearedOut(kd) ==
  [c \in Tiles |-> IF Returns(kd) /\ c[1] \in BuffersOf(kd) THEN Zero ELSE hostOut[c]]

\* Mutants: a window kept from the call before, and the epoch counting calls.
KeptSignals  == sig
EpochPerCall == calls

\* A window is allocated zeroed (allocate_domain), its scalar epoch is 1.
FreshSignals == [c \in Cells |-> 0]
FreshRecv    == [c \in Cells |-> Zero]
Epoch        == 1

StartRun(kd) ==
  /\ kind = "none"
  /\ calls < MaxCalls
  /\ calls' = calls + 1
  /\ kind' = kd
  /\ input' = [b \in Buffers |-> IF b \in BuffersOf(kd) THEN calls + 1 ELSE input[b]]
  /\ hostOut' = ClearedOut(kd)
  /\ sig' = FreshSignals
  /\ recv' = FreshRecv
  /\ todo' = [p \in Ranks |-> SlotsOf(kd)]
  /\ UNCHANGED <<outputs, inflight, pc, cur, blk, tile>>

\* worker.run drains every submitted task, frees the window, and the results
\* are copied into the caller's tensors.
Return ==
  /\ kind # "none"
  /\ \A p \in Ranks : todo[p] = {} /\ pc[p] = "idle"
  /\ kind' = "none"
  /\ outputs' = [c \in Tiles |-> IF Returns(kind) /\ c[1] \in BuffersOf(kind)
                                   THEN hostOut[c] ELSE outputs[c]]
  /\ UNCHANGED <<calls, input, hostOut, sig, recv, inflight, todo, pc, cur, blk, tile>>

-----------------------------------------------------------------------------
(* The kernel of rank p *)

\* Where the loop body starts: the source rank has nothing to wait for.
EntryPoint(p) == IF p = 0 THEN "fuse" ELSE "wait"

\* A worker runs one task at a time.  The runtime may pick any submitted task.
StartTask(p) ==
  /\ pc[p] = "idle"
  /\ \E s \in todo[p] :
       /\ todo' = [todo EXCEPT ![p] = @ \ {s}]
       /\ cur' = [cur EXCEPT ![p] = s]
  /\ blk' = [blk EXCEPT ![p] = 0]
  /\ pc' = [pc EXCEPT ![p] = EntryPoint(p)]
  /\ UNCHANGED <<hostVars, hostOut, sig, recv, inflight, tile>>

\* TWAIT(signal + k, epoch, GE)
Wait(p) ==
  /\ pc[p] = "wait"
  /\ sig[<<cur[p], p, blk[p]>>] >= Epoch
  /\ pc' = [pc EXCEPT ![p] = "fuse"]
  /\ UNCHANGED <<hostVars, hostOut, sig, recv, inflight, todo, cur, blk, tile>>

\* The input block of this task's buffers.
Own(p) == LET b == BufOf(kind, cur[p]) IN InputId(input[b], b, p, blk[p])

\* TLOAD, TROWEXPANDMUL, TADD; rank 0 only loads its local block.
Combine(p) ==
  /\ pc[p] = "fuse"
  /\ tile' = [tile EXCEPT ![p] = IF p = 0 THEN Leaf(Own(p))
                                 ELSE Fuse(Own(p), recv[<<cur[p], p, blk[p]>>])]
  /\ pc' = [pc EXCEPT ![p] = "publish"]
  /\ UNCHANGED <<hostVars, hostOut, sig, recv, inflight, todo, cur, blk>>

\* Mutant: the loop runs one block too far.
NextBlockTooFar(p) ==
  IF blk[p] = K
    THEN /\ pc' = [pc EXCEPT ![p] = "idle"]
         /\ UNCHANGED blk
    ELSE /\ pc' = [pc EXCEPT ![p] = EntryPoint(p)]
         /\ blk' = [blk EXCEPT ![p] = @ + 1]

\* The end of the loop body: the next block, or the end of the task.
NextBlock(p) ==
  IF blk[p] = K - 1
    THEN /\ pc' = [pc EXCEPT ![p] = "idle"]
         /\ UNCHANGED blk
    ELSE /\ pc' = [pc EXCEPT ![p] = EntryPoint(p)]
         /\ blk' = [blk EXCEPT ![p] = @ + 1]

\* TSTORE(outputG, sTile); the last rank forwards nothing.
Publish(p) ==
  /\ pc[p] = "publish"
  /\ hostOut' = [hostOut EXCEPT ![<<BufOf(kind, cur[p]), p, blk[p]>>] = tile[p]]
  /\ IF p = P - 1
       THEN NextBlock(p)
       ELSE pc' = [pc EXCEPT ![p] = "push"] /\ UNCHANGED blk
  /\ UNCHANGED <<hostVars, sig, recv, inflight, todo, cur, tile>>

\* Mutant: the remote address is recv, not recv + elt0.
PushNoOffset(p) ==
  /\ pc[p] = "push"
  /\ inflight' = inflight \cup {<<cur[p], p + 1, 0, tile[p]>>}
  /\ pc' = [pc EXCEPT ![p] = "flush"]
  /\ UNCHANGED <<hostVars, hostOut, sig, recv, todo, cur, blk, tile>>

\* TSTORE(remoteG, sTile): posted to rank p + 1's window, same offset.
Push(p) ==
  /\ pc[p] = "push"
  /\ inflight' = inflight \cup {<<cur[p], p + 1, blk[p], tile[p]>>}
  /\ pc' = [pc EXCEPT ![p] = "flush"]
  /\ UNCHANGED <<hostVars, hostOut, sig, recv, todo, cur, blk, tile>>

\* A posted store becomes visible in the peer's window.
Land(m) ==
  /\ m \in inflight
  /\ recv' = [recv EXCEPT ![<<m[1], m[2], m[3]>>] = m[4]]
  /\ inflight' = inflight \ {m}
  /\ UNCHANGED <<hostVars, hostOut, sig, todo, pc, cur, blk, tile>>

\* Mutant: the notify is not held back until the store is visible.
FlushNoWait(p) ==
  /\ pc[p] = "flush"
  /\ pc' = [pc EXCEPT ![p] = "notify"]
  /\ UNCHANGED <<hostVars, hostOut, sig, recv, inflight, todo, cur, blk, tile>>

\* MTE3 -> S flag, dcci, dsb, pipe_barrier: this rank's stores are visible.
Flush(p) ==
  /\ pc[p] = "flush"
  /\ \A m \in inflight : m[2] # p + 1
  /\ pc' = [pc EXCEPT ![p] = "notify"]
  /\ UNCHANGED <<hostVars, hostOut, sig, recv, inflight, todo, cur, blk, tile>>

\* Mutant: the peer's signal word is signal, not signal + k.
NotifyNoOffset(p) ==
  /\ pc[p] = "notify"
  /\ sig' = [sig EXCEPT ![<<cur[p], p + 1, 0>>] = @ + 1]
  /\ NextBlock(p)
  /\ UNCHANGED <<hostVars, hostOut, recv, inflight, todo, cur, tile>>

\* TNOTIFY(peer signal + k, 1, AtomicAdd)
Notify(p) ==
  /\ pc[p] = "notify"
  /\ sig' = [sig EXCEPT ![<<cur[p], p + 1, blk[p]>>] = @ + 1]
  /\ NextBlock(p)
  /\ UNCHANGED <<hostVars, hostOut, recv, inflight, todo, cur, tile>>

Kernel(p) ==
  StartTask(p) \/ Wait(p) \/ Combine(p) \/ Publish(p) \/ Push(p) \/ Flush(p) \/ Notify(p)

\* Every call was made and has returned.
Finished ==
  /\ kind = "none"
  /\ calls = MaxCalls
  /\ UNCHANGED vars

Next ==
  \/ \E kd \in Kinds : StartRun(kd)
  \/ Return
  \/ \E p \in Ranks : Kernel(p)
  \/ \E m \in inflight : Land(m)
  \/ Finished

\* The runtime schedules every submitted task, a kernel that can step does, a
\* posted store completes, and worker.run returns once it is drained.  Calls
\* are the caller's choice.
Fairness ==
  /\ \A p \in Ranks : WF_vars(Kernel(p))
  /\ WF_vars(\E m \in inflight : Land(m))
  /\ WF_vars(Return)

Spec     == Init /\ [][Next]_vars
FairSpec == Spec /\ Fairness

-----------------------------------------------------------------------------
(* Properties *)

\* A raised signal means the whole predecessor value of that block is in the
\* receive region: what TWAIT promises the TLOAD of recv that follows it.
SignalMeansDelivered ==
  kind # "none" =>
    \A s \in SlotsOf(kind), p \in Ranks, k \in Blocks :
      sig[<<s, p, k>>] >= Epoch =>
        recv[<<s, p, k>>] = Scan(calls, BufOf(kind, s), p - 1, k)

\* A receive block is notified at most once per window, whatever slots and
\* iterations share it: "each slot is zeroed once at alloc, so always 1".
NotifiedOnce == \A c \in Cells : sig[c] <= Epoch

\* No remote store is still under way when worker.run has returned and the
\* window it targets is freed.
NoStoreOutlivesWindow == kind = "none" => inflight = {}

\* Once a block's signal is up, the block does not change under its reader
\* until the next window is allocated.
RecvStable ==
  [][\A c \in Cells : sig[c] >= Epoch /\ kind # "none" => recv'[c] = recv[c]]_vars

\* The ring implements the collective: blocks are computed in some order, and
\* a call returns the scan of its own inputs.  A host block counts as computed
\* when it holds the scan of the current call.
DoneBlocks ==
  IF kind = "none" THEN {}
  ELSE {c \in Tiles : c[1] \in BuffersOf(kind) /\ hostOut[c] = Scan(calls, c[1], c[2], c[3])}

Abstract == INSTANCE AllScan WITH done <- DoneBlocks
ImplementsAllScan == Abstract!Spec

\* Every call returns, whatever order the runtime starts the tasks in: rank 0
\* waits for nobody and rank p only for rank p - 1.
EveryCallReturns == (kind # "none") ~> (kind = "none")

-----------------------------------------------------------------------------
(* The inductive invariant behind the safety properties *)

\* Rank p runs, or has run, the task of slot s.
Started(s, p) == s \in SlotsOf(kind) /\ s \notin todo[p]
Running(s, p) == pc[p] # "idle" /\ cur[p] = s

\* Rank p is through with block k of slot s (forwarded and notified), or at
\* least has it in its output buffer.
Passed(s, p, k)    == Started(s, p) /\ (Running(s, p) => k < blk[p])
Published(s, p, k) == \/ Passed(s, p, k)
                      \/ Running(s, p) /\ k = blk[p] /\ pc[p] \in {"push", "flush", "notify"}

InvHost ==
  /\ kind = "none" => inflight = {} /\ \A p \in Ranks : pc[p] = "idle"
  /\ kind # "none" => \A b \in BuffersOf(kind) : input[b] = calls

InvTasks ==
  \A p \in Ranks :
    /\ todo[p] \subseteq SlotsOf(kind)
    /\ pc[p] # "idle" => Started(cur[p], p)
    /\ pc[p] = "wait" => p > 0
    /\ pc[p] \in {"push", "flush", "notify"} => p < P - 1

\* A store under way belongs to a sender that has not passed its flush.
InvStores ==
  /\ \A m \in inflight :
       \E p \in Ranks : /\ pc[p] = "flush"
                        /\ m = <<cur[p], p + 1, blk[p], tile[p]>>
  /\ \A p \in Ranks :
       /\ pc[p] = "flush" => \/ <<cur[p], p + 1, blk[p], tile[p]>> \in inflight
                              \/ recv[<<cur[p], p + 1, blk[p]>>] = tile[p]
       /\ pc[p] = "notify" => recv[<<cur[p], p + 1, blk[p]>>] = tile[p]

\* A signal word counts the predecessor's passes over the block: 0 or 1.
InvSignals ==
  kind # "none" =>
    \A s \in Slots, p \in Ranks, k \in Blocks :
      sig[<<s, p, k>>] = IF p > 0 /\ Passed(s, p - 1, k) THEN 1 ELSE 0

InvData ==
  \A p \in Ranks :
    /\ pc[p] = "fuse" /\ p > 0 => sig[<<cur[p], p, blk[p]>>] >= Epoch
    /\ pc[p] \in {"publish", "push", "flush", "notify"} =>
         tile[p] = Scan(calls, BufOf(kind, cur[p]), p, blk[p])

InvOut ==
  kind # "none" =>
    \A s \in SlotsOf(kind), p \in Ranks, k \in Blocks :
      Published(s, p, k) =>
        hostOut[<<BufOf(kind, s), p, k>>] = Scan(calls, BufOf(kind, s), p, k)

RingCore ==
  /\ InvHost /\ InvTasks /\ InvStores /\ InvSignals /\ InvData /\ InvOut
  /\ NotifiedOnce /\ SignalMeansDelivered

\* What an output buffer holds is dated: the scan of a call already made.
HostOutDated ==
  /\ kind # "none" => calls >= 1
  /\ \A c \in Tiles : \/ hostOut[c] = Zero
                      \/ \E n \in 1..calls : hostOut[c] = Scan(n, c[1], c[2], c[3])

\* The argument for the ring: where every rank is determines which signals are
\* up, which stores may be under way, and what each receive block, tile and
\* output block holds.
RingInv == RingCore /\ HostOutDated
=============================================================================
