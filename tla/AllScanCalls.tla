---------------------------- MODULE AllScanCalls ----------------------------
(***************************************************************************)
(* What the forward and the backward ring share: the host calls of the     *)
(* "simpler" backend and the buffers and window slots they use.            *)
(*                                                                         *)
(*   run / run_backward              one slot, the single-call buffers     *)
(*   run_multi / run_multi_backward  one slot and one set of buffers per   *)
(*                                   head, one window for all heads        *)
(*   run_batch / run_batch_backward  one slot per iteration, every         *)
(*                                   iteration on the single-call buffers, *)
(*                                   no result handed back                 *)
(***************************************************************************)
EXTENDS Integers

CONSTANTS P,         \* ranks in the ring
          K,         \* pipeline blocks per rank
          Heads,     \* heads of a multi-head call (build(multi_h = Heads))
          Batch,     \* iterations of a batched call (run_batch's n_iters)
          MaxCalls   \* bound on the number of host calls explored

\* The backends are built for P >= 2 (bench.py), and GLA skips AllScan at P = 1.
ASSUME RingAssumption ==
  /\ P \in Nat /\ P >= 2
  /\ K \in Nat /\ K >= 1
  /\ Heads \in Nat /\ Heads >= 1
  /\ Batch \in Nat /\ Batch >= 1
  /\ MaxCalls \in Nat

Ranks    == 0..(P - 1)
Blocks   == 0..(K - 1)
Buffers  == 0..Heads    \* 0: self.host_*; h + 1: self._mh_*[h]
MaxSlots == IF Heads > Batch THEN Heads ELSE Batch
Slots    == 0..(MaxSlots - 1)
Kinds    == {"run", "multi", "batch"}

NumSlots(kd)   == CASE kd = "run"   -> 1
                    [] kd = "multi" -> Heads
                    [] kd = "batch" -> Batch
                    [] OTHER        -> 0
SlotsOf(kd)    == 0..(NumSlots(kd) - 1)
BufOf(kd, s)   == IF kd = "multi" THEN s + 1 ELSE 0
BuffersOf(kd)  == IF kd = "multi" THEN 1..Heads ELSE {0}
Returns(kd)    == kd \in {"run", "multi"}

Cells  == Slots \X Ranks \X Blocks     \* blocks of the windows
Tiles  == Buffers \X Ranks \X Blocks   \* blocks of the host buffers
=============================================================================
