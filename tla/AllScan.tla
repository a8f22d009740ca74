------------------------------ MODULE AllScan ------------------------------
(***************************************************************************)
(* What the AllScan collective promises its caller (AllscanImpl.run and    *)
(* the multi-head and batched entry points built on it): a call works on   *)
(* its blocks in any order, and when it returns every output the caller    *)
(* asked for is the scan of the inputs of THIS call.                       *)
(***************************************************************************)
EXTENDS ScanAlgebra

CONSTANTS P,         \* ranks in the ring
          K,         \* pipeline blocks per rank
          Heads,     \* heads of a multi-head call (build(multi_h = Heads))
          MaxCalls   \* bound on the number of calls explored

Ranks   == 0..(P - 1)
Blocks  == 0..(K - 1)
Buffers == 0..Heads    \* 0: the single-call buffers; h + 1: those of head h

\* The buffers a call of each kind fills, and whether it hands them back.
BuffersOf(kd) == IF kd = "multi" THEN 1..Heads ELSE {0}
Returns(kd)   == kd \in {"run", "multi"}

VARIABLES calls,     \* calls made so far
          kind,      \* the call being executed, or "none"
          done,      \* blocks <<buffer, rank, block>> already computed
          outputs    \* what the caller's output tensors hold

vars == <<calls, kind, done, outputs>>

Init ==
  /\ calls = 0
  /\ kind = "none"
  /\ done = {}
  /\ outputs = [c \in Buffers \X Ranks \X Blocks |-> Zero]

Call(kd) ==
  /\ kind = "none"
  /\ calls < MaxCalls
  /\ kind' = kd
  /\ calls' = calls + 1
  /\ UNCHANGED <<done, outputs>>

Finish(c) ==
  /\ kind # "none"
  /\ c[1] \in BuffersOf(kind)
  /\ c \notin done
  /\ done' = done \cup {c}
  /\ UNCHANGED <<calls, kind, outputs>>

Return ==
  /\ kind # "none"
  /\ done = BuffersOf(kind) \X Ranks \X Blocks
  /\ outputs' = [c \in Buffers \X Ranks \X Blocks |->
                   IF Returns(kind) /\ c[1] \in BuffersOf(kind)
                     THEN Scan(calls, c[1], c[2], c[3])
                     ELSE outputs[c]]
  /\ kind' = "none"
  /\ done' = {}
  /\ UNCHANGED calls

Next ==
  \/ \E kd \in {"run", "multi", "batch"} : Call(kd)
  \/ \E c \in Buffers \X Ranks \X Blocks : Finish(c)
  \/ Return

Spec == Init /\ [][Next]_vars
=============================================================================
