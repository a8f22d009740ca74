----------------------- MODULE AllScanBackwardProofs -----------------------
(***************************************************************************)
(* Proofs about AllScanBackward for every number of ranks P >= 2, blocks   *)
(* K, heads, batch iterations and calls: the mirror image of               *)
(* AllScanRingProofs, with a kernel that notifies before it reduces.       *)
(***************************************************************************)
EXTENDS AllScanBackward, TLAPS

-----------------------------------------------------------------------------
(* The slots and buffers of a host call *)

\* Every slot of a call has buffers of that call (_submit_iter's bufs).
LEMMA BufOfSlot ==
  ASSUME NEW kd \in Kinds, NEW s \in SlotsOf(kd)
  PROVE  /\ BufOf(kd, s) \in BuffersOf(kd)
         /\ BufOf(kd, s) \in Buffers
         /\ s \in Slots
  BY RingAssumption
  DEF Kinds, SlotsOf, NumSlots, BufOf, BuffersOf, Buffers, Slots, MaxSlots

\* The tasks of a call are tasks of slots the window has (_domain, n_slots).
LEMMA SlotsTyped ==
  ASSUME NEW kd \in Kinds
  PROVE  SlotsOf(kd) \subseteq Slots
  BY BufOfSlot

\* Every buffer a call reads back is written by the task of one of its slots.
LEMMA SlotOfBuf ==
  ASSUME NEW kd \in Kinds, NEW b \in BuffersOf(kd)
  PROVE  b \in Buffers /\ \E s \in SlotsOf(kd) : BufOf(kd, s) = b
<1> USE RingAssumption
<1>1. CASE kd = "multi"
  <2>1. b - 1 \in SlotsOf(kd) /\ BufOf(kd, b - 1) = b /\ b \in Buffers
    BY <1>1 DEF SlotsOf, NumSlots, BufOf, BuffersOf, Buffers
  <2> QED
    BY <2>1
<1>2. CASE kd # "multi"
  <2>1. 0 \in SlotsOf(kd) /\ BufOf(kd, 0) = b /\ b \in Buffers
    BY <1>2 DEF SlotsOf, NumSlots, BufOf, BuffersOf, Buffers, Kinds
  <2> QED
    BY <2>1
<1> QED
  BY <1>1, <1>2

-----------------------------------------------------------------------------
(* The recurrence of expected_allscan_backward *)

\* Rank P - 1 has no message: its adjoint is its own g_out.
LEMMA AdjointBase ==
  ASSUME NEW c, NEW b, NEW k
  PROVE  Adjoint(c, b, P - 1, k) = Leaf(InputId(c, b, P - 1, k))
<1> USE RingAssumption
<1>1. (P - 1)..(P - 1) = {P - 1}
  OBVIOUS
<1>2. ((P - 1) + 1)..(P - 1) = {}
  OBVIOUS
<1>3. {InputId(c, b, j, k) : j \in ((P - 1) + 1)..(P - 1)} = {}
  BY <1>2
<1> QED
  BY <1>1, <1>3 DEF Adjoint, Leaf

\* d[p] = g_out[p] + gamma[p + 1] * d[p + 1]
LEMMA AdjointStep ==
  ASSUME NEW c, NEW b, NEW k, NEW p \in Nat, p < P - 1
  PROVE  Adjoint(c, b, p, k)
           = Leaf(InputId(c, b, p, k)) \cup Decay(InputId(c, b, p + 1, k), Adjoint(c, b, p + 1, k))
<1> USE RingAssumption
<1> DEFINE N       == P - 1
           Id(j)   == InputId(c, b, j, k)
           D(n, q) == {Id(j) : j \in (n + 1)..q}
           T(n, q) == <<Id(q), D(n, q)>>
<1>1. \A q \in (p + 1)..N : D(p, q) = D(p + 1, q) \cup {Id(p + 1)}
  <2> SUFFICES ASSUME NEW q \in (p + 1)..N PROVE D(p, q) = D(p + 1, q) \cup {Id(p + 1)}
    OBVIOUS
  <2>1. (p + 1)..q = (((p + 1) + 1)..q) \cup {p + 1}
    OBVIOUS
  <2> HIDE DEF Id
  <2> QED
    BY <2>1
<1>2. D(p, p) = {}
  <2>1. (p + 1)..p = {}
    OBVIOUS
  <2> QED
    BY <2>1
<1>3. Adjoint(c, b, p, k) = {T(p, q) : q \in p..N}
  BY DEF Adjoint
<1>4. p..N = ((p + 1)..N) \cup {p}
  OBVIOUS
<1>5. {T(p, q) : q \in p..N} = {T(p, q) : q \in (p + 1)..N} \cup {T(p, p)}
  <2> HIDE DEF T, N
  <2> QED
    BY <1>4
<1>6. {T(p, q) : q \in (p + 1)..N} = {<<Id(q), D(p + 1, q) \cup {Id(p + 1)}>> : q \in (p + 1)..N}
  <2> HIDE DEF D, Id, N
  <2> QED
    BY <1>1
<1>7. Decay(Id(p + 1), Adjoint(c, b, p + 1, k))
        = {<<Id(q), D(p + 1, q) \cup {Id(p + 1)}>> : q \in (p + 1)..N}
  <2>1. Adjoint(c, b, p + 1, k) = {T(p + 1, q) : q \in (p + 1)..N}
    BY DEF Adjoint
  <2> DEFINE G(t) == <<t[1], t[2] \cup {Id(p + 1)}>>
  <2>2. \A q \in (p + 1)..N : G(T(p + 1, q)) = <<Id(q), D(p + 1, q) \cup {Id(p + 1)}>>
    <3> HIDE DEF D, Id, N
    <3> QED
      OBVIOUS
  <2>3. {G(t) : t \in {T(p + 1, q) : q \in (p + 1)..N}} = {G(T(p + 1, q)) : q \in (p + 1)..N}
    <3> HIDE DEF G, T, N
    <3> QED
      OBVIOUS
  <2>4. {G(T(p + 1, q)) : q \in (p + 1)..N}
          = {<<Id(q), D(p + 1, q) \cup {Id(p + 1)}>> : q \in (p + 1)..N}
    <3> HIDE DEF G, T, D, Id, N
    <3> QED
      BY <2>2
  <2>5. Decay(Id(p + 1), Adjoint(c, b, p + 1, k)) = {G(t) : t \in {T(p + 1, q) : q \in (p + 1)..N}}
    BY <2>1 DEF Decay
  <2> HIDE DEF G, T, D, Id, N
  <2> QED
    BY <2>3, <2>4, <2>5
<1>8. Leaf(Id(p)) = {T(p, p)}
  BY <1>2 DEF Leaf
<1> HIDE DEF T, D, N
<1> QED
  BY <1>3, <1>5, <1>6, <1>7, <1>8

-----------------------------------------------------------------------------
(* Type correctness *)

\* The kernel's tile arithmetic maps typed values to typed values.
LEMMA ValueTypes ==
  ASSUME NEW x \in Ids, NEW y \in Ids, NEW v \in Values
  PROVE  /\ Leaf(x) \in Values /\ Decay(x, v) \in Values
         /\ RowSum(v, y) \in SUBSET ((Ids \X SUBSET Ids) \X Ids)
<1>1. Leaf(x) \in Values
  BY DEF Leaf, Values
<1>2. Decay(x, v) \in Values
  <2> SUFFICES ASSUME NEW t \in v PROVE <<t[1], t[2] \cup {x}>> \in Ids \X SUBSET Ids
    BY DEF Decay, Values
  <2> QED
    BY DEF Values
<1>3. RowSum(v, y) \in SUBSET ((Ids \X SUBSET Ids) \X Ids)
  BY DEF RowSum, Values
<1> QED
  BY <1>1, <1>2, <1>3

LEMMA ZeroValue == Zero \in Values /\ Zero \in SUBSET ((Ids \X SUBSET Ids) \X Ids)
  BY DEF Zero, Values

\* The blocks a running kernel reads are blocks the caller passed in.
LEMMA RunningTyped ==
  ASSUME TypeOK, InvTasks, NEW p \in Ranks, pc[p] # "idle"
  PROVE  /\ kind \in Kinds /\ kind # "none"
         /\ cur[p] \in SlotsOf(kind) /\ cur[p] \in Slots
         /\ BufOf(kind, cur[p]) \in Buffers
         /\ BufOf(kind, cur[p]) \in BuffersOf(kind)
         /\ \A q \in Ranks : Block(p, q) \in Ids
<1>1. cur[p] \in SlotsOf(kind)
  BY DEF InvTasks, Started
<1>2. kind \in Kinds /\ kind # "none"
  <2>1. SlotsOf("none") = {}
    BY DEF SlotsOf, NumSlots
  <2> QED
    BY <1>1, <2>1 DEF TypeOK, Kinds
<1>3. BufOf(kind, cur[p]) \in Buffers /\ BufOf(kind, cur[p]) \in BuffersOf(kind)
  BY <1>1, <1>2, BufOfSlot
<1>4. \A q \in Ranks : Block(p, q) \in Ids
  BY <1>3 DEF Block, InputId, Ids, TypeOK
<1> QED
  BY <1>1, <1>2, <1>3, <1>4 DEF TypeOK

LEMMA TypeInit == Init => TypeOK
<1> SUFFICES ASSUME Init PROVE TypeOK
  OBVIOUS
<1> USE RingAssumption, ZeroValue
<1>1. 0 \in Slots /\ 0 \in Blocks /\ 0 \in 0..MaxCalls
  BY DEF Slots, MaxSlots, Blocks
<1> QED
  BY <1>1 DEF Init, TypeOK, PCs

\* The end of a loop body leaves pc and blk typed.
LEMMA NextBlockTyped ==
  ASSUME TypeOK, NEW p \in Ranks, NextBlock(p)
  PROVE  pc' \in [Ranks -> PCs] /\ blk' \in [Ranks -> Blocks]
  BY RingAssumption DEF TypeOK, NextBlock, EntryPoint, IsSource, Blocks, PCs

LEMMA TypeStep == TypeOK /\ InvTasks /\ [Next]_vars => TypeOK'
<1> SUFFICES ASSUME TypeOK, InvTasks, [Next]_vars PROVE TypeOK'
  OBVIOUS
<1> USE RingAssumption
<1>1. CASE \E kd \in Kinds : StartRun(kd)
  <2> PICK kd \in Kinds : StartRun(kd)
    BY <1>1
  <2>1. /\ Cleared(kd, hostDS) \in [Tiles -> Values]
        /\ Cleared(kd, hostDG) \in [Tiles -> SUBSET ((Ids \X SUBSET Ids) \X Ids)]
    BY ZeroValue DEF Cleared, TypeOK
  <2>2. /\ [c \in Cells |-> 0] \in [Cells -> Nat]
        /\ [c \in Cells |-> Zero] \in [Cells -> Values]
    BY ZeroValue
  <2>3. calls + 1 \in 0..MaxCalls
    BY DEF StartRun, TypeOK
  <2>4. SlotsOf(kd) \subseteq Slots
    BY SlotsTyped
  <2> QED
    BY <2>1, <2>2, <2>3, <2>4 DEF StartRun, TypeOK
<1>2. CASE Return
  BY <1>2 DEF Return, TypeOK, winVars
<1>3. ASSUME NEW p \in Ranks, Kernel(p) PROVE TypeOK'
  <2>1. CASE StartTask(p)
    <3>1. 0 \in Blocks /\ EntryPoint(p) \in PCs
      BY DEF Blocks, EntryPoint, PCs
    <3> QED
      BY <2>1, <3>1 DEF StartTask, TypeOK, hostVars, winVars
  <2>2. CASE Wait(p)
    BY <2>2 DEF Wait, TypeOK, hostVars, winVars, PCs
  <2>3. CASE Form(p)
    <3>1. Leaf(Block(p, p)) \in Values
      BY <2>3, RunningTyped, ValueTypes, ZeroValue DEF Form
    <3>2. <<cur[p], p, blk[p]>> \in Cells
      BY DEF TypeOK, Cells
    <3>3. recv[<<cur[p], p, blk[p]>>] \in Values
      BY <3>2 DEF TypeOK
    <3>4. Leaf(Block(p, p)) \cup recv[<<cur[p], p, blk[p]>>] \in Values
      BY <3>1, <3>3 DEF Values
    <3>5. tile' \in [Ranks -> Values]
      BY <2>3, <3>1, <3>4 DEF Form, TypeOK
    <3> QED
      BY <2>3, <3>5 DEF Form, TypeOK, hostVars, winVars, PCs
  <2>4. CASE Publish(p)
    <3>1. pc' \in [Ranks -> PCs] /\ blk' \in [Ranks -> Blocks]
      BY <2>4, NextBlockTyped DEF Publish, TypeOK, PCs
    <3>2. hostDS' \in [Tiles -> Values]
      BY <2>4 DEF Publish, TypeOK
    <3> QED
      BY <2>4, <3>1, <3>2 DEF Publish, TypeOK, hostVars, winVars
  <2>5. CASE Push(p)
    <3>1. p - 1 \in Ranks
      BY <2>5 DEF Push, InvTasks, Ranks
    <3>2. Decay(Block(p, p), tile[p]) \in Values
      BY <2>5, RunningTyped, ValueTypes DEF Push, TypeOK
    <3>3. <<cur[p], p - 1, blk[p], Decay(Block(p, p), tile[p])>> \in Slots \X Ranks \X Blocks \X Values
      BY <3>1, <3>2 DEF TypeOK
    <3> QED
      BY <2>5, <3>3 DEF Push, TypeOK, hostVars, PCs
  <2>6. CASE Flush(p)
    BY <2>6 DEF Flush, TypeOK, hostVars, winVars, PCs
  <2>7. CASE Notify(p)
    <3>1. p - 1 \in Ranks
      BY <2>7 DEF Notify, InvTasks, Ranks
    <3>2. <<cur[p], p - 1, blk[p]>> \in Cells
      BY <3>1 DEF TypeOK, Cells
    <3>3. sig' \in [Cells -> Nat]
      BY <2>7, <3>2 DEF Notify, TypeOK
    <3> QED
      BY <2>7, <3>3 DEF Notify, TypeOK, hostVars, PCs
  <2>8. CASE Reduce(p)
    <3>1. p - 1 \in Ranks
      BY <2>8 DEF Reduce, InvTasks, Ranks
    <3>2. RowSum(tile[p], Block(p, p - 1)) \in SUBSET ((Ids \X SUBSET Ids) \X Ids)
      BY <2>8, <3>1, RunningTyped, ValueTypes DEF Reduce, TypeOK
    <3>3. hostDG' \in [Tiles -> SUBSET ((Ids \X SUBSET Ids) \X Ids)]
      BY <2>8, <3>2 DEF Reduce, TypeOK
    <3> QED
      BY <2>8, <3>3, NextBlockTyped DEF Reduce, TypeOK, hostVars, winVars
  <2> QED
    BY <1>3, <2>1, <2>2, <2>3, <2>4, <2>5, <2>6, <2>7, <2>8 DEF Kernel
<1>4. ASSUME NEW m \in inflight, Land(m) PROVE TypeOK'
  <2>1. m[4] \in Values
    BY DEF TypeOK
  <2>2. recv' \in [Cells -> Values]
    BY <1>4, <2>1 DEF Land, TypeOK
  <2> QED
    BY <1>4, <2>2 DEF Land, TypeOK, hostVars
<1>5. CASE Finished \/ UNCHANGED vars
  BY <1>5 DEF Finished, vars, hostVars, winVars, TypeOK
<1> QED
  BY <1>1, <1>2, <1>3, <1>4, <1>5 DEF Next
-----------------------------------------------------------------------------
(* How far a rank is, before and after a step *)

\* Moving within the loop body passes no block.
LEMMA PassedSame ==
  ASSUME TypeOK, NEW p \in Ranks, NEW l, l # "idle", pc[p] # "idle",
         pc' = [pc EXCEPT ![p] = l], UNCHANGED <<kind, todo, cur, blk>>
  PROVE  \A s, k : \A q \in Ranks : /\ Passed(s, q, k)' <=> Passed(s, q, k)
                                    /\ Running(s, q)' <=> Running(s, q)
  BY DEF TypeOK, Passed, Started, Running

\* The end of the loop body passes exactly the current block.
LEMMA PassedNext ==
  ASSUME TypeOK, InvTasks, NEW p \in Ranks, pc[p] # "idle",
         NextBlock(p), UNCHANGED <<kind, todo, cur>>
  PROVE  \A s : \A q \in Ranks, k \in Blocks :
           Passed(s, q, k)' <=> Passed(s, q, k) \/ (q = p /\ s = cur[p] /\ k = blk[p])
<1> SUFFICES ASSUME NEW s, NEW q \in Ranks, NEW k \in Blocks
             PROVE  Passed(s, q, k)' <=> Passed(s, q, k) \/ (q = p /\ s = cur[p] /\ k = blk[p])
  OBVIOUS
<1>1. CASE q # p \/ s # cur[p]
  BY <1>1 DEF TypeOK, Passed, Started, Running, NextBlock
<1>2. CASE q = p /\ s = cur[p]
  <2>1. Started(s, q) /\ Started(s, q)'
    BY <1>2 DEF InvTasks, Started
  <2>2. Running(s, q)
    BY <1>2 DEF Running
  <2>3. k \in 0..(K - 1) /\ blk[p] \in 0..(K - 1)
    BY DEF TypeOK, Blocks
  <2>4. CASE blk[p] = K - 1
    <3>1. ~Running(s, q)'
      BY <1>2, <2>4 DEF Running, NextBlock, TypeOK
    <3> QED
      BY <1>2, <2>1, <2>2, <2>3, <2>4, <3>1, RingAssumption DEF Passed
  <2>5. CASE blk[p] # K - 1
    <3>1. Running(s, q)' /\ blk'[p] = blk[p] + 1
      BY <1>2, <2>5 DEF Running, NextBlock, TypeOK, EntryPoint
    <3> QED
      BY <1>2, <2>1, <2>2, <2>3, <2>5, <3>1, RingAssumption DEF Passed
  <2> QED
    BY <2>4, <2>5
<1> QED
  BY <1>1, <1>2

\* Starting a task passes no block of it.
LEMMA PassedStart ==
  ASSUME TypeOK, InvTasks, NEW p \in Ranks, StartTask(p)
  PROVE  \A s : \A q \in Ranks, k \in Blocks : Passed(s, q, k)' <=> Passed(s, q, k)
<1> SUFFICES ASSUME NEW s, NEW q \in Ranks, NEW k \in Blocks
             PROVE  Passed(s, q, k)' <=> Passed(s, q, k)
  OBVIOUS
<1>1. PICK t \in todo[p] : /\ todo' = [todo EXCEPT ![p] = @ \ {t}]
                           /\ cur' = [cur EXCEPT ![p] = t]
  BY DEF StartTask
<1>2. CASE q # p
  BY <1>1, <1>2 DEF StartTask, TypeOK, Passed, Started, Running, hostVars
<1>3. CASE q = p /\ s = t
  <2>1. ~Started(s, q)
    BY <1>3 DEF Started
  <2>2. Running(s, q)' /\ blk'[q] = 0
    BY <1>1, <1>3 DEF StartTask, Running, TypeOK, EntryPoint
  <2> QED
    BY <2>1, <2>2, RingAssumption DEF Passed, Blocks
<1>4. CASE q = p /\ s # t
  BY <1>1, <1>4 DEF StartTask, TypeOK, Passed, Started, Running, hostVars
<1> QED
  BY <1>2, <1>3, <1>4

-----------------------------------------------------------------------------
(* Parts of the invariant that most steps leave alone *)

\* A message is made of the sender's tile and of where the sender is.
LEMMA MessageSame ==
  ASSUME NEW q, UNCHANGED <<kind, input>>, cur'[q] = cur[q], blk'[q] = blk[q], tile'[q] = tile[q]
  PROVE  Message(q)' = Message(q)
  BY DEF Message, Block

\* From its publication on, a rank's tile is its adjoint, and the message made
\* of it is the adjoint decayed by the rank's own gamma.
LEMMA MessageIs ==
  ASSUME TypeOK, ReverseInv, NEW p \in Ranks,
         pc[p] \in {"publish", "push", "flush", "notify", "reduce"}
  PROVE  LET b == BufOf(kind, cur[p])
         IN  Message(p) = Decay(InputId(calls, b, p, blk[p]), Adjoint(calls, b, p, blk[p]))
<1>1. kind # "none" /\ BufOf(kind, cur[p]) \in BuffersOf(kind)
  BY RunningTyped DEF ReverseInv
<1>2. Block(p, p) = InputId(calls, BufOf(kind, cur[p]), p, blk[p])
  BY <1>1 DEF ReverseInv, InvHost, Block
<1>3. tile[p] = Adjoint(calls, BufOf(kind, cur[p]), p, blk[p])
  BY DEF ReverseInv, InvData
<1> QED
  BY <1>2, <1>3 DEF Message

\* A step of a rank that is not on its way into or out of a store.
LEMMA StoresSame ==
  ASSUME InvStores, NEW p \in Ranks, pc[p] # "flush", pc'[p] \notin {"flush", "notify"},
         UNCHANGED <<kind, input, recv, inflight>>,
         \A q \in Ranks : q # p => /\ pc'[q] = pc[q] /\ cur'[q] = cur[q]
                                   /\ blk'[q] = blk[q] /\ tile'[q] = tile[q]
  PROVE  InvStores'
<1>1. \A q \in Ranks : q # p => Message(q)' = Message(q)
  BY MessageSame
<1>2. ASSUME NEW m \in inflight'
      PROVE  \E q \in Ranks : pc'[q] = "flush" /\ m = <<cur'[q], q - 1, blk'[q], Message(q)'>>
  <2>1. PICK q \in Ranks : pc[q] = "flush" /\ m = <<cur[q], q - 1, blk[q], Message(q)>>
    BY <1>2 DEF InvStores
  <2> QED
    BY <1>1, <2>1
<1>3. ASSUME NEW q \in Ranks
      PROVE  /\ pc'[q] = "flush" => \/ <<cur'[q], q - 1, blk'[q], Message(q)'>> \in inflight'
                                     \/ recv'[<<cur'[q], q - 1, blk'[q]>>] = Message(q)'
             /\ pc'[q] = "notify" => recv'[<<cur'[q], q - 1, blk'[q]>>] = Message(q)'
  BY <1>1 DEF InvStores
<1> QED
  BY <1>2, <1>3 DEF InvStores

\* Moving inside the loop body without passing the notify.
LEMMA InsideStep ==
  ASSUME TypeOK, ReverseInv, NEW p \in Ranks, NEW l \in {"form", "publish", "push", "flush", "notify"},
         pc[p] \notin {"idle", "reduce"}, pc' = [pc EXCEPT ![p] = l],
         l \in {"push", "flush", "notify"} => p > 0,
         UNCHANGED <<hostVars, sig, todo, cur, blk>>,
         inflight' = inflight \/ kind # "none"
  PROVE  InvHost' /\ InvTasks' /\ InvSignals'
<1>1. \A s, k : \A q \in Ranks : /\ Passed(s, q, k)' <=> Passed(s, q, k)
                                 /\ Running(s, q)' <=> Running(s, q)
  BY PassedSame DEF hostVars
<1>2. \A q \in Ranks : pc'[q] = "reduce" <=> pc[q] = "reduce"
  BY DEF TypeOK
<1>3. \A s, k : \A q \in Ranks : Sent(s, q, k)' <=> Sent(s, q, k)
  BY <1>1, <1>2 DEF Sent
<1>4. InvHost'
  BY RunningTyped DEF ReverseInv, InvHost, hostVars
<1>5. InvTasks'
  BY DEF ReverseInv, InvTasks, Started, hostVars, TypeOK
<1>6. InvSignals'
  <2>1. \A q \in Ranks : q < P - 1 => q + 1 \in Ranks
    BY RingAssumption DEF Ranks
  <2> QED
    BY <1>3, <2>1 DEF ReverseInv, InvSignals, hostVars
<1> QED
  BY <1>4, <1>5, <1>6

\* Steps that write no output and pass no block keep what the outputs hold.
LEMMA OutSame ==
  ASSUME InvOut, UNCHANGED <<calls, kind, hostDS, hostDG>>,
         \A s : \A q \in Ranks, k \in Blocks : /\ Passed(s, q, k)' => Passed(s, q, k)
                                               /\ Published(s, q, k)' => Published(s, q, k)
  PROVE  InvOut'
  BY DEF InvOut

LEMMA DeliveredSame ==
  ASSUME MessageDelivered, UNCHANGED <<calls, kind, sig, recv>>
  PROVE  MessageDelivered'
  BY DEF MessageDelivered

-----------------------------------------------------------------------------
(* The inductive invariant, one lemma per action *)

LEMMA InvInit == Init => ReverseInv
  BY RingAssumption
  DEF Init, ReverseInv, InvHost, InvTasks, InvStores, InvSignals, InvData, InvOut,
      MessageDelivered, SlotsOf, NumSlots, Tiles, Ranks

LEMMA InvStartRun ==
  ASSUME TypeOK, ReverseInv, NEW kd \in Kinds, StartRun(kd)
  PROVE  ReverseInv'
<1> USE RingAssumption
<1>1. kd # "none" /\ kind = "none" /\ kind' = kd /\ calls' = calls + 1
  BY DEF StartRun, Kinds
<1>2. inflight' = {} /\ \A p \in Ranks : pc'[p] = "idle" /\ todo'[p] = SlotsOf(kd)
  BY <1>1 DEF StartRun, ReverseInv, InvHost
<1>3. \A s, k : \A p \in Ranks : ~Passed(s, p, k)' /\ ~Published(s, p, k)' /\ ~Sent(s, p, k)'
  BY <1>1, <1>2 DEF Passed, Published, Sent, Started, Running
<1>4. \A c \in Cells : sig'[c] = 0
  BY DEF StartRun
<1>5. InvHost'
  <2>1. \A b \in BuffersOf(kd) : b \in Buffers
    BY DEF BuffersOf, Buffers
  <2> QED
    BY <1>1, <1>2, <2>1 DEF StartRun, InvHost
<1>6. InvTasks'
  BY <1>1, <1>2 DEF InvTasks
<1>7. InvStores'
  BY <1>2 DEF InvStores
<1>8. InvSignals'
  <2> SUFFICES ASSUME NEW s \in Slots, NEW p \in Ranks, NEW k \in Blocks
               PROVE  sig'[<<s, p, k>>] = 0 /\ (p < P - 1 => ~Sent(s, p + 1, k)')
    BY DEF InvSignals
  <2>1. p < P - 1 => p + 1 \in Ranks
    BY DEF Ranks
  <2> QED
    BY <1>3, <1>4, <2>1 DEF Cells
<1>9. InvData'
  BY <1>2 DEF InvData
<1>10. InvOut'
  <2>1. \A c \in Tiles : hostDG[c] = Zero => hostDG'[c] = Zero
    BY DEF StartRun, Cleared
  <2>2. \A b \in Buffers, k \in Blocks : <<b, 0, k>> \in Tiles
    BY DEF Tiles, Ranks
  <2> QED
    BY <1>3, <2>1, <2>2 DEF ReverseInv, InvOut
<1>11. MessageDelivered'
  <2> SUFFICES ASSUME NEW s \in SlotsOf(kd), NEW p \in Ranks, NEW k \in Blocks
               PROVE  ~(sig'[<<s, p, k>>] >= 1)
    BY <1>1 DEF MessageDelivered
  <2> QED
    BY <1>4, SlotsTyped DEF Cells
<1> QED
  BY <1>5, <1>6, <1>7, <1>8, <1>9, <1>10, <1>11 DEF ReverseInv

LEMMA InvReturn ==
  ASSUME TypeOK, ReverseInv, Return
  PROVE  ReverseInv'
<1>1. /\ kind' = "none" /\ inflight' = inflight /\ hostDG' = hostDG
      /\ \A p \in Ranks : pc'[p] = "idle" /\ todo'[p] = {} /\ pc[p] = "idle"
  BY DEF Return, Drained, winVars
<1>2. inflight' = {}
  BY <1>1 DEF ReverseInv, InvStores
<1>3. InvHost' /\ InvTasks' /\ InvStores' /\ InvData'
  BY <1>1, <1>2 DEF InvHost, InvTasks, InvStores, InvData
<1>4. InvSignals' /\ InvOut' /\ MessageDelivered'
  BY <1>1 DEF ReverseInv, InvSignals, InvOut, MessageDelivered
<1> QED
  BY <1>3, <1>4 DEF ReverseInv

LEMMA InvStartTask ==
  ASSUME TypeOK, ReverseInv, NEW p \in Ranks, StartTask(p)
  PROVE  ReverseInv'
<1> USE RingAssumption
<1>1. PICK t \in todo[p] : /\ todo' = [todo EXCEPT ![p] = @ \ {t}]
                           /\ cur' = [cur EXCEPT ![p] = t]
  BY DEF StartTask
<1>2. t \in SlotsOf(kind) /\ kind # "none"
  BY DEF ReverseInv, InvTasks, SlotsOf, NumSlots
<1>3. /\ pc[p] = "idle" /\ pc' = [pc EXCEPT ![p] = EntryPoint(p)]
      /\ UNCHANGED <<calls, kind, input, hostDS, hostDG, sig, recv, inflight, tile>>
  BY DEF StartTask, hostVars, winVars
<1>4. \A s : \A q \in Ranks, k \in Blocks : Passed(s, q, k)' <=> Passed(s, q, k)
  BY PassedStart DEF ReverseInv
<1>5. \A q \in Ranks : q # p => /\ pc'[q] = pc[q] /\ cur'[q] = cur[q] /\ blk'[q] = blk[q]
                                /\ tile'[q] = tile[q] /\ todo'[q] = todo[q]
  BY <1>1, <1>3 DEF StartTask, TypeOK
<1>6. /\ pc'[p] \in {"form", "wait"} /\ (pc'[p] = "wait" <=> p # P - 1)
      /\ cur'[p] = t /\ todo'[p] = todo[p] \ {t}
  BY <1>1, <1>3 DEF TypeOK, EntryPoint, IsSource
<1>7. InvHost'
  BY <1>2, <1>3 DEF ReverseInv, InvHost
<1>8. InvTasks'
  <2> SUFFICES ASSUME NEW q \in Ranks
               PROVE  /\ todo'[q] \subseteq SlotsOf(kind)
                      /\ pc'[q] # "idle" => cur'[q] \in SlotsOf(kind) /\ cur'[q] \notin todo'[q]
                      /\ pc'[q] = "wait" => q < P - 1
                      /\ pc'[q] \in {"push", "flush", "notify", "reduce"} => q > 0
    BY <1>3 DEF InvTasks, Started
  <2>1. CASE q = p
    BY <1>2, <1>6, <2>1 DEF ReverseInv, InvTasks, Ranks
  <2>2. CASE q # p
    BY <1>5, <2>2 DEF ReverseInv, InvTasks, Started
  <2> QED
    BY <2>1, <2>2
<1>9. InvStores'
  BY <1>3, <1>5, <1>6, StoresSame DEF ReverseInv
<1>10. \A s : \A q \in Ranks, k \in Blocks : /\ Sent(s, q, k)' <=> Sent(s, q, k)
                                             /\ Published(s, q, k)' <=> Published(s, q, k)
  BY <1>3, <1>4, <1>5, <1>6 DEF Sent, Published, Running
<1>11. InvSignals'
  <2>1. \A q \in Ranks : q < P - 1 => q + 1 \in Ranks
    BY DEF Ranks
  <2> QED
    BY <1>3, <1>10, <2>1 DEF ReverseInv, InvSignals
<1>12. InvData'
  BY <1>3, <1>5, <1>6 DEF ReverseInv, InvData, Ranks
<1>13. InvOut' /\ MessageDelivered'
  BY <1>3, <1>4, <1>10, OutSame, DeliveredSame DEF ReverseInv
<1> QED
  BY <1>7, <1>8, <1>9, <1>11, <1>12, <1>13 DEF ReverseInv

LEMMA InvWait ==
  ASSUME TypeOK, ReverseInv, NEW p \in Ranks, Wait(p)
  PROVE  ReverseInv'
<1>1. /\ pc[p] = "wait" /\ pc' = [pc EXCEPT ![p] = "form"]
      /\ sig[<<cur[p], p, blk[p]>>] >= 1
      /\ UNCHANGED <<hostVars, hostDS, hostDG, sig, recv, inflight, todo, cur, blk, tile>>
  BY DEF Wait, winVars
<1>2. InvHost' /\ InvTasks' /\ InvSignals'
  BY <1>1, InsideStep
<1>3. InvStores'
  BY <1>1, StoresSame DEF ReverseInv, TypeOK, hostVars
<1>4. InvData'
  BY <1>1 DEF ReverseInv, InvData, TypeOK, hostVars
<1>5. InvOut'
  <2>1. \A s, k : \A q \in Ranks : /\ Passed(s, q, k)' => Passed(s, q, k)
                                   /\ Published(s, q, k)' => Published(s, q, k)
    BY <1>1, PassedSame DEF Published, hostVars, TypeOK, Running
  <2> QED
    BY <1>1, <2>1, OutSame DEF ReverseInv, hostVars
<1>6. MessageDelivered'
  BY <1>1, DeliveredSame DEF ReverseInv, hostVars
<1> QED
  BY <1>2, <1>3, <1>4, <1>5, <1>6 DEF ReverseInv

LEMMA InvForm ==
  ASSUME TypeOK, ReverseInv, NEW p \in Ranks, Form(p)
  PROVE  ReverseInv'
<1> USE RingAssumption
<1> DEFINE b == BufOf(kind, cur[p])
<1>1. /\ pc[p] = "form" /\ pc' = [pc EXCEPT ![p] = "publish"]
      /\ UNCHANGED <<hostVars, hostDS, hostDG, sig, recv, inflight, todo, cur, blk>>
      /\ \A q \in Ranks : q # p => tile'[q] = tile[q]
  BY DEF Form, winVars, TypeOK
<1>2. InvHost' /\ InvTasks' /\ InvSignals'
  BY <1>1, InsideStep
<1>3. InvStores'
  BY <1>1, StoresSame DEF ReverseInv, TypeOK, hostVars
<1>4. tile'[p] = Adjoint(calls, b, p, blk[p])
  <2>1. kind # "none" /\ cur[p] \in SlotsOf(kind) /\ b \in BuffersOf(kind)
    BY <1>1, RunningTyped DEF ReverseInv
  <2>2. Block(p, p) = InputId(calls, b, p, blk[p])
    BY <2>1 DEF ReverseInv, InvHost, Block
  <2>3. CASE p = P - 1
    <3>1. tile'[p] = Leaf(Block(p, p))
      BY <2>3 DEF Form, IsSource, TypeOK
    <3> QED
      BY <2>2, <2>3, <3>1, AdjointBase
  <2>4. CASE p # P - 1
    <3>1. p \in Nat /\ p < P - 1
      BY <2>4 DEF Ranks
    <3>2. sig[<<cur[p], p, blk[p]>>] >= 1 /\ blk[p] \in Blocks
      BY <1>1, <3>1 DEF ReverseInv, InvData, TypeOK
    <3>3. recv[<<cur[p], p, blk[p]>>]
            = Decay(InputId(calls, b, p + 1, blk[p]), Adjoint(calls, b, p + 1, blk[p]))
      BY <2>1, <3>2 DEF ReverseInv, MessageDelivered
    <3>4. tile'[p] = Leaf(Block(p, p)) \cup recv[<<cur[p], p, blk[p]>>]
      BY <2>4 DEF Form, IsSource, TypeOK
    <3> QED
      BY <2>2, <3>1, <3>3, <3>4, AdjointStep
  <2> QED
    BY <2>3, <2>4
<1>5. InvData'
  BY <1>1, <1>4 DEF ReverseInv, InvData, TypeOK, hostVars
<1>6. InvOut'
  <2>1. \A s, k : \A q \in Ranks : /\ Passed(s, q, k)' => Passed(s, q, k)
                                   /\ Published(s, q, k)' => Published(s, q, k)
    BY <1>1, PassedSame DEF Published, hostVars, TypeOK, Running
  <2> QED
    BY <1>1, <2>1, OutSame DEF ReverseInv, hostVars
<1>7. MessageDelivered'
  BY <1>1, DeliveredSame DEF ReverseInv, hostVars
<1> QED
  BY <1>2, <1>3, <1>5, <1>6, <1>7 DEF ReverseInv

LEMMA InvPush ==
  ASSUME TypeOK, ReverseInv, NEW p \in Ranks, Push(p)
  PROVE  ReverseInv'
<1>1. /\ pc[p] = "push" /\ pc' = [pc EXCEPT ![p] = "flush"]
      /\ inflight' = inflight \cup {<<cur[p], p - 1, blk[p], Message(p)>>}
      /\ UNCHANGED <<hostVars, hostDS, hostDG, sig, recv, todo, cur, blk, tile>>
  BY DEF Push, Message
<1>2. kind # "none" /\ p > 0
  BY <1>1, RunningTyped DEF ReverseInv, InvTasks
<1>3. InvHost' /\ InvTasks' /\ InvSignals'
  BY <1>1, <1>2, InsideStep
<1>4. InvStores'
  <2>1. \A q \in Ranks : Message(q)' = Message(q)
    BY <1>1, MessageSame DEF hostVars
  <2>2. \A q \in Ranks : q # p => pc'[q] = pc[q]
    BY <1>1 DEF TypeOK
  <2>3. pc'[p] = "flush"
    BY <1>1 DEF TypeOK
  <2>4. ASSUME NEW m \in inflight'
        PROVE  \E q \in Ranks : pc'[q] = "flush" /\ m = <<cur'[q], q - 1, blk'[q], Message(q)'>>
    <3>1. CASE m \in inflight
      <4>1. PICK q \in Ranks : pc[q] = "flush" /\ m = <<cur[q], q - 1, blk[q], Message(q)>>
        BY <3>1 DEF ReverseInv, InvStores
      <4> QED
        BY <1>1, <2>1, <2>2, <4>1
    <3>2. CASE m = <<cur[p], p - 1, blk[p], Message(p)>>
      BY <1>1, <2>1, <2>3, <3>2
    <3> QED
      BY <1>1, <2>4, <3>1, <3>2
  <2>5. ASSUME NEW q \in Ranks
        PROVE  /\ pc'[q] = "flush" => \/ <<cur'[q], q - 1, blk'[q], Message(q)'>> \in inflight'
                                       \/ recv'[<<cur'[q], q - 1, blk'[q]>>] = Message(q)'
               /\ pc'[q] = "notify" => recv'[<<cur'[q], q - 1, blk'[q]>>] = Message(q)'
    BY <1>1, <2>1, <2>2, <2>3 DEF ReverseInv, InvStores
  <2> QED
    BY <2>4, <2>5 DEF InvStores
<1>5. InvData'
  BY <1>1 DEF ReverseInv, InvData, TypeOK, hostVars
<1>6. InvOut'
  <2>1. \A s, k : \A q \in Ranks : /\ Passed(s, q, k)' => Passed(s, q, k)
                                   /\ Published(s, q, k)' => Published(s, q, k)
    BY <1>1, PassedSame DEF Published, hostVars, TypeOK, Running
  <2> QED
    BY <1>1, <2>1, OutSame DEF ReverseInv, hostVars
<1>7. MessageDelivered'
  BY <1>1, DeliveredSame DEF ReverseInv, hostVars
<1> QED
  BY <1>3, <1>4, <1>5, <1>6, <1>7 DEF ReverseInv

LEMMA InvFlush ==
  ASSUME TypeOK, ReverseInv, NEW p \in Ranks, Flush(p)
  PROVE  ReverseInv'
<1>1. /\ pc[p] = "flush" /\ pc' = [pc EXCEPT ![p] = "notify"]
      /\ \A m \in inflight : m[2] # p - 1
      /\ UNCHANGED <<hostVars, hostDS, hostDG, sig, recv, inflight, todo, cur, blk, tile>>
  BY DEF Flush, winVars
<1>2. p > 0
  BY <1>1 DEF ReverseInv, InvTasks
<1>3. InvHost' /\ InvTasks' /\ InvSignals'
  BY <1>1, <1>2, InsideStep
<1>4. InvStores'
  <2>1. \A q \in Ranks : Message(q)' = Message(q)
    BY <1>1, MessageSame DEF hostVars
  <2>2. \A q \in Ranks : q # p => pc'[q] = pc[q]
    BY <1>1 DEF TypeOK
  <2>3. recv[<<cur[p], p - 1, blk[p]>>] = Message(p)
    BY <1>1 DEF ReverseInv, InvStores
  <2>4. ASSUME NEW m \in inflight'
        PROVE  \E q \in Ranks : pc'[q] = "flush" /\ m = <<cur'[q], q - 1, blk'[q], Message(q)'>>
    <3>1. PICK q \in Ranks : pc[q] = "flush" /\ m = <<cur[q], q - 1, blk[q], Message(q)>>
      BY <1>1, <2>4 DEF ReverseInv, InvStores
    <3>2. q # p
      BY <1>1, <2>4, <3>1
    <3> QED
      BY <1>1, <2>1, <2>2, <3>1, <3>2
  <2>5. ASSUME NEW q \in Ranks
        PROVE  /\ pc'[q] = "flush" => \/ <<cur'[q], q - 1, blk'[q], Message(q)'>> \in inflight'
                                       \/ recv'[<<cur'[q], q - 1, blk'[q]>>] = Message(q)'
               /\ pc'[q] = "notify" => recv'[<<cur'[q], q - 1, blk'[q]>>] = Message(q)'
    BY <1>1, <2>1, <2>2, <2>3 DEF ReverseInv, InvStores, TypeOK
  <2> QED
    BY <2>4, <2>5 DEF InvStores
<1>5. InvData'
  BY <1>1 DEF ReverseInv, InvData, TypeOK, hostVars
<1>6. InvOut'
  <2>1. \A s, k : \A q \in Ranks : /\ Passed(s, q, k)' => Passed(s, q, k)
                                   /\ Published(s, q, k)' => Published(s, q, k)
    BY <1>1, PassedSame DEF Published, hostVars, TypeOK, Running
  <2> QED
    BY <1>1, <2>1, OutSame DEF ReverseInv, hostVars
<1>7. MessageDelivered'
  BY <1>1, DeliveredSame DEF ReverseInv, hostVars
<1> QED
  BY <1>3, <1>4, <1>5, <1>6, <1>7 DEF ReverseInv

LEMMA InvPublish ==
  ASSUME TypeOK, ReverseInv, NEW p \in Ranks, Publish(p)
  PROVE  ReverseInv'
<1> USE RingAssumption
<1> DEFINE b == BufOf(kind, cur[p])
           i == <<b, p, blk[p]>>
           Rest == /\ InvHost' /\ InvTasks' /\ InvSignals' /\ InvStores' /\ InvData'
                   /\ \A s : \A q \in Ranks, k \in Blocks :
                        /\ Published(s, q, k)' =>
                             Published(s, q, k) \/ (q = p /\ s = cur[p] /\ k = blk[p])
                        /\ q > 0 => (Passed(s, q, k)' => Passed(s, q, k))
<1>1. /\ pc[p] = "publish"
      /\ hostDS' = [hostDS EXCEPT ![i] = tile[p]]
      /\ UNCHANGED <<calls, kind, input, dS, dgamma, hostDG, sig, recv, inflight, todo, cur, tile>>
  BY DEF Publish, hostVars, winVars
<1>2. kind # "none" /\ kind \in Kinds /\ i \in Tiles
  BY <1>1, RunningTyped DEF ReverseInv, Tiles, TypeOK
<1>3. tile[p] = Adjoint(calls, b, p, blk[p])
  BY <1>1 DEF ReverseInv, InvData
<1>4. \A q \in Ranks : q # p => pc'[q] = pc[q] /\ blk'[q] = blk[q]
  BY DEF Publish, NextBlock, TypeOK
<1>5. ASSUME p = 0 PROVE Rest
  <2>1. NextBlock(p)
    BY <1>5 DEF Publish, IsTerminal
  <2>2. pc'[p] \in {"idle", "wait"}
    BY <1>5, <2>1 DEF NextBlock, EntryPoint, IsSource, TypeOK
  <2>3. \A s : \A q \in Ranks, k \in Blocks :
          Passed(s, q, k)' <=> Passed(s, q, k) \/ (q = p /\ s = cur[p] /\ k = blk[p])
    BY <1>1, <2>1, PassedNext DEF ReverseInv
  <2>4. InvHost' /\ InvTasks'
    BY <1>1, <1>2, <1>4, <1>5, <2>2 DEF ReverseInv, InvHost, InvTasks, Started
  <2>5. InvSignals'
    <3>1. \A q \in Ranks : q < P - 1 => q + 1 \in Ranks /\ q + 1 # p
      BY <1>5 DEF Ranks
    <3>2. \A s : \A q \in Ranks, k \in Blocks : q # p => (Sent(s, q, k)' <=> Sent(s, q, k))
      BY <1>1, <1>4, <2>3 DEF Sent, Running
    <3> QED
      BY <1>1, <3>1, <3>2 DEF ReverseInv, InvSignals
  <2>6. InvStores'
    BY <1>1, <1>4, <2>2, StoresSame DEF ReverseInv
  <2>7. InvData'
    BY <1>1, <1>4, <2>2 DEF ReverseInv, InvData
  <2>8. \A s : \A q \in Ranks, k \in Blocks :
          Published(s, q, k)' => Published(s, q, k) \/ (q = p /\ s = cur[p] /\ k = blk[p])
    BY <1>1, <1>4, <2>2, <2>3 DEF Published, Running
  <2> QED
    BY <1>5, <2>3, <2>4, <2>5, <2>6, <2>7, <2>8
<1>6. ASSUME p # 0 PROVE Rest
  <2>1. pc' = [pc EXCEPT ![p] = "push"] /\ UNCHANGED blk
    BY <1>6 DEF Publish, IsTerminal
  <2>2. p > 0
    BY <1>6 DEF Ranks
  <2>3. InvHost' /\ InvTasks' /\ InvSignals'
    BY <1>1, <2>1, <2>2, InsideStep DEF hostVars
  <2>4. InvStores'
    BY <1>1, <1>4, <2>1, StoresSame DEF ReverseInv, TypeOK
  <2>5. InvData'
    BY <1>1, <2>1 DEF ReverseInv, InvData, TypeOK
  <2>6. \A s, k : \A q \in Ranks : /\ Passed(s, q, k)' <=> Passed(s, q, k)
                                   /\ Running(s, q)' <=> Running(s, q)
    BY <1>1, <2>1, PassedSame
  <2>7. \A s : \A q \in Ranks, k \in Blocks :
          Published(s, q, k)' => Published(s, q, k) \/ (q = p /\ s = cur[p] /\ k = blk[p])
    BY <1>1, <2>1, <2>6 DEF Published, Running, TypeOK
  <2> QED
    BY <2>3, <2>4, <2>5, <2>6, <2>7
<1>7. Rest
  BY <1>5, <1>6
<1>8. ASSUME NEW s \in SlotsOf(kind), NEW q \in Ranks, NEW k \in Blocks, Published(s, q, k)'
      PROVE  hostDS'[<<BufOf(kind, s), q, k>>] = Adjoint(calls, BufOf(kind, s), q, k)
  <2>1. <<BufOf(kind, s), q, k>> \in Tiles
    BY <1>2, BufOfSlot DEF Tiles
  <2>2. CASE <<BufOf(kind, s), q, k>> = i
    <3>1. hostDS'[<<BufOf(kind, s), q, k>>] = tile[p]
      BY <1>1, <1>2, <2>2 DEF TypeOK
    <3>2. BufOf(kind, s) = b /\ q = p /\ k = blk[p]
      BY <2>2
    <3> QED
      BY <1>3, <3>1, <3>2
  <2>3. CASE <<BufOf(kind, s), q, k>> # i
    <3>1. hostDS'[<<BufOf(kind, s), q, k>>] = hostDS[<<BufOf(kind, s), q, k>>]
      BY <1>1, <2>1, <2>3 DEF TypeOK
    <3>2. Published(s, q, k)
      BY <1>7, <1>8, <2>3
    <3> QED
      BY <1>2, <3>1, <3>2 DEF ReverseInv, InvOut
  <2> QED
    BY <2>2, <2>3
<1>9. InvOut'
  BY <1>1, <1>2, <1>7, <1>8 DEF ReverseInv, InvOut
<1>10. MessageDelivered'
  BY <1>1, DeliveredSame DEF ReverseInv
<1> QED
  BY <1>7, <1>9, <1>10 DEF ReverseInv

\* A store under way targets a block whose signal is still down.
LEMMA StoreTarget ==
  ASSUME TypeOK, ReverseInv, NEW m \in inflight
  PROVE  \E p \in Ranks :
           /\ pc[p] = "flush" /\ p > 0 /\ m = <<cur[p], p - 1, blk[p], Message(p)>>
           /\ kind # "none" /\ <<cur[p], p - 1, blk[p]>> \in Cells
           /\ sig[<<cur[p], p - 1, blk[p]>>] = 0
<1> USE RingAssumption
<1>1. PICK p \in Ranks : pc[p] = "flush" /\ m = <<cur[p], p - 1, blk[p], Message(p)>>
  BY DEF ReverseInv, InvStores
<1>2. p > 0 /\ kind # "none" /\ cur[p] \in Slots /\ blk[p] \in Blocks
  BY <1>1, RunningTyped DEF ReverseInv, InvTasks, TypeOK
<1>3. p - 1 \in Ranks /\ p - 1 < P - 1 /\ (p - 1) + 1 = p
  BY <1>2 DEF Ranks
<1>4. ~Sent(cur[p], p, blk[p])
  BY <1>1 DEF Sent, Passed, Running, TypeOK, Blocks
<1>5. sig[<<cur[p], p - 1, blk[p]>>] = 0
  BY <1>2, <1>3, <1>4 DEF ReverseInv, InvSignals
<1> QED
  BY <1>1, <1>2, <1>3, <1>5 DEF Cells

LEMMA InvLand ==
  ASSUME TypeOK, ReverseInv, NEW m \in inflight, Land(m)
  PROVE  ReverseInv'
<1> USE RingAssumption
<1>1. PICK p \in Ranks : /\ pc[p] = "flush" /\ m = <<cur[p], p - 1, blk[p], Message(p)>>
                         /\ kind # "none" /\ <<cur[p], p - 1, blk[p]>> \in Cells
                         /\ sig[<<cur[p], p - 1, blk[p]>>] = 0
  BY StoreTarget
<1>2. /\ recv' = [recv EXCEPT ![<<cur[p], p - 1, blk[p]>>] = Message(p)]
      /\ inflight' = inflight \ {m}
      /\ UNCHANGED <<calls, kind, input, hostDS, hostDG, sig, todo, pc, cur, blk, tile>>
  BY <1>1 DEF Land, hostVars
<1>3. \A q \in Ranks : Message(q)' = Message(q)
  BY <1>2, MessageSame
<1>4. ASSUME NEW q \in Ranks, q # p, pc[q] \in {"flush", "notify"}
      PROVE  recv'[<<cur[q], q - 1, blk[q]>>] = recv[<<cur[q], q - 1, blk[q]>>]
  <2>1. <<cur[q], q - 1, blk[q]>> # <<cur[p], p - 1, blk[p]>>
    BY <1>4 DEF Ranks
  <2>2. <<cur[q], q - 1, blk[q]>> \in Cells
    BY <1>4 DEF ReverseInv, InvTasks, Ranks, Cells, TypeOK
  <2> QED
    BY <1>2, <2>1, <2>2 DEF TypeOK
<1>5. InvStores'
  <2>1. ASSUME NEW n \in inflight'
        PROVE  \E q \in Ranks : pc'[q] = "flush" /\ n = <<cur'[q], q - 1, blk'[q], Message(q)'>>
    <3>1. PICK q \in Ranks : pc[q] = "flush" /\ n = <<cur[q], q - 1, blk[q], Message(q)>>
      BY <1>2, <2>1 DEF ReverseInv, InvStores
    <3> QED
      BY <1>2, <1>3, <3>1
  <2>2. ASSUME NEW q \in Ranks, pc[q] = "flush"
        PROVE  \/ <<cur[q], q - 1, blk[q], Message(q)>> \in inflight'
               \/ recv'[<<cur[q], q - 1, blk[q]>>] = Message(q)
    <3>1. CASE q = p
      BY <1>1, <1>2, <3>1 DEF TypeOK
    <3>2. CASE q # p
      <4>1. <<cur[q], q - 1, blk[q], Message(q)>> # m
        BY <1>1, <3>2 DEF Ranks
      <4> QED
        BY <1>2, <1>4, <2>2, <3>2, <4>1 DEF ReverseInv, InvStores
    <3> QED
      BY <3>1, <3>2
  <2>3. ASSUME NEW q \in Ranks, pc[q] = "notify"
        PROVE  recv'[<<cur[q], q - 1, blk[q]>>] = Message(q)
    BY <1>1, <1>4, <2>3 DEF ReverseInv, InvStores
  <2> QED
    BY <1>2, <1>3, <2>1, <2>2, <2>3 DEF InvStores
<1>6. MessageDelivered'
  <2> SUFFICES ASSUME NEW s \in SlotsOf(kind), NEW q \in Ranks, NEW k \in Blocks,
                      sig[<<s, q, k>>] >= 1
               PROVE  recv'[<<s, q, k>>] = recv[<<s, q, k>>]
    BY <1>1, <1>2 DEF ReverseInv, MessageDelivered
  <2>1. <<s, q, k>> # <<cur[p], p - 1, blk[p]>>
    BY <1>1
  <2>2. <<s, q, k>> \in Cells
    BY <1>1, SlotsTyped DEF Cells, TypeOK
  <2> QED
    BY <1>2, <2>1, <2>2 DEF TypeOK
<1>7. InvHost' /\ InvTasks'
  BY <1>1, <1>2 DEF ReverseInv, InvHost, InvTasks, Started
<1>8. InvSignals' /\ InvData'
  BY <1>2 DEF ReverseInv, InvSignals, InvData, Sent, Passed, Started, Running
<1>9. InvOut'
  BY <1>2, OutSame DEF ReverseInv, Published, Passed, Started, Running
<1> QED
  BY <1>5, <1>6, <1>7, <1>8, <1>9 DEF ReverseInv

LEMMA InvNotify ==
  ASSUME TypeOK, ReverseInv, NEW p \in Ranks, Notify(p)
  PROVE  ReverseInv'
<1> USE RingAssumption
<1> DEFINE i == <<cur[p], p - 1, blk[p]>>
<1>1. /\ pc[p] = "notify" /\ pc' = [pc EXCEPT ![p] = "reduce"]
      /\ sig' = [sig EXCEPT ![i] = @ + 1]
      /\ UNCHANGED <<calls, kind, input, hostDS, hostDG, recv, inflight, todo, cur, blk, tile>>
  BY DEF Notify, hostVars
<1>2. kind \in Kinds /\ kind # "none" /\ cur[p] \in SlotsOf(kind) /\ p > 0
  BY <1>1, RunningTyped DEF ReverseInv, InvTasks
<1>3. /\ p - 1 \in Ranks /\ p - 1 < P - 1 /\ (p - 1) + 1 = p
      /\ cur[p] \in Slots /\ blk[p] \in Blocks /\ i \in Cells
  BY <1>2 DEF Ranks, Cells, TypeOK
<1>4. pc'[p] = "reduce" /\ \A q \in Ranks : q # p => pc'[q] = pc[q]
  BY <1>1 DEF TypeOK
<1>5. \A s, k : \A q \in Ranks : /\ Passed(s, q, k)' <=> Passed(s, q, k)
                                 /\ Running(s, q)' <=> Running(s, q)
  BY <1>1, PassedSame
<1>6. \A s, k : \A q \in Ranks :
        Sent(s, q, k)' <=> Sent(s, q, k) \/ (q = p /\ s = cur[p] /\ k = blk[p])
  BY <1>1, <1>4, <1>5 DEF Sent, Running
<1>7. ~Sent(cur[p], p, blk[p])
  BY <1>1 DEF Sent, Passed, Running, TypeOK, Blocks
<1>8. sig[i] = 0 /\ sig'[i] = 1
  <2>1. sig[i] = 0
    BY <1>2, <1>3, <1>7 DEF ReverseInv, InvSignals
  <2> QED
    BY <1>1, <1>3, <2>1 DEF TypeOK
<1>9. \A c \in Cells : c # i => sig'[c] = sig[c]
  BY <1>1 DEF TypeOK
<1>10. InvSignals'
  <2> SUFFICES ASSUME NEW s \in Slots, NEW q \in Ranks, NEW k \in Blocks
               PROVE  sig'[<<s, q, k>>] = IF q < P - 1 /\ Sent(s, q + 1, k)' THEN 1 ELSE 0
    BY DEF InvSignals
  <2>1. <<s, q, k>> \in Cells
    BY DEF Cells
  <2>2. q < P - 1 => q + 1 \in Ranks
    BY DEF Ranks
  <2>3. CASE <<s, q, k>> = i
    <3>1. s = cur[p] /\ q = p - 1 /\ k = blk[p]
      BY <2>3
    <3> QED
      BY <1>3, <1>6, <1>8, <3>1
  <2>4. CASE <<s, q, k>> # i
    <3>1. q < P - 1 => ~(q + 1 = p /\ s = cur[p] /\ k = blk[p])
      BY <2>4 DEF Ranks
    <3>2. q < P - 1 => (Sent(s, q + 1, k)' <=> Sent(s, q + 1, k))
      BY <1>6, <2>2, <3>1
    <3>3. sig[<<s, q, k>>] = IF q < P - 1 /\ Sent(s, q + 1, k) THEN 1 ELSE 0
      BY <1>2 DEF ReverseInv, InvSignals
    <3> QED
      BY <1>9, <2>1, <2>4, <3>2, <3>3
  <2> QED
    BY <2>3, <2>4
<1>11. MessageDelivered'
  <2> SUFFICES ASSUME NEW s \in SlotsOf(kind), NEW q \in Ranks, NEW k \in Blocks,
                      sig'[<<s, q, k>>] >= 1
               PROVE  LET b == BufOf(kind, s)
                      IN  recv[<<s, q, k>>]
                            = Decay(InputId(calls, b, q + 1, k), Adjoint(calls, b, q + 1, k))
    BY <1>1 DEF MessageDelivered
  <2>1. <<s, q, k>> \in Cells
    BY <1>2, SlotsTyped DEF Cells
  <2>2. CASE <<s, q, k>> = i
    <3>1. s = cur[p] /\ q = p - 1 /\ k = blk[p]
      BY <2>2
    <3>2. recv[i] = Message(p)
      BY <1>1 DEF ReverseInv, InvStores
    <3> QED
      BY <1>1, <1>3, <3>1, <3>2, MessageIs
  <2>3. CASE <<s, q, k>> # i
    BY <1>2, <1>9, <2>1, <2>3 DEF ReverseInv, MessageDelivered
  <2> QED
    BY <2>2, <2>3
<1>12. InvHost' /\ InvTasks'
  BY <1>1, <1>2, <1>4 DEF ReverseInv, InvHost, InvTasks, Started
<1>13. InvStores'
  BY <1>1, <1>4, StoresSame DEF ReverseInv
<1>14. InvData'
  <2>1. ASSUME NEW q \in Ranks, pc'[q] = "form", q < P - 1
        PROVE  sig'[<<cur[q], q, blk[q]>>] >= 1
    <3>1. sig[<<cur[q], q, blk[q]>>] >= 1
      BY <1>4, <2>1 DEF ReverseInv, InvData
    <3>2. <<cur[q], q, blk[q]>> # i
      BY <1>8, <3>1
    <3>3. <<cur[q], q, blk[q]>> \in Cells
      BY DEF TypeOK, Cells
    <3> QED
      BY <1>9, <3>1, <3>2, <3>3
  <2> QED
    BY <1>1, <1>4, <2>1 DEF ReverseInv, InvData
<1>15. InvOut'
  <2>1. \A s, k : \A q \in Ranks : Published(s, q, k)' => Published(s, q, k)
    BY <1>1, <1>4, <1>5 DEF Published, Running
  <2> QED
    BY <1>1, <1>5, <2>1, OutSame DEF ReverseInv
<1> QED
  BY <1>10, <1>11, <1>12, <1>13, <1>14, <1>15 DEF ReverseInv

LEMMA InvReduce ==
  ASSUME TypeOK, ReverseInv, NEW p \in Ranks, Reduce(p)
  PROVE  ReverseInv'
<1> USE RingAssumption
<1> DEFINE b == BufOf(kind, cur[p])
           i == <<b, p, blk[p]>>
<1>1. /\ pc[p] = "reduce"
      /\ hostDG' = [hostDG EXCEPT ![i] = RowSum(tile[p], Block(p, p - 1))]
      /\ NextBlock(p)
      /\ UNCHANGED <<calls, kind, input, hostDS, sig, recv, inflight, todo, cur, tile>>
  BY DEF Reduce, hostVars, winVars
<1>2. /\ kind # "none" /\ kind \in Kinds /\ p > 0
      /\ b \in Buffers /\ b \in BuffersOf(kind) /\ i \in Tiles
  BY <1>1, RunningTyped DEF ReverseInv, InvTasks, Tiles, TypeOK
<1>3. RowSum(tile[p], Block(p, p - 1)) = GammaGrad(calls, b, p, blk[p])
  <2>1. tile[p] = Adjoint(calls, b, p, blk[p])
    BY <1>1 DEF ReverseInv, InvData
  <2>2. Block(p, p - 1) = InputId(calls, b, p - 1, blk[p])
    BY <1>2 DEF ReverseInv, InvHost, Block
  <2> QED
    BY <1>2, <2>1, <2>2 DEF GammaGrad
<1>4. /\ pc'[p] \in {"idle", "wait", "form"} /\ (pc'[p] = "wait" => p # P - 1)
      /\ (pc'[p] = "form" => p = P - 1)
  BY <1>1 DEF NextBlock, EntryPoint, IsSource, TypeOK
<1>5. \A q \in Ranks : q # p => pc'[q] = pc[q] /\ blk'[q] = blk[q]
  BY <1>1 DEF NextBlock, TypeOK
<1>6. \A s : \A q \in Ranks, k \in Blocks :
        Passed(s, q, k)' <=> Passed(s, q, k) \/ (q = p /\ s = cur[p] /\ k = blk[p])
  BY <1>1, PassedNext DEF ReverseInv
<1>7. \A s : \A q \in Ranks, k \in Blocks : /\ Sent(s, q, k)' <=> Sent(s, q, k)
                                            /\ Published(s, q, k)' => Published(s, q, k)
  <2> SUFFICES ASSUME NEW s, NEW q \in Ranks, NEW k \in Blocks
               PROVE  /\ Sent(s, q, k)' <=> Sent(s, q, k)
                      /\ Published(s, q, k)' => Published(s, q, k)
    OBVIOUS
  <2>1. CASE q = p
    BY <1>1, <1>4, <1>6, <2>1 DEF Sent, Published, Running
  <2>2. CASE q # p
    BY <1>1, <1>5, <1>6, <2>2 DEF Sent, Published, Running
  <2> QED
    BY <2>1, <2>2
<1>8. InvHost' /\ InvTasks'
  BY <1>1, <1>2, <1>4, <1>5 DEF ReverseInv, InvHost, InvTasks, Started, Ranks
<1>9. InvStores'
  BY <1>1, <1>4, <1>5, StoresSame DEF ReverseInv
<1>10. InvSignals'
  <2>1. \A q \in Ranks : q < P - 1 => q + 1 \in Ranks
    BY DEF Ranks
  <2> QED
    BY <1>1, <1>7, <2>1 DEF ReverseInv, InvSignals
<1>11. InvData'
  BY <1>1, <1>4, <1>5 DEF ReverseInv, InvData
<1>12. ASSUME NEW s \in SlotsOf(kind), NEW q \in Ranks, NEW k \in Blocks, Passed(s, q, k)', q > 0
       PROVE  hostDG'[<<BufOf(kind, s), q, k>>] = GammaGrad(calls, BufOf(kind, s), q, k)
  <2>1. <<BufOf(kind, s), q, k>> \in Tiles
    BY <1>2, BufOfSlot DEF Tiles
  <2>2. CASE <<BufOf(kind, s), q, k>> = i
    <3>1. hostDG'[<<BufOf(kind, s), q, k>>] = GammaGrad(calls, b, p, blk[p])
      BY <1>1, <1>2, <1>3, <2>2 DEF TypeOK
    <3>2. BufOf(kind, s) = b /\ q = p /\ k = blk[p]
      BY <2>2
    <3> QED
      BY <3>1, <3>2
  <2>3. CASE <<BufOf(kind, s), q, k>> # i
    <3>1. hostDG'[<<BufOf(kind, s), q, k>>] = hostDG[<<BufOf(kind, s), q, k>>]
      BY <1>1, <2>1, <2>3 DEF TypeOK
    <3>2. Passed(s, q, k)
      BY <1>6, <1>12, <2>3
    <3> QED
      BY <1>2, <1>12, <3>1, <3>2 DEF ReverseInv, InvOut
  <2> QED
    BY <2>2, <2>3
<1>13. \A c \in Buffers, k \in Blocks : hostDG'[<<c, 0, k>>] = hostDG[<<c, 0, k>>]
  <2> SUFFICES ASSUME NEW c \in Buffers, NEW k \in Blocks
               PROVE  hostDG'[<<c, 0, k>>] = hostDG[<<c, 0, k>>]
    OBVIOUS
  <2>1. <<c, 0, k>> \in Tiles /\ <<c, 0, k>> # i
    BY <1>2 DEF Tiles, Ranks
  <2> QED
    BY <1>1, <2>1 DEF TypeOK
<1>14. InvOut'
  BY <1>1, <1>7, <1>12, <1>13 DEF ReverseInv, InvOut
<1>15. MessageDelivered'
  BY <1>1, DeliveredSame DEF ReverseInv
<1> QED
  BY <1>8, <1>9, <1>10, <1>11, <1>14, <1>15 DEF ReverseInv

LEMMA InvStep == TypeOK /\ ReverseInv /\ [Next]_vars => ReverseInv'
<1> SUFFICES ASSUME TypeOK, ReverseInv, [Next]_vars PROVE ReverseInv'
  OBVIOUS
<1>1. CASE Finished \/ UNCHANGED vars
  <2>1. UNCHANGED <<calls, kind, input, hostDS, hostDG, sig, recv, inflight, todo, pc, cur, blk, tile>>
    BY <1>1 DEF Finished, vars, hostVars, winVars
  <2> QED
    BY <2>1
    DEF ReverseInv, InvHost, InvTasks, InvStores, InvSignals, InvData, InvOut, MessageDelivered,
        Started, Running, Passed, Sent, Published, Message, Block
<1> QED
  BY <1>1, InvStartRun, InvReturn, InvStartTask, InvWait, InvForm, InvPublish, InvPush,
     InvLand, InvFlush, InvNotify, InvReduce
  DEF Next, Kernel

-----------------------------------------------------------------------------
(* The theorems *)

\* The reverse ring's inductive invariant, with its types, holds in every state
\* of every run of the kernel and its host calls.
THEOREM ReverseInvariant == Spec => [](TypeOK /\ ReverseInv)
<1>1. Init => TypeOK /\ ReverseInv
  BY TypeInit, InvInit
<1>2. TypeOK /\ ReverseInv /\ [Next]_vars => (TypeOK /\ ReverseInv)'
  <2> SUFFICES ASSUME TypeOK, ReverseInv, [Next]_vars PROVE TypeOK' /\ ReverseInv'
    OBVIOUS
  <2> QED
    BY TypeStep, InvStep DEF ReverseInv
<1> QED
  BY <1>1, <1>2, PTL DEF Spec

\* Type correctness of the reverse ring: its windows, buffers and kernels.
THEOREM TypeCorrect == Spec => []TypeOK
  BY ReverseInvariant, PTL

\* TWAIT's promise on the way back: behind a raised signal lies the whole
\* decayed adjoint block of the successor rank.
THEOREM Delivery == Spec => []MessageDelivered
<1>1. ReverseInv => MessageDelivered
  BY DEF ReverseInv
<1> QED
  BY <1>1, ReverseInvariant, PTL

LEMMA StableStep ==
  TypeOK /\ ReverseInv /\ [Next]_vars =>
    \A c \in Cells : sig[c] >= 1 /\ kind # "none" => recv'[c] = recv[c]
<1> SUFFICES ASSUME TypeOK, ReverseInv, [Next]_vars, NEW c \in Cells, sig[c] >= 1, kind # "none"
             PROVE  recv'[c] = recv[c]
  OBVIOUS
<1>1. ASSUME NEW m \in inflight, Land(m) PROVE recv'[c] = recv[c]
  <2>1. PICK p \in Ranks : /\ m = <<cur[p], p - 1, blk[p], Message(p)>>
                           /\ sig[<<cur[p], p - 1, blk[p]>>] = 0
    BY StoreTarget
  <2>2. recv' = [recv EXCEPT ![<<cur[p], p - 1, blk[p]>>] = Message(p)]
    BY <1>1, <2>1 DEF Land
  <2>3. c # <<cur[p], p - 1, blk[p]>>
    BY <2>1
  <2> QED
    BY <2>2, <2>3 DEF TypeOK
<1>2. ASSUME NEW kd \in Kinds, StartRun(kd) PROVE FALSE
  BY <1>2 DEF StartRun
<1>3. ASSUME NEW p \in Ranks, Kernel(p) PROVE recv' = recv
  BY <1>3 DEF Kernel, StartTask, Wait, Form, Publish, Push, Flush, Notify, Reduce, winVars
<1>4. ASSUME Return \/ Finished \/ UNCHANGED vars PROVE recv' = recv
  BY <1>4 DEF Return, Finished, vars, winVars
<1> QED
  BY <1>1, <1>2, <1>3, <1>4 DEF Next

\* A message block is stable from its notification to the end of the call: a
\* landing store targets a block its sender has not notified yet.
THEOREM Stability == Spec => RecvStable
<1>1. TypeOK /\ ReverseInv /\ [Next]_vars =>
        [\A c \in Cells : sig[c] >= 1 /\ kind # "none" => recv'[c] = recv[c]]_vars
  BY StableStep
<1> QED
  BY <1>1, ReverseInvariant, PTL DEF Spec, RecvStable

\* When the call has drained, its buffers hold the gradients of its inputs.
LEMMA DrainedGradients ==
  ASSUME TypeOK, ReverseInv, Drained, kind # "none",
         NEW b \in BuffersOf(kind), NEW p \in Ranks, NEW k \in Blocks
  PROVE  /\ hostDS[<<b, p, k>>] = Adjoint(calls, b, p, k)
         /\ hostDG[<<b, p, k>>] = GammaGrad(calls, b, p, k)
<1>1. kind \in Kinds
  BY DEF TypeOK
<1>2. b \in Buffers /\ \E s \in SlotsOf(kind) : BufOf(kind, s) = b
  BY <1>1, SlotOfBuf
<1>3. PICK s \in SlotsOf(kind) : BufOf(kind, s) = b
  BY <1>2
<1>4. Passed(s, p, k) /\ Published(s, p, k)
  BY DEF Drained, Published, Passed, Started, Running
<1>5. hostDS[<<b, p, k>>] = Adjoint(calls, b, p, k)
  BY <1>3, <1>4 DEF ReverseInv, InvOut
<1>6. CASE p = 0
  BY <1>2, <1>5, <1>6 DEF ReverseInv, InvOut, GammaGrad
<1>7. CASE p # 0
  <2>1. p > 0
    BY <1>7, RingAssumption DEF Ranks
  <2> QED
    BY <1>3, <1>4, <1>5, <2>1 DEF ReverseInv, InvOut
<1> QED
  BY <1>6, <1>7

LEMMA ReturnStep ==
  TypeOK /\ ReverseInv /\ [Next]_vars =>
    (kind # "none" /\ kind' = "none" /\ Returns(kind) =>
       \A c \in BuffersOf(kind) \X Ranks \X Blocks :
         /\ dS'[c] = Adjoint(calls, c[1], c[2], c[3])
         /\ dgamma'[c] = GammaGrad(calls, c[1], c[2], c[3]))
<1> SUFFICES ASSUME TypeOK, ReverseInv, [Next]_vars, kind # "none", kind' = "none", Returns(kind),
                    NEW c \in BuffersOf(kind) \X Ranks \X Blocks
             PROVE  /\ dS'[c] = Adjoint(calls, c[1], c[2], c[3])
                    /\ dgamma'[c] = GammaGrad(calls, c[1], c[2], c[3])
  OBVIOUS
<1>1. Return
  <2>1. ASSUME NEW p \in Ranks, Kernel(p) PROVE kind' = kind
    BY <2>1 DEF Kernel, StartTask, Wait, Form, Publish, Push, Flush, Notify, Reduce, hostVars
  <2>2. ASSUME NEW m \in inflight, Land(m) PROVE kind' = kind
    BY <2>2 DEF Land, hostVars
  <2>3. ASSUME NEW kd \in Kinds, StartRun(kd) PROVE kind' # "none"
    BY <2>3 DEF StartRun, Kinds
  <2>4. ASSUME Finished \/ UNCHANGED vars PROVE kind' = kind
    BY <2>4 DEF Finished, vars, hostVars
  <2> QED
    BY <2>1, <2>2, <2>3, <2>4 DEF Next
<1>2. c = <<c[1], c[2], c[3]>> /\ c[1] \in BuffersOf(kind) /\ c[2] \in Ranks /\ c[3] \in Blocks
  OBVIOUS
<1>3. /\ hostDS[c] = Adjoint(calls, c[1], c[2], c[3])
      /\ hostDG[c] = GammaGrad(calls, c[1], c[2], c[3])
  BY <1>1, <1>2, DrainedGradients DEF Return
<1>4. c \in Tiles
  <2>1. kind \in Kinds
    BY DEF TypeOK
  <2> QED
    BY <1>2, <2>1, SlotOfBuf DEF Tiles
<1>5. dS'[c] = hostDS[c] /\ dgamma'[c] = hostDG[c]
  BY <1>1, <1>2, <1>4 DEF Return
<1> QED
  BY <1>3, <1>5

\* A backward call hands back the gradients of its own inputs, in every head,
\* rank and block: the adjoints of expected_allscan_backward as dS, and their
\* row sums with the retained forward outputs as dgamma.
THEOREM Gradients == Spec => ReturnsGradients
<1>1. TypeOK /\ ReverseInv /\ [Next]_vars =>
        [kind # "none" /\ kind' = "none" /\ Returns(kind) =>
           \A c \in BuffersOf(kind) \X Ranks \X Blocks :
             /\ dS'[c] = Adjoint(calls, c[1], c[2], c[3])
             /\ dgamma'[c] = GammaGrad(calls, c[1], c[2], c[3])]_vars
  BY ReturnStep
<1> QED
  BY <1>1, ReverseInvariant, PTL DEF Spec, ReturnsGradients
=============================================================================
