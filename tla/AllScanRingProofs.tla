------------------------- MODULE AllScanRingProofs -------------------------
(***************************************************************************)
(* Proofs about AllScanRing for every number of ranks P >= 2, blocks K,    *)
(* heads, batch iterations and calls.                                      *)
(***************************************************************************)
EXTENDS AllScanRing, TLAPS

-----------------------------------------------------------------------------
(* The slots and buffers of a host call *)

\* Every slot of a call has buffers of that call (_submit_iter's bufs).
LEMMA BufOfSlot ==
  ASSUME NEW kd \in Kinds, NEW s \in SlotsOf(kd)
  PROVE  /\ BufOf(kd, s) \in BuffersOf(kd)
         /\ BufOf(kd, s) \in Buffers
         /\ s \in Slots
  BY RingAssumption
  DEF Kinds, SlotsOf, NumSlots, BufOf, BuffersOf, Buffers, Slots, MaxSlots

\* The tasks of a call are tasks of slots the window has (_domain, n_slots).
LEMMA SlotsTyped ==
  ASSUME NEW kd \in Kinds
  PROVE  SlotsOf(kd) \subseteq Slots
  BY BufOfSlot

\* Every buffer a call reads back is written by the task of one of its slots.
LEMMA SlotOfBuf ==
  ASSUME NEW kd \in Kinds, NEW b \in BuffersOf(kd)
  PROVE  b \in Buffers /\ \E s \in SlotsOf(kd) : BufOf(kd, s) = b
<1> USE RingAssumption
<1>1. CASE kd = "multi"
  <2>1. b - 1 \in SlotsOf(kd) /\ BufOf(kd, b - 1) = b /\ b \in Buffers
    BY <1>1 DEF SlotsOf, NumSlots, BufOf, BuffersOf, Buffers
  <2> QED
    BY <2>1
<1>2. CASE kd # "multi"
  <2>1. 0 \in SlotsOf(kd) /\ BufOf(kd, 0) = b /\ b \in Buffers
    BY <1>2 DEF SlotsOf, NumSlots, BufOf, BuffersOf, Buffers, Kinds
  <2> QED
    BY <2>1
<1> QED
  BY <1>1, <1>2

-----------------------------------------------------------------------------
(* The recurrence of expected_allscan *)

\* Rank 0 emits its own block (expected_allscan: out[0] = S_locals[0]).
LEMMA ScanBase ==
  ASSUME NEW c, NEW b, NEW k
  PROVE  Scan(c, b, 0, k) = Leaf(InputId(c, b, 0, k))
<1>1. 0..0 = {0}
  OBVIOUS
<1>2. {InputId(c, b, j, k) : j \in 1..0} = {}
  OBVIOUS
<1> QED
  BY <1>1, <1>2 DEF Scan, Leaf

\* Rank p fuses its block with its predecessor's scan
\* (expected_allscan: out[p] = S_locals[p] + gammas[p] * out[p - 1]).
LEMMA ScanStep ==
  ASSUME NEW c, NEW b, NEW k, NEW p \in Nat, p > 0
  PROVE  Scan(c, b, p, k) = Fuse(InputId(c, b, p, k), Scan(c, b, p - 1, k))
<1> DEFINE Id(j)      == InputId(c, b, j, k)
           D(q, n)    == {Id(j) : j \in (q + 1)..n}
           T(q, n)    == <<Id(q), D(q, n)>>
<1>1. \A q \in 0..(p - 1) : D(q, p) = D(q, p - 1) \cup {Id(p)}
  <2> SUFFICES ASSUME NEW q \in 0..(p - 1) PROVE D(q, p) = D(q, p - 1) \cup {Id(p)}
    OBVIOUS
  <2>1. (q + 1)..p = ((q + 1)..(p - 1)) \cup {p}
    OBVIOUS
  <2> HIDE DEF Id
  <2> QED
    BY <2>1
<1>2. D(p, p) = {}
  <2>1. (p + 1)..p = {}
    OBVIOUS
  <2> QED
    BY <2>1
<1>3. Scan(c, b, p, k) = {T(q, p) : q \in 0..p}
  BY DEF Scan
<1>4. 0..p = (0..(p - 1)) \cup {p}
  OBVIOUS
<1>5. {T(q, p) : q \in 0..p} = {T(q, p) : q \in 0..(p - 1)} \cup {T(p, p)}
  <2> HIDE DEF T
  <2> QED
    BY <1>4
<1>6. {T(q, p) : q \in 0..(p - 1)} = {<<Id(q), D(q, p - 1) \cup {Id(p)}>> : q \in 0..(p - 1)}
  <2> HIDE DEF D, Id
  <2> QED
    BY <1>1
<1>7. Decay(Id(p), Scan(c, b, p - 1, k))
        = {<<Id(q), D(q, p - 1) \cup {Id(p)}>> : q \in 0..(p - 1)}
  <2>1. Scan(c, b, p - 1, k) = {T(q, p - 1) : q \in 0..(p - 1)}
    BY DEF Scan
  <2> DEFINE G(t) == <<t[1], t[2] \cup {Id(p)}>>
  <2>2. \A q \in 0..(p - 1) : G(T(q, p - 1)) = <<Id(q), D(q, p - 1) \cup {Id(p)}>>
    <3> HIDE DEF D, Id
    <3> QED
      OBVIOUS
  <2>3. {G(t) : t \in {T(q, p - 1) : q \in 0..(p - 1)}} = {G(T(q, p - 1)) : q \in 0..(p - 1)}
    <3> HIDE DEF G, T
    <3> QED
      OBVIOUS
  <2>4. {G(T(q, p - 1)) : q \in 0..(p - 1)}
          = {<<Id(q), D(q, p - 1) \cup {Id(p)}>> : q \in 0..(p - 1)}
    <3> HIDE DEF G, T, D, Id
    <3> QED
      BY <2>2
  <2>5. Decay(Id(p), Scan(c, b, p - 1, k)) = {G(t) : t \in {T(q, p - 1) : q \in 0..(p - 1)}}
    BY <2>1 DEF Decay
  <2> HIDE DEF G, T, D, Id
  <2> QED
    BY <2>3, <2>4, <2>5
<1>8. Leaf(Id(p)) = {T(p, p)}
  BY <1>2 DEF Leaf
<1> HIDE DEF T, D
<1> QED
  BY <1>3, <1>5, <1>6, <1>7, <1>8 DEF Fuse

-----------------------------------------------------------------------------
(* Type correctness *)

\* Fusing typed values gives a typed value (the kernel's tile arithmetic).
LEMMA ValueTypes ==
  ASSUME NEW x \in Ids, NEW v \in Values
  PROVE  Zero \in Values /\ Leaf(x) \in Values /\ Fuse(x, v) \in Values
<1>1. Zero \in Values
  BY DEF Zero, Values
<1>2. Leaf(x) \in Values
  BY DEF Leaf, Values
<1>3. Decay(x, v) \in Values
  <2> SUFFICES ASSUME NEW t \in v PROVE <<t[1], t[2] \cup {x}>> \in Ids \X SUBSET Ids
    BY DEF Decay, Values
  <2> QED
    BY DEF Values
<1> QED
  BY <1>1, <1>2, <1>3 DEF Fuse, Values

LEMMA ZeroValue == Zero \in Values
  BY DEF Zero, Values

\* An input block named by a running kernel is a block the caller passed in.
LEMMA OwnTyped ==
  ASSUME TypeOK, InvTasks, NEW p \in Ranks, pc[p] # "idle"
  PROVE  /\ Own(p) \in Ids
         /\ kind \in Kinds
         /\ cur[p] \in SlotsOf(kind)
         /\ BufOf(kind, cur[p]) \in Buffers
         /\ BufOf(kind, cur[p]) \in BuffersOf(kind)
<1>1. cur[p] \in SlotsOf(kind)
  BY DEF InvTasks, Started
<1>2. kind \in Kinds
  <2>1. SlotsOf("none") = {}
    BY DEF SlotsOf, NumSlots
  <2> QED
    BY <1>1, <2>1 DEF TypeOK
<1>3. BufOf(kind, cur[p]) \in Buffers /\ BufOf(kind, cur[p]) \in BuffersOf(kind)
  BY <1>1, <1>2, BufOfSlot
<1>4. Own(p) \in Ids
  BY <1>3 DEF Own, InputId, Ids, TypeOK
<1> QED
  BY <1>1, <1>2, <1>3, <1>4

LEMMA TypeInit == Init => TypeOK
<1> SUFFICES ASSUME Init PROVE TypeOK
  OBVIOUS
<1> USE RingAssumption, ZeroValue
<1>1. 0 \in Slots /\ 0 \in Blocks /\ 0 \in 0..MaxCalls
  BY DEF Slots, MaxSlots, Blocks
<1> QED
  BY <1>1 DEF Init, TypeOK

\* The end of a loop body leaves pc and blk typed.
LEMMA NextBlockTyped ==
  ASSUME TypeOK, NEW p \in Ranks, NextBlock(p)
  PROVE  /\ pc' \in [Ranks -> {"idle", "wait", "fuse", "publish", "push", "flush", "notify"}]
         /\ blk' \in [Ranks -> Blocks]
  BY RingAssumption DEF TypeOK, NextBlock, EntryPoint, Blocks

LEMMA TypeStep == TypeOK /\ InvTasks /\ [Next]_vars => TypeOK'
<1> SUFFICES ASSUME TypeOK, InvTasks, [Next]_vars PROVE TypeOK'
  OBVIOUS
<1> USE RingAssumption
<1>1. CASE \E kd \in Kinds : StartRun(kd)
  <2> PICK kd \in Kinds : StartRun(kd)
    BY <1>1
  <2>1. ClearedOut(kd) \in [Tiles -> Values]
    BY ZeroValue DEF ClearedOut, TypeOK
  <2>2. FreshSignals \in [Cells -> Nat] /\ FreshRecv \in [Cells -> Values]
    BY ZeroValue DEF FreshSignals, FreshRecv
  <2>3. calls + 1 \in 0..MaxCalls
    BY DEF StartRun, TypeOK
  <2> QED
    BY <2>1, <2>2, <2>3, SlotsTyped DEF StartRun, TypeOK
<1>2. CASE Return
  BY <1>2 DEF Return, TypeOK
<1>3. ASSUME NEW p \in Ranks, Kernel(p) PROVE TypeOK'
  <2>1. CASE StartTask(p)
    <3>1. 0 \in Blocks
      BY DEF Blocks
    <3> QED
      BY <2>1, <3>1 DEF StartTask, EntryPoint, TypeOK, hostVars
  <2>2. CASE Wait(p)
    BY <2>2 DEF Wait, TypeOK, hostVars
  <2>3. CASE Combine(p)
    <3>1. pc[p] # "idle"
      BY <2>3 DEF Combine
    <3>2. <<cur[p], p, blk[p]>> \in Cells
      BY DEF TypeOK, Cells
    <3>3. recv[<<cur[p], p, blk[p]>>] \in Values
      BY <3>2 DEF TypeOK
    <3>4. tile' \in [Ranks -> Values]
      BY <2>3, <3>1, <3>3, OwnTyped, ValueTypes DEF Combine, TypeOK
    <3> QED
      BY <2>3, <3>4 DEF Combine, TypeOK, hostVars
  <2>4. CASE Publish(p)
    <3>1. pc' \in [Ranks -> {"idle", "wait", "fuse", "publish", "push", "flush", "notify"}]
          /\ blk' \in [Ranks -> Blocks]
      BY <2>4, NextBlockTyped DEF Publish, TypeOK
    <3>2. hostOut' \in [Tiles -> Values]
      BY <2>4 DEF Publish, TypeOK
    <3> QED
      BY <2>4, <3>1, <3>2 DEF Publish, TypeOK, hostVars
  <2>5. CASE Push(p)
    <3>1. p + 1 \in Ranks
      BY <2>5 DEF Push, InvTasks, Ranks
    <3>2. <<cur[p], p + 1, blk[p], tile[p]>> \in Slots \X Ranks \X Blocks \X Values
      BY <3>1 DEF TypeOK
    <3> QED
      BY <2>5, <3>2 DEF Push, TypeOK, hostVars
  <2>6. CASE Flush(p)
    BY <2>6 DEF Flush, TypeOK, hostVars
  <2>7. CASE Notify(p)
    <3>1. p + 1 \in Ranks
      BY <2>7 DEF Notify, InvTasks, Ranks
    <3>2. <<cur[p], p + 1, blk[p]>> \in Cells
      BY <3>1 DEF TypeOK, Cells
    <3>3. sig' \in [Cells -> Nat]
      BY <2>7, <3>2 DEF Notify, TypeOK
    <3> QED
      BY <2>7, <3>3, NextBlockTyped DEF Notify, TypeOK, hostVars
  <2> QED
    BY <1>3, <2>1, <2>2, <2>3, <2>4, <2>5, <2>6, <2>7 DEF Kernel
<1>4. ASSUME NEW m \in inflight, Land(m) PROVE TypeOK'
  <2>1. m[4] \in Values
    BY DEF TypeOK
  <2>2. recv' \in [Cells -> Values]
    BY <1>4, <2>1 DEF Land, TypeOK
  <2> QED
    BY <1>4, <2>2 DEF Land, TypeOK, hostVars
<1>5. CASE Finished \/ UNCHANGED vars
  BY <1>5 DEF Finished, vars, TypeOK
<1> QED
  BY <1>1, <1>2, <1>3, <1>4, <1>5 DEF Next
-----------------------------------------------------------------------------
(* How far a rank is, before and after a step *)

\* Moving within the loop body passes no block.
LEMMA PassedSame ==
  ASSUME TypeOK, NEW p \in Ranks, NEW l, l # "idle", pc[p] # "idle",
         pc' = [pc EXCEPT ![p] = l], UNCHANGED <<kind, todo, cur, blk>>
  PROVE  \A s, k : \A q \in Ranks : /\ Passed(s, q, k)' <=> Passed(s, q, k)
                                    /\ Running(s, q)' <=> Running(s, q)
  BY DEF TypeOK, Passed, Started, Running

\* The end of the loop body passes exactly the current block.
LEMMA PassedNext ==
  ASSUME TypeOK, InvTasks, NEW p \in Ranks, pc[p] # "idle",
         NextBlock(p), UNCHANGED <<kind, todo, cur>>
  PROVE  \A s : \A q \in Ranks, k \in Blocks :
           Passed(s, q, k)' <=> Passed(s, q, k) \/ (q = p /\ s = cur[p] /\ k = blk[p])
<1> SUFFICES ASSUME NEW s, NEW q \in Ranks, NEW k \in Blocks
             PROVE  Passed(s, q, k)' <=> Passed(s, q, k) \/ (q = p /\ s = cur[p] /\ k = blk[p])
  OBVIOUS
<1>1. CASE q # p \/ s # cur[p]
  BY <1>1 DEF TypeOK, Passed, Started, Running, NextBlock
<1>2. CASE q = p /\ s = cur[p]
  <2>1. Started(s, q) /\ Started(s, q)'
    BY <1>2 DEF InvTasks, Started
  <2>2. Running(s, q)
    BY <1>2 DEF Running
  <2>3. k \in 0..(K - 1) /\ blk[p] \in 0..(K - 1)
    BY DEF TypeOK, Blocks
  <2>4. CASE blk[p] = K - 1
    <3>1. ~Running(s, q)'
      BY <1>2, <2>4 DEF Running, NextBlock, TypeOK
    <3> QED
      BY <1>2, <2>1, <2>2, <2>3, <2>4, <3>1, RingAssumption DEF Passed
  <2>5. CASE blk[p] # K - 1
    <3>1. Running(s, q)' /\ blk'[p] = blk[p] + 1
      BY <1>2, <2>5 DEF Running, NextBlock, TypeOK, EntryPoint
    <3> QED
      BY <1>2, <2>1, <2>2, <2>3, <2>5, <3>1, RingAssumption DEF Passed
  <2> QED
    BY <2>4, <2>5
<1> QED
  BY <1>1, <1>2

\* Starting a task passes no block of it.
LEMMA PassedStart ==
  ASSUME TypeOK, InvTasks, NEW p \in Ranks, StartTask(p)
  PROVE  \A s : \A q \in Ranks, k \in Blocks : Passed(s, q, k)' <=> Passed(s, q, k)
<1> SUFFICES ASSUME NEW s, NEW q \in Ranks, NEW k \in Blocks
             PROVE  Passed(s, q, k)' <=> Passed(s, q, k)
  OBVIOUS
<1>1. PICK t \in todo[p] : /\ todo' = [todo EXCEPT ![p] = @ \ {t}]
                           /\ cur' = [cur EXCEPT ![p] = t]
  BY DEF StartTask
<1>2. CASE q # p
  BY <1>1, <1>2 DEF StartTask, TypeOK, Passed, Started, Running, hostVars
<1>3. CASE q = p /\ s = t
  <2>1. ~Started(s, q)
    BY <1>3 DEF Started
  <2>2. Running(s, q)' /\ blk'[q] = 0
    BY <1>1, <1>3 DEF StartTask, Running, TypeOK, EntryPoint
  <2> QED
    BY <2>1, <2>2, RingAssumption DEF Passed, Blocks
<1>4. CASE q = p /\ s # t
  BY <1>1, <1>4 DEF StartTask, TypeOK, Passed, Started, Running, hostVars
<1> QED
  BY <1>2, <1>3, <1>4

-----------------------------------------------------------------------------
(* The inductive invariant, one lemma per action *)

LEMMA InvInit == Init => RingCore
  BY RingAssumption
  DEF Init, RingCore, InvHost, InvTasks, InvStores, InvSignals, InvData, InvOut,
      NotifiedOnce, SignalMeansDelivered, Epoch, SlotsOf, NumSlots

LEMMA InvStartRun ==
  ASSUME TypeOK, RingCore, NEW kd \in Kinds, StartRun(kd)
  PROVE  RingCore'
<1> USE RingAssumption
<1>1. kd # "none" /\ kind = "none" /\ kind' = kd
  BY DEF StartRun, Kinds
<1>2. inflight' = {} /\ \A p \in Ranks : pc'[p] = "idle" /\ todo'[p] = SlotsOf(kd)
  BY <1>1 DEF StartRun, RingCore, InvHost
<1>3. \A s, k : \A p \in Ranks : ~Passed(s, p, k)' /\ ~Published(s, p, k)'
  BY <1>1, <1>2 DEF Passed, Published, Started, Running
<1>4. \A c \in Cells : sig'[c] = 0
  BY DEF StartRun, FreshSignals
<1>5. InvHost'
  <2>1. \A b \in BuffersOf(kd) : b \in Buffers
    BY DEF BuffersOf, Buffers
  <2> QED
    BY <1>1, <2>1 DEF StartRun, InvHost
<1>6. InvTasks'
  BY <1>1, <1>2 DEF InvTasks
<1>7. InvStores'
  BY <1>2 DEF InvStores
<1>8. InvSignals'
  <2> SUFFICES ASSUME NEW s \in Slots, NEW p \in Ranks, NEW k \in Blocks
               PROVE  sig'[<<s, p, k>>] = 0 /\ (p > 0 => ~Passed(s, p - 1, k)')
    BY DEF InvSignals
  <2>1. p > 0 => p - 1 \in Ranks
    BY DEF Ranks
  <2> QED
    BY <1>3, <1>4, <2>1 DEF Cells
<1>9. InvData'
  BY <1>2 DEF InvData
<1>10. InvOut'
  BY <1>3 DEF InvOut
<1>11. NotifiedOnce'
  BY <1>4 DEF NotifiedOnce, Epoch
<1>12. SignalMeansDelivered'
  <2> SUFFICES ASSUME NEW s \in SlotsOf(kd), NEW p \in Ranks, NEW k \in Blocks
               PROVE  ~(sig'[<<s, p, k>>] >= Epoch)
    BY <1>1 DEF SignalMeansDelivered, Epoch
  <2> QED
    BY <1>4, SlotsTyped DEF Cells, Epoch
<1> QED
  BY <1>5, <1>6, <1>7, <1>8, <1>9, <1>10, <1>11, <1>12 DEF RingCore

LEMMA InvReturn ==
  ASSUME TypeOK, RingCore, Return
  PROVE  RingCore'
<1>1. /\ kind' = "none"
      /\ \A p \in Ranks : pc'[p] = "idle" /\ todo'[p] = {} /\ pc[p] = "idle"
  BY DEF Return
<1>2. inflight' = {}
  BY <1>1 DEF Return, RingCore, InvStores
<1>3. InvHost' /\ InvTasks' /\ InvStores' /\ InvData'
  BY <1>1, <1>2 DEF InvHost, InvTasks, InvStores, InvData
<1>4. InvSignals' /\ InvOut' /\ SignalMeansDelivered'
  BY <1>1 DEF InvSignals, InvOut, SignalMeansDelivered
<1>5. NotifiedOnce'
  BY DEF Return, RingCore, NotifiedOnce, Epoch
<1> QED
  BY <1>3, <1>4, <1>5 DEF RingCore

LEMMA InvStartTask ==
  ASSUME TypeOK, RingCore, NEW p \in Ranks, StartTask(p)
  PROVE  RingCore'
<1> USE RingAssumption
<1>1. PICK t \in todo[p] : /\ todo' = [todo EXCEPT ![p] = @ \ {t}]
                           /\ cur' = [cur EXCEPT ![p] = t]
  BY DEF StartTask
<1>2. t \in SlotsOf(kind) /\ kind # "none"
  BY DEF RingCore, InvTasks, SlotsOf, NumSlots
<1>3. /\ pc[p] = "idle"
      /\ pc' = [pc EXCEPT ![p] = EntryPoint(p)]
      /\ UNCHANGED <<hostVars, hostOut, sig, recv, inflight, tile>>
  BY DEF StartTask
<1>4. \A s : \A q \in Ranks, k \in Blocks : Passed(s, q, k)' <=> Passed(s, q, k)
  BY PassedStart DEF RingCore
<1>5. \A q \in Ranks : q # p => /\ pc'[q] = pc[q] /\ cur'[q] = cur[q] /\ blk'[q] = blk[q]
                                /\ todo'[q] = todo[q]
  BY <1>1 DEF StartTask, TypeOK
<1>6. /\ pc'[p] \in {"fuse", "wait"} /\ (pc'[p] = "wait" <=> p # 0)
      /\ cur'[p] = t /\ todo'[p] = todo[p] \ {t}
  BY <1>1, <1>3 DEF TypeOK, EntryPoint
<1>7. InvHost'
  BY <1>2, <1>3 DEF RingCore, InvHost, hostVars
<1>8. InvTasks'
  <2> SUFFICES ASSUME NEW q \in Ranks
               PROVE  /\ todo'[q] \subseteq SlotsOf(kind)
                      /\ pc'[q] # "idle" => cur'[q] \in SlotsOf(kind) /\ cur'[q] \notin todo'[q]
                      /\ pc'[q] = "wait" => q > 0
                      /\ pc'[q] \in {"push", "flush", "notify"} => q < P - 1
    BY <1>3 DEF InvTasks, Started, hostVars
  <2>1. CASE q = p
    BY <1>2, <1>6, <2>1 DEF RingCore, InvTasks, Ranks
  <2>2. CASE q # p
    BY <1>5, <2>2 DEF RingCore, InvTasks, Started
  <2> QED
    BY <2>1, <2>2
<1>9. InvStores'
  BY <1>3, <1>5, <1>6 DEF RingCore, InvStores
<1>10. InvSignals'
  <2>1. \A q \in Ranks : q > 0 => q - 1 \in Ranks
    BY DEF Ranks
  <2> QED
    BY <1>3, <1>4, <2>1 DEF RingCore, InvSignals, hostVars
<1>11. InvData'
  BY <1>3, <1>5, <1>6 DEF RingCore, InvData, hostVars, Ranks, Epoch
<1>12. InvOut'
  <2> SUFFICES ASSUME NEW s \in SlotsOf(kind), NEW q \in Ranks, NEW k \in Blocks,
                      Published(s, q, k)'
               PROVE  Published(s, q, k)
    BY <1>2, <1>3 DEF RingCore, InvOut, hostVars
  <2> QED
    BY <1>4, <1>5, <1>6 DEF Published, Running
<1>13. NotifiedOnce' /\ SignalMeansDelivered'
  BY <1>3 DEF RingCore, NotifiedOnce, SignalMeansDelivered, hostVars, Epoch
<1> QED
  BY <1>7, <1>8, <1>9, <1>10, <1>11, <1>12, <1>13 DEF RingCore

\* A step inside the loop body that writes neither windows nor outputs leaves
\* these parts of the invariant alone.
LEMMA InvInside ==
  ASSUME TypeOK, RingCore, NEW p \in Ranks, NEW l, l # "idle", l # "wait", pc[p] # "idle",
         pc' = [pc EXCEPT ![p] = l],
         l \in {"push", "flush", "notify"} => p < P - 1,
         UNCHANGED <<hostVars, sig, todo, cur, blk>>
  PROVE  InvTasks' /\ InvSignals' /\ NotifiedOnce'
<1>1. \A s, k : \A q \in Ranks : Passed(s, q, k)' <=> Passed(s, q, k)
  BY PassedSame DEF hostVars
<1>2. InvTasks'
  BY DEF RingCore, InvTasks, Started, hostVars, TypeOK
<1>3. InvSignals'
  <2>1. \A q \in Ranks : q > 0 => q - 1 \in Ranks
    BY RingAssumption DEF Ranks
  <2> QED
    BY <1>1, <2>1 DEF RingCore, InvSignals, hostVars
<1> QED
  BY <1>2, <1>3 DEF RingCore, NotifiedOnce, Epoch

LEMMA InvWait ==
  ASSUME TypeOK, RingCore, NEW p \in Ranks, Wait(p)
  PROVE  RingCore'
<1>1. /\ pc[p] = "wait" /\ pc' = [pc EXCEPT ![p] = "fuse"]
      /\ sig[<<cur[p], p, blk[p]>>] >= Epoch
      /\ UNCHANGED <<hostVars, hostOut, sig, recv, inflight, todo, cur, blk, tile>>
  BY DEF Wait
<1>2. InvTasks' /\ InvSignals' /\ NotifiedOnce'
  BY <1>1, InvInside
<1>3. InvHost'
  BY <1>1 DEF RingCore, InvHost, hostVars
<1>4. InvStores'
  BY <1>1 DEF RingCore, InvStores, TypeOK
<1>5. InvData'
  BY <1>1 DEF RingCore, InvData, TypeOK, hostVars, Epoch
<1>6. InvOut'
  <2>1. \A s, k : \A q \in Ranks : Published(s, q, k)' => Published(s, q, k)
    BY <1>1, PassedSame DEF Published, hostVars, TypeOK, Running
  <2> QED
    BY <1>1, <2>1 DEF RingCore, InvOut, hostVars
<1>7. SignalMeansDelivered'
  BY <1>1 DEF RingCore, SignalMeansDelivered, hostVars, Epoch
<1> QED
  BY <1>2, <1>3, <1>4, <1>5, <1>6, <1>7 DEF RingCore

LEMMA InvCombine ==
  ASSUME TypeOK, RingCore, NEW p \in Ranks, Combine(p)
  PROVE  RingCore'
<1> DEFINE b == BufOf(kind, cur[p])
<1>1. /\ pc[p] = "fuse" /\ pc' = [pc EXCEPT ![p] = "publish"]
      /\ UNCHANGED <<hostVars, hostOut, sig, recv, inflight, todo, cur, blk>>
  BY DEF Combine
<1>2. InvTasks' /\ InvSignals' /\ NotifiedOnce'
  BY <1>1, InvInside
<1>3. InvHost'
  BY <1>1 DEF RingCore, InvHost, hostVars
<1>4. InvStores'
  BY <1>1 DEF Combine, RingCore, InvStores, TypeOK
<1>5. tile'[p] = Scan(calls, b, p, blk[p])
  <2>1. kind # "none" /\ cur[p] \in SlotsOf(kind) /\ b \in BuffersOf(kind)
    BY <1>1, OwnTyped DEF RingCore, Kinds
  <2>2. Own(p) = InputId(calls, b, p, blk[p])
    BY <2>1 DEF RingCore, InvHost, Own
  <2>3. CASE p = 0
    BY <1>1, <2>2, <2>3, ScanBase DEF Combine, TypeOK
  <2>4. CASE p # 0
    <3>1. p \in Nat /\ p > 0
      BY <2>4 DEF Ranks
    <3>2. sig[<<cur[p], p, blk[p]>>] >= Epoch
      BY <1>1, <3>1 DEF RingCore, InvData
    <3>3. blk[p] \in Blocks
      BY DEF TypeOK
    <3>4. recv[<<cur[p], p, blk[p]>>] = Scan(calls, b, p - 1, blk[p])
      BY <2>1, <3>2, <3>3 DEF RingCore, SignalMeansDelivered
    <3>5. tile'[p] = Fuse(Own(p), recv[<<cur[p], p, blk[p]>>])
      BY <2>4 DEF Combine, TypeOK
    <3> QED
      BY <2>2, <3>1, <3>4, <3>5, ScanStep
  <2> QED
    BY <2>3, <2>4
<1>6. InvData'
  <2>1. \A q \in Ranks : q # p => tile'[q] = tile[q]
    BY DEF Combine, TypeOK
  <2> QED
    BY <1>1, <1>5, <2>1 DEF RingCore, InvData, TypeOK, hostVars, Epoch
<1>7. InvOut'
  <2>1. \A s, k : \A q \in Ranks : Published(s, q, k)' => Published(s, q, k)
    BY <1>1, PassedSame DEF Published, hostVars, TypeOK, Running
  <2> QED
    BY <1>1, <2>1 DEF RingCore, InvOut, hostVars
<1>8. SignalMeansDelivered'
  BY <1>1 DEF RingCore, SignalMeansDelivered, hostVars, Epoch
<1> QED
  BY <1>2, <1>3, <1>4, <1>6, <1>7, <1>8 DEF RingCore

LEMMA InvPush ==
  ASSUME TypeOK, RingCore, NEW p \in Ranks, Push(p)
  PROVE  RingCore'
<1>1. /\ pc[p] = "push" /\ pc' = [pc EXCEPT ![p] = "flush"]
      /\ inflight' = inflight \cup {<<cur[p], p + 1, blk[p], tile[p]>>}
      /\ UNCHANGED <<hostVars, hostOut, sig, recv, todo, cur, blk, tile>>
  BY DEF Push
<1>2. InvTasks' /\ InvSignals' /\ NotifiedOnce'
  BY <1>1, InvInside DEF RingCore, InvTasks
<1>3. InvHost'
  BY <1>1 DEF RingCore, InvHost, hostVars
<1>4. InvStores'
  BY <1>1 DEF RingCore, InvStores, TypeOK
<1>5. InvData'
  BY <1>1 DEF RingCore, InvData, TypeOK, hostVars, Epoch
<1>6. InvOut'
  <2>1. \A s, k : \A q \in Ranks : Published(s, q, k)' => Published(s, q, k)
    BY <1>1, PassedSame DEF Published, hostVars, TypeOK, Running
  <2> QED
    BY <1>1, <2>1 DEF RingCore, InvOut, hostVars
<1>7. SignalMeansDelivered'
  BY <1>1 DEF RingCore, SignalMeansDelivered, hostVars, Epoch
<1> QED
  BY <1>2, <1>3, <1>4, <1>5, <1>6, <1>7 DEF RingCore

LEMMA InvFlush ==
  ASSUME TypeOK, RingCore, NEW p \in Ranks, Flush(p)
  PROVE  RingCore'
<1>1. /\ pc[p] = "flush" /\ pc' = [pc EXCEPT ![p] = "notify"]
      /\ \A m \in inflight : m[2] # p + 1
      /\ UNCHANGED <<hostVars, hostOut, sig, recv, inflight, todo, cur, blk, tile>>
  BY DEF Flush
<1>2. InvTasks' /\ InvSignals' /\ NotifiedOnce'
  BY <1>1, InvInside DEF RingCore, InvTasks
<1>3. InvHost'
  BY <1>1 DEF RingCore, InvHost, hostVars
<1>4. InvStores'
  <2>1. recv[<<cur[p], p + 1, blk[p]>>] = tile[p]
    BY <1>1 DEF RingCore, InvStores
  <2>2. \A m \in inflight : \A q \in Ranks :
          m = <<cur[q], q + 1, blk[q], tile[q]>> => q # p
    BY <1>1
  <2> QED
    BY <1>1, <2>1, <2>2 DEF RingCore, InvStores, TypeOK
<1>5. InvData'
  BY <1>1 DEF RingCore, InvData, TypeOK, hostVars, Epoch
<1>6. InvOut'
  <2>1. \A s, k : \A q \in Ranks : Published(s, q, k)' => Published(s, q, k)
    BY <1>1, PassedSame DEF Published, hostVars, TypeOK, Running
  <2> QED
    BY <1>1, <2>1 DEF RingCore, InvOut, hostVars
<1>7. SignalMeansDelivered'
  BY <1>1 DEF RingCore, SignalMeansDelivered, hostVars, Epoch
<1> QED
  BY <1>2, <1>3, <1>4, <1>5, <1>6, <1>7 DEF RingCore

LEMMA InvPublish ==
  ASSUME TypeOK, RingCore, NEW p \in Ranks, Publish(p)
  PROVE  RingCore'
<1> USE RingAssumption
<1> DEFINE b == BufOf(kind, cur[p])
           i == <<b, p, blk[p]>>
           Rest == /\ InvTasks' /\ InvSignals' /\ InvStores' /\ InvData'
                   /\ \A s : \A q \in Ranks, k \in Blocks :
                        Published(s, q, k)' =>
                          Published(s, q, k) \/ (q = p /\ s = cur[p] /\ k = blk[p])
<1>1. /\ pc[p] = "publish"
      /\ hostOut' = [hostOut EXCEPT ![i] = tile[p]]
      /\ UNCHANGED <<hostVars, sig, recv, inflight, todo, cur, tile>>
  BY DEF Publish
<1>2. kind # "none" /\ cur[p] \in SlotsOf(kind) /\ i \in Tiles
  BY <1>1, OwnTyped DEF RingCore, Kinds, Tiles, TypeOK
<1>3. tile[p] = Scan(calls, b, p, blk[p])
  BY <1>1 DEF RingCore, InvData
<1>4. \A q \in Ranks : q # p => pc'[q] = pc[q] /\ blk'[q] = blk[q]
  BY DEF Publish, NextBlock, TypeOK
<1>5. ASSUME p = P - 1 PROVE Rest
  <2>1. NextBlock(p)
    BY <1>5 DEF Publish
  <2>2. pc'[p] \in {"idle", "wait"}
    BY <1>5, <2>1 DEF NextBlock, EntryPoint, TypeOK
  <2>3. \A s : \A q \in Ranks, k \in Blocks :
          Passed(s, q, k)' <=> Passed(s, q, k) \/ (q = p /\ s = cur[p] /\ k = blk[p])
    BY <1>1, <2>1, PassedNext DEF RingCore, hostVars
  <2>4. InvTasks'
    BY <1>1, <1>4, <1>5, <2>2 DEF RingCore, InvTasks, Started, hostVars
  <2>5. InvSignals'
    <3>1. \A q \in Ranks : q > 0 => q - 1 \in Ranks /\ q - 1 # p
      BY <1>5 DEF Ranks
    <3> QED
      BY <1>1, <2>3, <3>1 DEF RingCore, InvSignals, hostVars
  <2>6. InvStores'
    BY <1>1, <1>4, <2>2 DEF RingCore, InvStores
  <2>7. InvData'
    BY <1>1, <1>4, <2>2 DEF RingCore, InvData, hostVars, Epoch
  <2>8. \A s : \A q \in Ranks, k \in Blocks :
          Published(s, q, k)' => Published(s, q, k) \/ (q = p /\ s = cur[p] /\ k = blk[p])
    BY <1>1, <1>4, <2>2, <2>3 DEF Published, Running
  <2> QED
    BY <2>4, <2>5, <2>6, <2>7, <2>8
<1>6. ASSUME p # P - 1 PROVE Rest
  <2>1. pc' = [pc EXCEPT ![p] = "push"] /\ UNCHANGED blk
    BY <1>6 DEF Publish
  <2>2. p < P - 1
    BY <1>6 DEF Ranks
  <2>3. InvTasks' /\ InvSignals'
    BY <1>1, <2>1, <2>2, InvInside
  <2>4. InvStores'
    BY <1>1, <2>1 DEF RingCore, InvStores, TypeOK
  <2>5. InvData'
    BY <1>1, <2>1 DEF RingCore, InvData, hostVars, Epoch, TypeOK
  <2>6. \A s, k : \A q \in Ranks : /\ Passed(s, q, k)' <=> Passed(s, q, k)
                                   /\ Running(s, q)' <=> Running(s, q)
    BY <1>1, <2>1, PassedSame DEF hostVars
  <2>7. \A s : \A q \in Ranks, k \in Blocks :
          Published(s, q, k)' => Published(s, q, k) \/ (q = p /\ s = cur[p] /\ k = blk[p])
    BY <1>1, <2>1, <2>6 DEF Published, Running, TypeOK
  <2> QED
    BY <2>3, <2>4, <2>5, <2>7
<1>7. Rest
  BY <1>5, <1>6
<1>8. InvOut'
  <2> SUFFICES ASSUME NEW s \in SlotsOf(kind), NEW q \in Ranks, NEW k \in Blocks,
                      Published(s, q, k)'
               PROVE  hostOut'[<<BufOf(kind, s), q, k>>] = Scan(calls, BufOf(kind, s), q, k)
    BY <1>1 DEF InvOut, hostVars
  <2>1. <<BufOf(kind, s), q, k>> \in Tiles
    <3>1. kind \in Kinds
      BY <1>2 DEF TypeOK
    <3> QED
      BY <3>1, BufOfSlot DEF Tiles
  <2>2. CASE <<BufOf(kind, s), q, k>> = i
    <3>1. hostOut'[<<BufOf(kind, s), q, k>>] = tile[p]
      BY <1>1, <1>2, <2>2 DEF TypeOK
    <3>2. BufOf(kind, s) = b /\ q = p /\ k = blk[p]
      BY <2>2
    <3> QED
      BY <1>3, <3>1, <3>2
  <2>3. CASE <<BufOf(kind, s), q, k>> # i
    <3>1. hostOut'[<<BufOf(kind, s), q, k>>] = hostOut[<<BufOf(kind, s), q, k>>]
      BY <1>1, <2>1, <2>3 DEF TypeOK
    <3>2. Published(s, q, k)
      BY <1>7, <2>3
    <3> QED
      BY <1>2, <3>1, <3>2 DEF RingCore, InvOut
  <2> QED
    BY <2>2, <2>3
<1>9. InvHost' /\ NotifiedOnce' /\ SignalMeansDelivered'
  BY <1>1, <1>2 DEF RingCore, InvHost, NotifiedOnce, SignalMeansDelivered, hostVars, Epoch
<1> QED
  BY <1>7, <1>8, <1>9 DEF RingCore

LEMMA InvLand ==
  ASSUME TypeOK, RingCore, NEW m \in inflight, Land(m)
  PROVE  RingCore'
<1> USE RingAssumption
<1>1. /\ recv' = [recv EXCEPT ![<<m[1], m[2], m[3]>>] = m[4]]
      /\ inflight' = inflight \ {m}
      /\ UNCHANGED <<hostVars, hostOut, sig, todo, pc, cur, blk, tile>>
  BY DEF Land
<1>2. PICK p \in Ranks : pc[p] = "flush" /\ m = <<cur[p], p + 1, blk[p], tile[p]>>
  BY DEF RingCore, InvStores
<1>3. <<cur[p], p + 1, blk[p]>> \in Cells /\ kind # "none"
  BY <1>2, OwnTyped DEF RingCore, InvTasks, Ranks, Cells, TypeOK, Kinds
<1>4. recv' = [recv EXCEPT ![<<cur[p], p + 1, blk[p]>>] = tile[p]]
  BY <1>1, <1>2
<1>5. sig[<<cur[p], p + 1, blk[p]>>] = 0
  <2>1. ~Passed(cur[p], p, blk[p])
    BY <1>2 DEF Passed, Running, TypeOK, Blocks
  <2>2. cur[p] \in Slots /\ p + 1 \in Ranks /\ blk[p] \in Blocks /\ p + 1 > 0 /\ (p + 1) - 1 = p
    BY <1>3 DEF Cells, TypeOK, Ranks
  <2> QED
    BY <1>3, <2>1, <2>2 DEF RingCore, InvSignals
<1>6. InvStores'
  <2>1. \A n \in inflight' : n \in inflight
    BY <1>1
  <2>2. ASSUME NEW q \in Ranks, pc[q] = "flush"
        PROVE  \/ <<cur[q], q + 1, blk[q], tile[q]>> \in inflight'
               \/ recv'[<<cur[q], q + 1, blk[q]>>] = tile[q]
    <3>1. CASE q = p
      BY <1>3, <1>4, <3>1 DEF TypeOK
    <3>2. CASE q # p
      <4>1. <<cur[q], q + 1, blk[q], tile[q]>> # m
        BY <1>2, <3>2 DEF Ranks
      <4>2. <<cur[q], q + 1, blk[q]>> # <<cur[p], p + 1, blk[p]>>
        BY <3>2 DEF Ranks
      <4>3. <<cur[q], q + 1, blk[q]>> \in Cells
        BY <2>2 DEF RingCore, InvTasks, Ranks, Cells, TypeOK
      <4>4. recv'[<<cur[q], q + 1, blk[q]>>] = recv[<<cur[q], q + 1, blk[q]>>]
        BY <1>4, <4>2, <4>3 DEF TypeOK
      <4> QED
        BY <1>1, <2>2, <4>1, <4>4 DEF RingCore, InvStores
    <3> QED
      BY <3>1, <3>2
  <2>3. ASSUME NEW q \in Ranks, pc[q] = "notify"
        PROVE  recv'[<<cur[q], q + 1, blk[q]>>] = tile[q]
    <3>1. q # p
      BY <1>2, <2>3
    <3>2. <<cur[q], q + 1, blk[q]>> # <<cur[p], p + 1, blk[p]>>
      BY <3>1 DEF Ranks
    <3>3. <<cur[q], q + 1, blk[q]>> \in Cells
      BY <2>3 DEF RingCore, InvTasks, Ranks, Cells, TypeOK
    <3>4. recv'[<<cur[q], q + 1, blk[q]>>] = recv[<<cur[q], q + 1, blk[q]>>]
      BY <1>4, <3>2, <3>3 DEF TypeOK
    <3> QED
      BY <2>3, <3>4 DEF RingCore, InvStores
  <2> QED
    BY <1>1, <2>1, <2>2, <2>3 DEF RingCore, InvStores
<1>7. SignalMeansDelivered'
  <2> SUFFICES ASSUME NEW s \in SlotsOf(kind), NEW q \in Ranks, NEW k \in Blocks,
                      sig[<<s, q, k>>] >= Epoch
               PROVE  recv'[<<s, q, k>>] = recv[<<s, q, k>>]
    BY <1>1, <1>3 DEF RingCore, SignalMeansDelivered, hostVars, Epoch
  <2>1. <<s, q, k>> # <<cur[p], p + 1, blk[p]>>
    BY <1>5 DEF Epoch
  <2>2. <<s, q, k>> \in Cells
    BY <1>3, SlotsTyped DEF Cells, TypeOK
  <2> QED
    BY <1>4, <2>1, <2>2 DEF TypeOK
<1>8. InvHost' /\ InvTasks'
  BY <1>1, <1>3 DEF RingCore, InvHost, InvTasks, Started, hostVars
<1>9. InvSignals' /\ NotifiedOnce' /\ InvData'
  BY <1>1 DEF RingCore, InvSignals, NotifiedOnce, InvData, Passed, Started, Running, hostVars, Epoch
<1>10. InvOut'
  BY <1>1 DEF RingCore, InvOut, Published, Passed, Started, Running, hostVars
<1> QED
  BY <1>6, <1>7, <1>8, <1>9, <1>10 DEF RingCore

LEMMA InvNotify ==
  ASSUME TypeOK, RingCore, NEW p \in Ranks, Notify(p)
  PROVE  RingCore'
<1> USE RingAssumption
<1> DEFINE i == <<cur[p], p + 1, blk[p]>>
<1>1. /\ pc[p] = "notify"
      /\ sig' = [sig EXCEPT ![i] = @ + 1]
      /\ NextBlock(p)
      /\ UNCHANGED <<hostVars, hostOut, recv, inflight, todo, cur, tile>>
  BY DEF Notify
<1>2. kind \in Kinds /\ kind # "none" /\ cur[p] \in SlotsOf(kind)
  BY <1>1, OwnTyped DEF RingCore, Kinds
<1>3. /\ p + 1 \in Ranks /\ p + 1 > 0 /\ (p + 1) - 1 = p
      /\ cur[p] \in Slots /\ blk[p] \in Blocks /\ i \in Cells
  BY <1>1 DEF RingCore, InvTasks, Ranks, Cells, TypeOK
<1>4. \A q \in Ranks : q # p => pc'[q] = pc[q] /\ blk'[q] = blk[q]
  BY <1>1 DEF NextBlock, TypeOK
<1>5. pc'[p] \in {"idle", "wait", "fuse"} /\ (pc'[p] = "wait" => p > 0) /\ (pc'[p] = "fuse" => p = 0)
  BY <1>1 DEF NextBlock, EntryPoint, TypeOK, Ranks
<1>6. \A s : \A q \in Ranks, k \in Blocks :
        Passed(s, q, k)' <=> Passed(s, q, k) \/ (q = p /\ s = cur[p] /\ k = blk[p])
  BY <1>1, PassedNext DEF RingCore, hostVars
<1>7. ~Passed(cur[p], p, blk[p])
  BY <1>1 DEF Passed, Running, TypeOK, Blocks
<1>8. sig[i] = 0 /\ sig'[i] = 1
  <2>1. sig[i] = 0
    BY <1>2, <1>3, <1>7 DEF RingCore, InvSignals
  <2> QED
    BY <1>1, <1>3, <2>1 DEF TypeOK
<1>9. \A c \in Cells : c # i => sig'[c] = sig[c]
  BY <1>1 DEF TypeOK
<1>10. InvSignals'
  <2> SUFFICES ASSUME NEW s \in Slots, NEW q \in Ranks, NEW k \in Blocks
               PROVE  sig'[<<s, q, k>>] = IF q > 0 /\ Passed(s, q - 1, k)' THEN 1 ELSE 0
    BY DEF InvSignals
  <2>1. <<s, q, k>> \in Cells
    BY DEF Cells
  <2>2. q > 0 => q - 1 \in Ranks
    BY DEF Ranks
  <2>3. CASE <<s, q, k>> = i
    <3>1. s = cur[p] /\ q = p + 1 /\ k = blk[p]
      BY <2>3
    <3> QED
      BY <1>3, <1>6, <1>8, <3>1
  <2>4. CASE <<s, q, k>> # i
    <3>1. q > 0 => ~(q - 1 = p /\ s = cur[p] /\ k = blk[p])
      BY <2>4 DEF Ranks
    <3>2. q > 0 => (Passed(s, q - 1, k)' <=> Passed(s, q - 1, k))
      BY <1>6, <2>2, <3>1
    <3>3. sig[<<s, q, k>>] = IF q > 0 /\ Passed(s, q - 1, k) THEN 1 ELSE 0
      BY <1>2 DEF RingCore, InvSignals
    <3> QED
      BY <1>9, <2>1, <2>4, <3>2, <3>3
  <2> QED
    BY <2>3, <2>4
<1>11. NotifiedOnce'
  BY <1>8, <1>9 DEF RingCore, NotifiedOnce, Epoch
<1>12. SignalMeansDelivered'
  <2> SUFFICES ASSUME NEW s \in SlotsOf(kind), NEW q \in Ranks, NEW k \in Blocks,
                      sig'[<<s, q, k>>] >= Epoch
               PROVE  recv[<<s, q, k>>] = Scan(calls, BufOf(kind, s), q - 1, k)
    BY <1>1 DEF SignalMeansDelivered, hostVars, Epoch
  <2>1. <<s, q, k>> \in Cells
    BY <1>2, SlotsTyped DEF Cells
  <2>2. CASE <<s, q, k>> = i
    <3>1. s = cur[p] /\ q = p + 1 /\ k = blk[p]
      BY <2>2
    <3>2. recv[i] = tile[p] /\ tile[p] = Scan(calls, BufOf(kind, cur[p]), p, blk[p])
      BY <1>1 DEF RingCore, InvStores, InvData
    <3> QED
      BY <1>3, <3>1, <3>2
  <2>3. CASE <<s, q, k>> # i
    BY <1>2, <1>9, <2>1, <2>3 DEF RingCore, SignalMeansDelivered
  <2> QED
    BY <2>2, <2>3
<1>13. InvTasks'
  BY <1>1, <1>4, <1>5 DEF RingCore, InvTasks, Started, hostVars
<1>14. InvStores'
  BY <1>1, <1>4, <1>5 DEF RingCore, InvStores
<1>15. InvData'
  <2>1. ASSUME NEW q \in Ranks, pc'[q] = "fuse", q > 0
        PROVE  sig'[<<cur'[q], q, blk'[q]>>] >= Epoch
    <3>1. q # p
      BY <1>5, <2>1
    <3>2. sig[<<cur[q], q, blk[q]>>] >= Epoch
      BY <1>4, <2>1, <3>1 DEF RingCore, InvData
    <3>3. <<cur[q], q, blk[q]>> # i
      BY <1>8, <3>2 DEF Epoch
    <3>4. <<cur[q], q, blk[q]>> \in Cells
      BY DEF TypeOK, Cells
    <3> QED
      BY <1>1, <1>4, <1>9, <3>1, <3>2, <3>3, <3>4 DEF Epoch
  <2> QED
    BY <1>1, <1>4, <1>5, <2>1 DEF RingCore, InvData, hostVars, Epoch
<1>16. InvOut'
  <2>1. \A s : \A q \in Ranks, k \in Blocks : Published(s, q, k)' => Published(s, q, k)
    BY <1>1, <1>4, <1>5, <1>6 DEF Published, Running
  <2> QED
    BY <1>1, <2>1 DEF RingCore, InvOut, hostVars
<1>17. InvHost'
  BY <1>1, <1>2 DEF RingCore, InvHost, hostVars
<1> QED
  BY <1>10, <1>11, <1>12, <1>13, <1>14, <1>15, <1>16, <1>17 DEF RingCore

LEMMA InvCore == TypeOK /\ RingCore /\ [Next]_vars => RingCore'
<1> SUFFICES ASSUME TypeOK, RingCore, [Next]_vars PROVE RingCore'
  OBVIOUS
<1>1. CASE Finished \/ UNCHANGED vars
  BY <1>1
  DEF Finished, vars, RingCore, InvHost, InvTasks, InvStores, InvSignals, InvData, InvOut,
      NotifiedOnce, SignalMeansDelivered, Started, Running, Passed, Published, Epoch
<1> QED
  BY <1>1, InvStartRun, InvReturn, InvStartTask, InvWait, InvCombine, InvPublish, InvPush,
     InvLand, InvFlush, InvNotify
  DEF Next, Kernel

-----------------------------------------------------------------------------
(* What the output buffers hold *)

LEMMA DatedStep == TypeOK /\ RingInv /\ [Next]_vars => HostOutDated'
<1> SUFFICES ASSUME TypeOK, RingInv, [Next]_vars PROVE HostOutDated'
  OBVIOUS
<1> USE RingAssumption
<1>1. ASSUME NEW kd \in Kinds, StartRun(kd) PROVE HostOutDated'
  <2>1. calls \in Nat /\ calls' = calls + 1 /\ hostOut' = ClearedOut(kd)
    BY <1>1 DEF StartRun, TypeOK
  <2>2. \A n \in 1..calls : n \in 1..calls'
    BY <2>1
  <2>3. \A c \in Tiles : hostOut'[c] = Zero \/ hostOut'[c] = hostOut[c]
    BY <2>1 DEF ClearedOut
  <2> QED
    BY <2>1, <2>2, <2>3 DEF RingInv, HostOutDated
<1>2. CASE Return
  BY <1>2 DEF Return, RingInv, HostOutDated
<1>3. ASSUME NEW p \in Ranks, Publish(p) PROVE HostOutDated'
  <2> DEFINE i == <<BufOf(kind, cur[p]), p, blk[p]>>
  <2>1. /\ hostOut' = [hostOut EXCEPT ![i] = tile[p]]
        /\ calls' = calls /\ kind' = kind
    BY <1>3 DEF Publish, hostVars
  <2>2. kind # "none" /\ tile[p] = Scan(calls, BufOf(kind, cur[p]), p, blk[p])
    BY <1>3, OwnTyped DEF Publish, RingInv, RingCore, InvData, Kinds
  <2>3. calls \in 1..calls
    BY <2>2 DEF RingInv, HostOutDated, TypeOK
  <2>4. ASSUME NEW c \in Tiles
        PROVE  hostOut'[c] = Zero \/ \E n \in 1..calls : hostOut'[c] = Scan(n, c[1], c[2], c[3])
    <3>1. CASE c = i
      BY <2>1, <2>2, <2>3, <3>1 DEF TypeOK
    <3>2. CASE c # i
      BY <2>1, <3>2 DEF RingInv, HostOutDated, TypeOK
    <3> QED
      BY <3>1, <3>2
  <2> QED
    BY <2>1, <2>4 DEF RingInv, HostOutDated
<1>4. ASSUME UNCHANGED <<hostOut, calls, kind>> PROVE HostOutDated'
  BY <1>4 DEF RingInv, HostOutDated
<1>5. ASSUME NEW p \in Ranks, StartTask(p) \/ Wait(p) \/ Combine(p) \/ Push(p) \/ Flush(p) \/ Notify(p)
      PROVE  UNCHANGED <<hostOut, calls, kind>>
  BY <1>5 DEF StartTask, Wait, Combine, Push, Flush, Notify, hostVars
<1>6. ASSUME NEW m, Land(m) PROVE UNCHANGED <<hostOut, calls, kind>>
  BY <1>6 DEF Land, hostVars
<1>7. CASE Finished \/ UNCHANGED vars
  BY <1>4, <1>7 DEF Finished, vars
<1> QED
  BY <1>1, <1>2, <1>3, <1>4, <1>5, <1>6, <1>7 DEF Next, Kernel

-----------------------------------------------------------------------------
(* The theorems *)

\* The ring's inductive invariant, with its types, holds in every state of
\* every run of the kernel and its host calls.
THEOREM RingInvariant == Spec => [](TypeOK /\ RingInv)
<1>1. Init => TypeOK /\ RingInv
  BY TypeInit, InvInit DEF RingInv, HostOutDated, Init
<1>2. TypeOK /\ RingInv /\ [Next]_vars => (TypeOK /\ RingInv)'
  <2> SUFFICES ASSUME TypeOK, RingInv, [Next]_vars PROVE TypeOK' /\ RingCore' /\ HostOutDated'
    BY DEF RingInv
  <2> QED
    BY TypeStep, InvCore, DatedStep DEF RingInv, RingCore
<1> QED
  BY <1>1, <1>2, PTL DEF Spec

\* Type correctness of the ring (state the kernel and the host buffers can hold).
THEOREM TypeCorrect == Spec => []TypeOK
  BY RingInvariant, PTL

\* TWAIT's promise: behind a raised signal lies the whole predecessor block.
THEOREM Delivery == Spec => []SignalMeansDelivered
<1>1. RingInv => SignalMeansDelivered
  BY DEF RingInv, RingCore
<1> QED
  BY <1>1, RingInvariant, PTL

\* With one fixed epoch the signal of a block is raised at most once per window.
THEOREM SingleNotify == Spec => []NotifiedOnce
<1>1. RingInv => NotifiedOnce
  BY DEF RingInv, RingCore
<1> QED
  BY <1>1, RingInvariant, PTL

\* The window is never freed (end of worker.run) under a store in flight.
THEOREM WindowQuiet == Spec => []NoStoreOutlivesWindow
<1>1. RingInv => NoStoreOutlivesWindow
  BY DEF RingInv, RingCore, InvHost, NoStoreOutlivesWindow
<1> QED
  BY <1>1, RingInvariant, PTL

\* A block whose signal is up is never rewritten under its reader: a landing
\* store targets a block its sender has not notified yet.
LEMMA StableStep ==
  TypeOK /\ RingInv /\ [Next]_vars =>
    \A c \in Cells : sig[c] >= Epoch /\ kind # "none" => recv'[c] = recv[c]
<1> SUFFICES ASSUME TypeOK, RingInv, [Next]_vars, NEW c \in Cells, sig[c] >= Epoch, kind # "none"
             PROVE  recv'[c] = recv[c]
  OBVIOUS
<1>1. ASSUME NEW m \in inflight, Land(m) PROVE recv'[c] = recv[c]
  <2>1. PICK p \in Ranks : pc[p] = "flush" /\ m = <<cur[p], p + 1, blk[p], tile[p]>>
    BY DEF RingInv, RingCore, InvStores
  <2>2. recv' = [recv EXCEPT ![<<cur[p], p + 1, blk[p]>>] = tile[p]]
    BY <1>1, <2>1 DEF Land
  <2>3. ~Passed(cur[p], p, blk[p])
    BY <2>1 DEF Passed, Running, TypeOK, Blocks
  <2>4. cur[p] \in Slots /\ p + 1 \in Ranks /\ blk[p] \in Blocks /\ p + 1 > 0 /\ (p + 1) - 1 = p
    BY <2>1, RingAssumption DEF RingInv, RingCore, InvTasks, TypeOK, Ranks
  <2>5. sig[<<cur[p], p + 1, blk[p]>>] = 0
    BY <2>3, <2>4 DEF RingInv, RingCore, InvSignals
  <2>6. c # <<cur[p], p + 1, blk[p]>>
    BY <2>5 DEF Epoch
  <2> QED
    BY <2>2, <2>6 DEF TypeOK
<1>2. ASSUME NEW kd \in Kinds, StartRun(kd) PROVE FALSE
  BY <1>2 DEF StartRun
<1>3. ASSUME NEW p \in Ranks, Kernel(p) PROVE recv' = recv
  BY <1>3 DEF Kernel, StartTask, Wait, Combine, Publish, Push, Flush, Notify
<1>4. ASSUME Return \/ Finished \/ UNCHANGED vars PROVE recv' = recv
  BY <1>4 DEF Return, Finished, vars
<1> QED
  BY <1>1, <1>2, <1>3, <1>4 DEF Next

\* The receive block is stable from its notification to the end of the call.
THEOREM Stability == Spec => RecvStable
<1>1. TypeOK /\ RingInv /\ [Next]_vars =>
        [\A c \in Cells : sig[c] >= Epoch /\ kind # "none" => recv'[c] = recv[c]]_vars
  BY StableStep
<1> QED
  BY <1>1, RingInvariant, PTL DEF Spec, RecvStable

-----------------------------------------------------------------------------
(* The ring implements the collective *)

\* A scan is never the zero tensor, and two calls' scans differ: the dated
\* input blocks tell a stale result from the right one.
LEMMA ScanDistinct ==
  ASSUME NEW p \in Nat, NEW b, NEW k, NEW n, NEW c, n # c
  PROVE  Scan(c, b, p, k) # Zero /\ Scan(c, b, p, k) # Scan(n, b, p, k)
<1> DEFINE T(a, q) == <<InputId(a, b, q, k), {InputId(a, b, j, k) : j \in (q + 1)..p}>>
<1>1. Scan(c, b, p, k) = {T(c, q) : q \in 0..p} /\ Scan(n, b, p, k) = {T(n, q) : q \in 0..p}
  BY DEF Scan
<1>2. 0 \in 0..p
  OBVIOUS
<1>3. \A q \in 0..p : T(c, 0) # T(n, q)
  BY DEF InputId
<1> HIDE DEF T
<1>4. T(c, 0) \in Scan(c, b, p, k)
  BY <1>1, <1>2
<1>5. T(c, 0) \notin Scan(n, b, p, k)
  BY <1>1, <1>3
<1> QED
  BY <1>4, <1>5 DEF Zero

LEMMA RefineInit == Init => Abstract!Init
  BY DEF Init, Abstract!Init, DoneBlocks, Tiles, Buffers, Ranks, Blocks,
         Abstract!Buffers, Abstract!Ranks, Abstract!Blocks, Zero, Abstract!Zero

LEMMA SameScan == \A c, b, p, k : Abstract!Scan(c, b, p, k) = Scan(c, b, p, k)
  BY DEF Scan, InputId, Abstract!Scan, Abstract!InputId

LEMMA SameTiles ==
  /\ Abstract!Buffers \X Abstract!Ranks \X Abstract!Blocks = Tiles
  /\ \A kd : Abstract!BuffersOf(kd) = BuffersOf(kd) /\ (Abstract!Returns(kd) <=> Returns(kd))
  /\ \A kd : Abstract!BuffersOf(kd) \X Abstract!Ranks \X Abstract!Blocks
               = BuffersOf(kd) \X Ranks \X Blocks
  BY DEF Tiles, Buffers, Ranks, Blocks, BuffersOf, Returns,
         Abstract!Buffers, Abstract!Ranks, Abstract!Blocks, Abstract!BuffersOf, Abstract!Returns

\* When worker.run has drained, every block of the call is computed.
LEMMA DrainedDone ==
  ASSUME TypeOK, RingInv, Return
  PROVE  DoneBlocks = BuffersOf(kind) \X Ranks \X Blocks
<1> USE RingAssumption
<1>1. kind \in Kinds /\ kind # "none"
  BY DEF Return, TypeOK
<1>2. \A b \in BuffersOf(kind) : b \in Buffers /\ \E s \in SlotsOf(kind) : BufOf(kind, s) = b
  BY <1>1, SlotOfBuf
<1>3. ASSUME NEW b \in BuffersOf(kind), NEW p \in Ranks, NEW k \in Blocks
      PROVE  hostOut[<<b, p, k>>] = Scan(calls, b, p, k) /\ <<b, p, k>> \in Tiles
  <2>1. PICK s \in SlotsOf(kind) : BufOf(kind, s) = b
    BY <1>2
  <2>2. Published(s, p, k)
    BY DEF Return, Published, Passed, Started, Running
  <2> QED
    BY <1>1, <1>2, <2>1, <2>2 DEF RingInv, RingCore, InvOut, Tiles
<1>4. ASSUME NEW c \in BuffersOf(kind) \X Ranks \X Blocks
      PROVE  c \in DoneBlocks
  <2>1. c = <<c[1], c[2], c[3]>> /\ c[1] \in BuffersOf(kind) /\ c[2] \in Ranks /\ c[3] \in Blocks
    OBVIOUS
  <2>2. hostOut[c] = Scan(calls, c[1], c[2], c[3]) /\ c \in Tiles
    BY <1>3, <2>1
  <2> QED
    BY <1>1, <2>1, <2>2 DEF DoneBlocks
<1>5. ASSUME NEW c \in DoneBlocks
      PROVE  c \in BuffersOf(kind) \X Ranks \X Blocks
  BY <1>1 DEF DoneBlocks, Tiles
<1> QED
  BY <1>4, <1>5

LEMMA RefineStep == TypeOK /\ RingInv /\ [Next]_vars => [Abstract!Next]_(Abstract!vars)
<1> SUFFICES ASSUME TypeOK, RingInv, [Next]_vars
             PROVE  Abstract!Next \/ UNCHANGED <<calls, kind, DoneBlocks, outputs>>
  BY DEF Abstract!vars
<1> USE RingAssumption
<1>1. ASSUME NEW kd \in Kinds, StartRun(kd) PROVE Abstract!Next
  <2>1. /\ kind = "none" /\ calls < MaxCalls /\ kind' = kd /\ calls' = calls + 1
        /\ hostOut' = ClearedOut(kd) /\ outputs' = outputs
    BY <1>1 DEF StartRun
  <2>2. ASSUME NEW c \in Tiles PROVE hostOut'[c] # Scan(calls + 1, c[1], c[2], c[3])
    <3>1. c[2] \in Nat
      BY DEF Tiles, Ranks
    <3>2. hostOut'[c] = Zero \/ hostOut'[c] = hostOut[c]
      BY <2>1 DEF ClearedOut
    <3>3. \A n \in 1..calls : n # calls + 1
      BY DEF TypeOK
    <3>4. calls # calls + 1
      BY DEF TypeOK
    <3>5. \A n \in 1..calls : Scan(calls + 1, c[1], c[2], c[3]) # Scan(n, c[1], c[2], c[3])
      BY <3>1, <3>3, ScanDistinct
    <3>6. Scan(calls + 1, c[1], c[2], c[3]) # Zero
      BY <3>1, <3>4, ScanDistinct
    <3> QED
      BY <3>2, <3>5, <3>6 DEF RingInv, HostOutDated
  <2>3. DoneBlocks = {} /\ DoneBlocks' = {}
    BY <2>1, <2>2 DEF DoneBlocks
  <2>4. Abstract!Call(kd)
    BY <2>1, <2>3 DEF Abstract!Call
  <2> QED
    BY <2>4 DEF Abstract!Next, Kinds
<1>2. CASE Return
  <2>1. DoneBlocks = BuffersOf(kind) \X Ranks \X Blocks
    BY <1>2, DrainedDone
  <2>2. ASSUME NEW c \in Tiles, c[1] \in BuffersOf(kind)
        PROVE  hostOut[c] = Scan(calls, c[1], c[2], c[3])
    <3>1. c \in DoneBlocks
      BY <2>1, <2>2 DEF Tiles
    <3> QED
      BY <1>2, <3>1 DEF DoneBlocks, Return
  <2>3. outputs' = [c \in Tiles |-> IF Returns(kind) /\ c[1] \in BuffersOf(kind)
                                      THEN Scan(calls, c[1], c[2], c[3]) ELSE outputs[c]]
    BY <1>2, <2>2 DEF Return
  <2>4. kind # "none" /\ kind' = "none" /\ calls' = calls /\ DoneBlocks' = {}
    BY <1>2 DEF Return, DoneBlocks
  <2>5. Abstract!Return
    BY <2>1, <2>3, <2>4, SameTiles, SameScan DEF Abstract!Return
  <2> QED
    BY <2>5 DEF Abstract!Next
<1>3. ASSUME NEW p \in Ranks, Publish(p)
      PROVE  Abstract!Next \/ UNCHANGED <<calls, kind, DoneBlocks, outputs>>
  <2> DEFINE i == <<BufOf(kind, cur[p]), p, blk[p]>>
  <2>1. /\ hostOut' = [hostOut EXCEPT ![i] = tile[p]]
        /\ calls' = calls /\ kind' = kind /\ outputs' = outputs
    BY <1>3 DEF Publish, hostVars
  <2>2. /\ kind # "none" /\ tile[p] = Scan(calls, BufOf(kind, cur[p]), p, blk[p])
        /\ i[1] \in BuffersOf(kind) /\ i \in Tiles
    BY <1>3, OwnTyped DEF Publish, RingInv, RingCore, InvData, Kinds, Tiles, TypeOK
  <2>3. DoneBlocks' = DoneBlocks \cup {i}
    <3>1. \A c \in Tiles : c # i => hostOut'[c] = hostOut[c]
      BY <2>1 DEF TypeOK
    <3>2. hostOut'[i] = Scan(calls, i[1], i[2], i[3])
      BY <2>1, <2>2 DEF TypeOK
    <3>3. ASSUME NEW c \in Tiles
          PROVE  c \in DoneBlocks' <=> c \in DoneBlocks \/ c = i
      <4>1. c \in DoneBlocks' <=>
              c[1] \in BuffersOf(kind) /\ hostOut'[c] = Scan(calls, c[1], c[2], c[3])
        BY <2>1, <2>2 DEF DoneBlocks
      <4>2. c \in DoneBlocks <=>
              c[1] \in BuffersOf(kind) /\ hostOut[c] = Scan(calls, c[1], c[2], c[3])
        BY <2>2 DEF DoneBlocks
      <4> HIDE DEF i
      <4> QED
        BY <2>2, <3>1, <3>2, <4>1, <4>2
    <3>4. DoneBlocks \subseteq Tiles /\ DoneBlocks' \subseteq Tiles
      BY DEF DoneBlocks
    <3> HIDE DEF i
    <3> QED
      BY <2>2, <3>3, <3>4
  <2>4. CASE i \in DoneBlocks
    BY <2>1, <2>3, <2>4
  <2>5. CASE i \notin DoneBlocks
    <3>1. Abstract!Finish(i)
      BY <2>1, <2>2, <2>3, <2>5, SameTiles DEF Abstract!Finish
    <3> QED
      BY <2>2, <3>1, SameTiles DEF Abstract!Next
  <2> QED
    BY <2>4, <2>5
<1>4. ASSUME UNCHANGED <<hostOut, calls, kind, outputs>>
      PROVE  UNCHANGED <<calls, kind, DoneBlocks, outputs>>
  BY <1>4 DEF DoneBlocks
<1>5. ASSUME NEW p \in Ranks, StartTask(p) \/ Wait(p) \/ Combine(p) \/ Push(p) \/ Flush(p) \/ Notify(p)
      PROVE  UNCHANGED <<hostOut, calls, kind, outputs>>
  BY <1>5 DEF StartTask, Wait, Combine, Push, Flush, Notify, hostVars
<1>6. ASSUME NEW m, Land(m) PROVE UNCHANGED <<hostOut, calls, kind, outputs>>
  BY <1>6 DEF Land, hostVars
<1>7. ASSUME Finished \/ UNCHANGED vars PROVE UNCHANGED <<hostOut, calls, kind, outputs>>
  BY <1>7 DEF Finished, vars
<1> QED
  BY <1>1, <1>2, <1>3, <1>4, <1>5, <1>6, <1>7 DEF Next, Kernel

\* The ring implements the AllScan collective: every call that hands back
\* results returns the scan of its own inputs, in every head, rank and block.
THEOREM Refinement == Spec => ImplementsAllScan
<1>1. Init => Abstract!Init
  BY RefineInit
<1>2. TypeOK /\ RingInv /\ [Next]_vars => [Abstract!Next]_(Abstract!vars)
  BY RefineStep
<1> QED
  BY <1>1, <1>2, RingInvariant, PTL DEF Spec, ImplementsAllScan, Abstract!Spec
=============================================================================
