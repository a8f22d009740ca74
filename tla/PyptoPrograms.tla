---------------------------- MODULE PyptoPrograms ----------------------------
(***************************************************************************)
(* The distributed pypto programs as host_orch writes them: for every rank *)
(* the dispatches in program order, and of each the tensors it reads and   *)
(* writes and the windows it waits on and sends into.                      *)
(*                                                                         *)
(*   allscan           batched_program.py: Batch forward rings             *)
(*   allscan_backward  batched_backward_program.py: Batch reverse rings    *)
(*   forward           fused_program.py: stage1, ring, stage2              *)
(*   backward          fused_backward_program.py: recompute, ring, grad_o, *)
(*                     reverse ring, grad_h                                *)
(*   stub_reverse      b4_stub_program.py: it without the reverse ring     *)
(*   stub_forward      b4_stub_fwd.py: it without the forward ring         *)
(*                                                                         *)
(* and the two-rank probes of b4_tworing_wait_probe.py, by the name of the *)
(* variant (the reproducer of the ordering issue is "sendfirst").          *)
(***************************************************************************)
EXTENDS Integers, Sequences, FiniteSets

CONSTANTS P,     \* ranks, one device each
          K,     \* pipeline blocks of a ring
          Batch  \* rings of a batched AllScan program (_MEASURE_BATCH)

ASSUME ProgramAssumption ==
  /\ P \in Nat /\ P >= 2
  /\ K \in Nat /\ K >= 1
  /\ Batch \in Nat /\ Batch >= 1

Probes == {"fwd", "rev", "fwd5", "both", "sendfirst", "bothdep", "sendfirstdep",
           "samedir", "fusedcomm"}

Programs == Probes \cup {"allscan", "allscan_backward", "forward", "backward",
                         "stub_reverse", "stub_forward"}

Collectives == {"allscan", "allscan_backward"}

Ranks == 0..(P - 1)

-----------------------------------------------------------------------------
(* Dispatches *)

None == "none"

\* A dispatch: the window pair it waits on and the one it sends into, towards
\* rank r + hop; of a probe, the tensor it sends and the one it receives into.
Plain(op, reads, writes) ==
  [op |-> op, reads |-> reads, writes |-> writes,
   wait |-> None, send |-> None, hop |-> 0, from |-> None, into |-> None]

Waiting(d, on)       == [d EXCEPT !.wait = on]
Sending(d, on, hop)  == [d EXCEPT !.send = on, !.hop = hop]

First(writes)         == Sending(Plain("first", {"S_local"}, writes), "forward", 1)
Middle(writes)        == Sending(Waiting(Plain("middle", {"S_local"}, writes), "forward"), "forward", 1)
Last(writes)          == Waiting(Plain("last", {"S_local"}, writes), "forward")
Source(reads)         == Sending(Plain("source", reads, {"dS_total", "dgamma"}), "reverse", -1)
BwdMiddle(reads)      ==
  Sending(Waiting(Plain("bwd_middle", reads, {"dS_total", "dgamma"}), "reverse"), "reverse", -1)
Terminal(reads)       == Waiting(Plain("terminal", reads, {"dS_total", "dgamma"}), "reverse")

\* The collective rank stores its own out; of the fused ring a rank but the
\* first keeps what it received.
ForwardRing(p, r) ==
  LET kept == IF p \in Collectives THEN {"S_out"} ELSE {"S_recv"}
  IN  IF r = 0 THEN First({"S_out"}) ELSE IF r = P - 1 THEN Last(kept) ELSE Middle(kept)

\* Rank 0 has no predecessor: its boundary is the caller's zero tensor.
Boundary(p, r) == IF r = 0 \/ p = "stub_forward" THEN "zero" ELSE "S_recv"

ReverseRing(p, r) ==
  LET given == {"g_out", "out_prev"}
  IN  IF r = P - 1 THEN Source(IF p \in Collectives THEN given ELSE {"dS_recv"})
      ELSE IF r = 0 THEN Terminal(IF p \in Collectives THEN given ELSE {})
      ELSE BwdMiddle(IF p \in Collectives THEN given ELSE {"dS_recv", Boundary(p, r)})

Stage1       == Plain("stage1", {}, {"snaps", "S_local"})
Stage2(p, r) == Plain("stage2", {"snaps", Boundary(p, r)}, {"O"})
Recompute    == Plain("recompute", {}, {"snaps", "S_local"})
GradO(p, r)  == Plain("grad_o", {"snaps", Boundary(p, r)}, {"partials", "dS_recv"})
GradH(ends)  == Plain("grad_h", {"snaps", "partials"} \cup ends, {"grads"})

Adjoints == {"dS_total", "dgamma"}

AllscanBody(r)         == <<ForwardRing("allscan", r)>>
AllscanBackwardBody(r) == <<ReverseRing("allscan_backward", r)>>
ForwardBody(r)         == <<Stage1, ForwardRing("forward", r), Stage2("forward", r)>>
BackwardBody(r)        ==
  <<Recompute, ForwardRing("backward", r), GradO("backward", r), ReverseRing("backward", r),
    GradH(Adjoints)>>

\* The reverse ring is not dispatched: grad_h starts from zeros.
StubReverseBody(r) ==
  <<Recompute, ForwardRing("stub_reverse", r), GradO("stub_reverse", r), GradH({"zero"})>>

\* The forward ring is not dispatched: every rank's boundary is zero.
StubForwardBody(r) ==
  <<Recompute, GradO("stub_forward", r), ReverseRing("stub_forward", r), GradH(Adjoints)>>

-----------------------------------------------------------------------------
(* The probes: trivial computes around sends and waits of two ranks *)

Doubles(x, y) == Plain("compute", {x}, {y})

\* send: keeps an echo of what it stores remotely.
SendOf(x, echo, on, hop) == [Sending(Plain("send", {x}, {echo}), on, hop) EXCEPT !.from = x]
Recv(out, on)            == [Waiting(Plain("recv", {}, {out}), on) EXCEPT !.into = out]

\* recv_dep: names a tensor only for the edge to its producer.
RecvDep(out, on, dep) == [Recv(out, on) EXCEPT !.reads = {dep}]

Joined(op, send, recv) ==
  [send EXCEPT !.op = op, !.writes = @ \cup recv.writes, !.wait = recv.wait, !.into = recv.into]

SendForward(x) == SendOf(x, "Echo", "forward", 1)
SendBack(x)    == SendOf(x, "Echo", "reverse", -1)

\* build_one: one ring, one wait.
OneRing(p, r) ==
  CASE p = "fwd"  -> <<Doubles("X", "T0"), IF r = 0 THEN SendForward("T0") ELSE Recv("Rf", "forward"),
                       Doubles("T0", "T1"), Doubles("T1", "T2")>>
    [] p = "fwd5" -> <<Doubles("X", "T0"), IF r = 0 THEN SendForward("T0") ELSE Recv("Rf", "forward"),
                       Doubles("T0", "T1"), Doubles("T1", "T2"), Doubles("T2", "T3")>>
    [] OTHER      -> <<Doubles("X", "T0"), Doubles("T0", "T1"),
                       IF r = 0 THEN Recv("Rb", "reverse") ELSE SendBack("T1"), Doubles("T1", "T2")>>

\* Three computes with a comm dispatch in each gap.
Between(x, y) == <<Doubles("X", "T0"), x, Doubles("T0", "T1"), y, Doubles("T1", "T2")>>

\* build: a ring each way; swapped, rank 1 sends before it waits.
TwoRings(swapped, r) ==
  IF r = 0 THEN Between(SendForward("T0"), Recv("Rb", "reverse"))
  ELSE IF swapped THEN Between(SendBack("T0"), Recv("Rf", "forward"))
  ELSE Between(Recv("Rf", "forward"), SendBack("T1"))

\* build_dep: every wait names what its rank's send wrote, or the first compute.
TwoRingsDep(swapped, r) ==
  IF r = 0 THEN Between(SendForward("T0"), RecvDep("Rb", "reverse", "Echo"))
  ELSE IF swapped THEN Between(SendBack("T0"), RecvDep("Rf", "forward", "Echo"))
  ELSE Between(RecvDep("Rf", "forward", "T0"), SendBack("T1"))

\* build_samedir: both rings run from rank 0 to rank 1.
SameDirection(r) ==
  IF r = 0 THEN Between(SendForward("T0"), SendOf("T1", "Rb", "reverse", 1))
  ELSE Between(Recv("Rf", "forward"), Recv("Rb", "reverse"))

\* build_fusedcomm: a rank's send and wait are one dispatch.
FusedComm(r) ==
  <<Doubles("X", "T0"),
    IF r = 0 THEN Joined("send_then_wait", SendForward("T0"), Recv("Rb", "reverse"))
    ELSE Joined("wait_then_send", SendBack("T0"), Recv("Rf", "forward")),
    Doubles("T0", "T1")>>

\* select_program
ProbeBody(p, r) ==
  IF r > 1 THEN <<>>
  ELSE CASE p \in {"fwd", "rev", "fwd5"}          -> OneRing(p, r)
         [] p \in {"both", "sendfirst"}           -> TwoRings(p = "sendfirst", r)
         [] p \in {"bothdep", "sendfirstdep"}     -> TwoRingsDep(p = "sendfirstdep", r)
         [] p = "samedir"                         -> SameDirection(r)
         [] OTHER                                 -> FusedComm(r)

-----------------------------------------------------------------------------
(* The program table *)

Body ==
  [p \in Programs |-> [r \in Ranks |->
     CASE p = "allscan"          -> AllscanBody(r)
       [] p = "allscan_backward" -> AllscanBackwardBody(r)
       [] p = "forward"          -> ForwardBody(r)
       [] p = "backward"         -> BackwardBody(r)
       [] p = "stub_reverse"     -> StubReverseBody(r)
       [] p = "stub_forward"     -> StubForwardBody(r)
       [] OTHER                  -> ProbeBody(p, r)]]

RingsOf == [p \in Programs |-> IF p \in Collectives THEN 0..(Batch - 1) ELSE {0}]
BlocksOf == [p \in Programs |-> IF p \in Probes THEN {0} ELSE 0..(K - 1)]

\* A dispatch <<ring, rank, position>>; host_orch loops over rings, then ranks.
TasksOf ==
  [p \in Programs |-> {t \in RingsOf[p] \X Ranks \X (1..5) : t[3] <= Len(Body[p][t[2]])}]

\* What the caller stages, and the outputs it zeroes before every call.
StagedOf(p) ==
  CASE p = "allscan"          -> {"S_local"}
    [] p = "allscan_backward" -> {"g_out", "out_prev"}
    [] p \in Probes           -> {"X"}
    [] OTHER                  -> {}
OutputsOf(p) ==
  CASE p = "allscan"          -> {"S_out"}
    [] p = "allscan_backward" -> {"dS_total", "dgamma"}
    [] p = "forward"          -> {"O"}
    [] p \in Probes           -> {"Echo", "Rf", "Rb"}
    [] OTHER                  -> {"grads"}

\* Every tensor of the program.
NamesOf ==
  [p \in Programs |->
     StagedOf(p) \cup OutputsOf(p) \cup
     UNION {LET d == Body[p][t[2]][t[3]] IN d.reads \cup d.writes : t \in TasksOf[p]}]

Before(t, u) ==
  \/ t[1] < u[1]
  \/ t[1] = u[1] /\ t[2] < u[2]
  \/ t[1] = u[1] /\ t[2] = u[2] /\ t[3] < u[3]
=============================================================================
