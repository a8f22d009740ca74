------------------------ MODULE PyptoDispatchProofs ------------------------
(***************************************************************************)
(* The fused pypto programs and the ordering probes, for any number of     *)
(* ranks, blocks and rings, with and without tokens: what the windows,     *)
(* tensors and signals of PyptoDispatch hold at every moment, and that a   *)
(* call which returns returns what its inputs call for.                    *)
(*                                                                         *)
(*   The tables    the bodies of PyptoPrograms as tables: the row of a     *)
(*                 dispatch, the one sender of a window, the one writer of *)
(*                 a tensor, and the producers a reader waits for          *)
(*   Places        a dispatch is pending, in its FIFO, running or done     *)
(*   Values        what the scans, adjoints and doubled tensors satisfy    *)
(*   Steps         each action preserves Inv, DispatchInv by its parts     *)
(*   The theorems  DispatchInvariant, TypeCorrect, Delivery, Stability,    *)
(*                 Returns                                                 *)
(***************************************************************************)
EXTENDS PyptoDispatch, SequenceTheorems, TLAPS

IsDispatch(d, op, reads, writes, wait, send, hop, from, into) ==
  /\ d.op = op /\ d.reads = reads /\ d.writes = writes
  /\ d.wait = wait /\ d.send = send /\ d.hop = hop
  /\ d.from = from /\ d.into = into

IsCalc(d, op, reads, writes) == IsDispatch(d, op, reads, writes, None, None, 0, None, None)

LEMMA BodyOf ==
  ASSUME NEW p \in Programs, NEW r \in Ranks
  PROVE  /\ p = "allscan" => Body[p][r] = AllscanBody(r)
         /\ p = "allscan_backward" => Body[p][r] = AllscanBackwardBody(r)
         /\ p = "forward" => Body[p][r] = ForwardBody(r)
         /\ p = "backward" => Body[p][r] = BackwardBody(r)
         /\ p = "stub_reverse" => Body[p][r] = StubReverseBody(r)
         /\ p = "stub_forward" => Body[p][r] = StubForwardBody(r)
         /\ p \in Probes => Body[p][r] = ProbeBody(p, r)
  BY DEF Body, Probes, Programs

LEMMA CalcIs ==
  ASSUME NEW op, NEW reads, NEW writes
  PROVE  IsCalc(Plain(op, reads, writes), op, reads, writes)
  BY DEF Plain, IsCalc, IsDispatch

LEMMA SendIs ==
  ASSUME NEW op, NEW reads, NEW writes, NEW on, NEW hop
  PROVE  IsDispatch(Sending(Plain(op, reads, writes), on, hop), op, reads, writes, None, on, hop, None, None)
  BY DEF Sending, Plain, IsDispatch

LEMMA MiddleIs ==
  ASSUME NEW op, NEW reads, NEW writes, NEW on, NEW hop
  PROVE  IsDispatch(Sending(Waiting(Plain(op, reads, writes), on), on, hop),
           op, reads, writes, on, on, hop, None, None)
  BY DEF Sending, Waiting, Plain, IsDispatch

LEMMA WaitIs ==
  ASSUME NEW op, NEW reads, NEW writes, NEW on
  PROVE  IsDispatch(Waiting(Plain(op, reads, writes), on), op, reads, writes, on, None, 0, None, None)
  BY DEF Waiting, Plain, IsDispatch

LEMMA SendOfIs ==
  ASSUME NEW x, NEW echo, NEW on, NEW hop
  PROVE  IsDispatch(SendOf(x, echo, on, hop), "send", {x}, {echo}, None, on, hop, x, None)
  BY DEF SendOf, Sending, Plain, IsDispatch

LEMMA RecvIs ==
  ASSUME NEW out, NEW on
  PROVE  IsDispatch(Recv(out, on), "recv", {}, {out}, on, None, 0, None, out)
  BY DEF Recv, Waiting, Plain, IsDispatch

LEMMA RecvDepIs ==
  ASSUME NEW out, NEW on, NEW dep
  PROVE  IsDispatch(RecvDep(out, on, dep), "recv", {dep}, {out}, on, None, 0, None, out)
  BY DEF RecvDep, Recv, Waiting, Plain, IsDispatch

LEMMA JoinedIs ==
  ASSUME NEW op, NEW x, NEW echo, NEW on, NEW hop, NEW out, NEW in
  PROVE  IsDispatch(Joined(op, SendOf(x, echo, on, hop), Recv(out, in)),
           op, {x}, {echo} \cup {out}, in, on, hop, x, out)
  BY DEF Joined, SendOf, Sending, Recv, Waiting, Plain, IsDispatch

-----------------------------------------------------------------------------
(* The rank bodies as tables: dispatch d is the i-th of rank r *)

IsForward(p, r, d) ==
  LET kept == IF p \in Collectives THEN {"S_out"} ELSE {"S_recv"} IN
  \/ r = 0 /\ IsDispatch(d, "first", {"S_local"}, {"S_out"}, None, "forward", 1, None, None)
  \/ /\ r # 0 /\ r # P - 1
     /\ IsDispatch(d, "middle", {"S_local"}, kept, "forward", "forward", 1, None, None)
  \/ /\ r # 0 /\ r = P - 1
     /\ IsDispatch(d, "last", {"S_local"}, kept, "forward", None, 0, None, None)

GivenTo(p, own) == IF p \in Collectives THEN {"g_out", "out_prev"} ELSE own

IsReverse(p, r, d) ==
  \/ /\ r = P - 1
     /\ IsDispatch(d, "source", GivenTo(p, {"dS_recv"}), Adjoints, None, "reverse", -1, None, None)
  \/ /\ r # P - 1 /\ r # 0
     /\ IsDispatch(d, "bwd_middle", GivenTo(p, {"dS_recv", Boundary(p, r)}), Adjoints,
          "reverse", "reverse", -1, None, None)
  \/ /\ r # P - 1 /\ r = 0
     /\ IsDispatch(d, "terminal", GivenTo(p, {}), Adjoints, "reverse", None, 0, None, None)

LEMMA ForwardIs ==
  ASSUME NEW p \in Programs, NEW r \in Ranks
  PROVE  IsForward(p, r, ForwardRing(p, r))
<1> DEFINE kept == IF p \in Collectives THEN {"S_out"} ELSE {"S_recv"}
<1>1. r = 0 => IsForward(p, r, ForwardRing(p, r))
  BY SendIs DEF IsForward, ForwardRing, First
<1>2. r # 0 /\ r # P - 1 => IsForward(p, r, ForwardRing(p, r))
  BY MiddleIs DEF IsForward, ForwardRing, Middle
<1>3. r # 0 /\ r = P - 1 => IsForward(p, r, ForwardRing(p, r))
  BY WaitIs DEF IsForward, ForwardRing, Last
<1> QED
  BY <1>1, <1>2, <1>3

LEMMA ReverseIs ==
  ASSUME NEW p \in Programs, NEW r \in Ranks
  PROVE  IsReverse(p, r, ReverseRing(p, r))
<1>1. r = P - 1 => IsReverse(p, r, ReverseRing(p, r))
  BY SendIs DEF IsReverse, ReverseRing, Source, GivenTo, Adjoints
<1>2. r # 0 /\ r # P - 1 => IsReverse(p, r, ReverseRing(p, r))
  BY MiddleIs DEF IsReverse, ReverseRing, BwdMiddle, GivenTo, Adjoints
<1>3. r = 0 /\ r # P - 1 => IsReverse(p, r, ReverseRing(p, r))
  BY WaitIs DEF IsReverse, ReverseRing, Terminal, GivenTo, Adjoints
<1> QED
  BY <1>1, <1>2, <1>3

\* The tables of the programs proper.
StageRow(op, i, d)       == i = 1 /\ IsCalc(d, op, {}, {"snaps", "S_local"})
GradORow(p, r, d)        == IsCalc(d, "grad_o", {"snaps", Boundary(p, r)}, {"partials", "dS_recv"})
GradHRow(d, ends)        == IsCalc(d, "grad_h", {"snaps", "partials"} \cup ends, {"grads"})

Row(p, r, i, d) ==
  /\ p = "allscan" => i = 1 /\ IsForward(p, r, d)
  /\ p = "allscan_backward" => i = 1 /\ IsReverse(p, r, d)
  /\ p = "forward" =>
       \/ StageRow("stage1", i, d)
       \/ i = 2 /\ IsForward(p, r, d)
       \/ i = 3 /\ IsCalc(d, "stage2", {"snaps", Boundary(p, r)}, {"O"})
  /\ p = "backward" =>
       \/ StageRow("recompute", i, d)
       \/ i = 2 /\ IsForward(p, r, d)
       \/ i = 3 /\ GradORow(p, r, d)
       \/ i = 4 /\ IsReverse(p, r, d)
       \/ i = 5 /\ GradHRow(d, Adjoints)
  /\ p = "stub_reverse" =>
       \/ StageRow("recompute", i, d)
       \/ i = 2 /\ IsForward(p, r, d)
       \/ i = 3 /\ GradORow(p, r, d)
       \/ i = 4 /\ GradHRow(d, {"zero"})
  /\ p = "stub_forward" =>
       \/ StageRow("recompute", i, d)
       \/ i = 2 /\ GradORow(p, r, d)
       \/ i = 3 /\ IsReverse(p, r, d)
       \/ i = 4 /\ GradHRow(d, Adjoints)

LengthOf(p, r) ==
  IF p \in Collectives THEN 1
  ELSE IF p = "forward" THEN 3
  ELSE IF p = "backward" THEN 5
  ELSE IF p \in {"stub_reverse", "stub_forward"} THEN 4
  ELSE IF r > 1 THEN 0
  ELSE IF p \in {"fwd", "rev"} THEN 4
  ELSE IF p = "fusedcomm" THEN 3
  ELSE 5

LEMMA LengthIs ==
  ASSUME NEW p \in Programs, NEW r \in Ranks
  PROVE  Len(Body[p][r]) = LengthOf(p, r)
<1> USE DEF LengthOf, Collectives
<1>1. CASE p = "allscan"
  <2>1. Body[p][r] = AllscanBody(r)
    BY <1>1, BodyOf
  <2> QED
    BY <1>1, <2>1 DEF AllscanBody
<1>2. CASE p = "allscan_backward"
  <2>1. Body[p][r] = AllscanBackwardBody(r)
    BY <1>2, BodyOf
  <2> QED
    BY <1>2, <2>1 DEF AllscanBackwardBody
<1>3. CASE p = "forward"
  <2>1. Body[p][r] = ForwardBody(r)
    BY <1>3, BodyOf
  <2> QED
    BY <1>3, <2>1 DEF ForwardBody
<1>4. CASE p = "backward"
  <2>1. Body[p][r] = BackwardBody(r)
    BY <1>4, BodyOf
  <2> QED
    BY <1>4, <2>1 DEF BackwardBody
<1>5. CASE p = "stub_reverse"
  <2>1. Body[p][r] = StubReverseBody(r)
    BY <1>5, BodyOf
  <2> QED
    BY <1>5, <2>1 DEF StubReverseBody
<1>6. CASE p = "stub_forward"
  <2>1. Body[p][r] = StubForwardBody(r)
    BY <1>6, BodyOf
  <2> QED
    BY <1>6, <2>1 DEF StubForwardBody
<1>7. CASE p \in Probes
  <2>1. Body[p][r] = ProbeBody(p, r)
    BY <1>7, BodyOf
  <2>2. CASE r > 1
    BY <1>7, <2>1, <2>2 DEF ProbeBody, Probes
  <2>3. CASE ~(r > 1)
    <3>1. CASE p \in {"fwd", "rev", "fwd5"}
      BY <2>1, <2>3, <3>1 DEF ProbeBody, OneRing
    <3>2. CASE p \in {"both", "sendfirst"}
      BY <2>1, <2>3, <3>2 DEF ProbeBody, TwoRings, Between
    <3>3. CASE p \in {"bothdep", "sendfirstdep"}
      BY <2>1, <2>3, <3>3 DEF ProbeBody, TwoRingsDep, Between
    <3>4. CASE p = "samedir"
      BY <2>1, <2>3, <3>4 DEF ProbeBody, SameDirection, Between
    <3>5. CASE p = "fusedcomm"
      BY <2>1, <2>3, <3>5 DEF ProbeBody, FusedComm
    <3> QED
      BY <1>7, <3>1, <3>2, <3>3, <3>4, <3>5 DEF Probes
  <2> QED
    BY <2>2, <2>3
<1> QED
  BY <1>1, <1>2, <1>3, <1>4, <1>5, <1>6, <1>7 DEF Programs

LEMMA RowIs ==
  ASSUME NEW p \in Programs \ Probes, NEW r \in Ranks, NEW i \in 1..5, i <= LengthOf(p, r)
  PROVE  Row(p, r, i, Body[p][r][i])
<1> DEFINE d == Body[p][r][i]
<1>a. /\ IsForward(p, r, ForwardRing(p, r))
      /\ IsReverse(p, r, ReverseRing(p, r))
  BY ForwardIs, ReverseIs
<1>b. /\ IsCalc(Stage1, "stage1", {}, {"snaps", "S_local"})
      /\ IsCalc(Recompute, "recompute", {}, {"snaps", "S_local"})
      /\ IsCalc(Stage2(p, r), "stage2", {"snaps", Boundary(p, r)}, {"O"})
      /\ GradORow(p, r, GradO(p, r))
      /\ GradHRow(GradH(Adjoints), Adjoints)
      /\ GradHRow(GradH({"zero"}), {"zero"})
  BY CalcIs DEF Stage1, Stage2, Recompute, GradO, GradH, GradORow, GradHRow
<1>1. CASE p = "allscan"
  <2>1. Body[p][r] = <<ForwardRing(p, r)>> /\ i = 1
    BY <1>1, BodyOf DEF AllscanBody, LengthOf, Collectives
  <2> QED
    BY <1>1, <1>a, <2>1 DEF Row
<1>2. CASE p = "allscan_backward"
  <2>1. Body[p][r] = <<ReverseRing(p, r)>> /\ i = 1
    BY <1>2, BodyOf DEF AllscanBackwardBody, LengthOf, Collectives
  <2> QED
    BY <1>2, <1>a, <2>1 DEF Row
<1>3. CASE p = "forward"
  <2>1. /\ Body[p][r] = <<Stage1, ForwardRing(p, r), Stage2(p, r)>>
        /\ i \in 1..3
    BY <1>3, BodyOf DEF ForwardBody, LengthOf, Collectives
  <2> QED
    BY <1>3, <1>a, <1>b, <2>1 DEF Row, StageRow
<1>4. CASE p = "backward"
  <2>1. /\ Body[p][r] = <<Recompute, ForwardRing(p, r), GradO(p, r), ReverseRing(p, r), GradH(Adjoints)>>
        /\ i \in 1..5
    BY <1>4, BodyOf DEF BackwardBody, LengthOf, Collectives
  <2> QED
    BY <1>4, <1>a, <1>b, <2>1 DEF Row, StageRow
<1>5. CASE p = "stub_reverse"
  <2>1. /\ Body[p][r] = <<Recompute, ForwardRing(p, r), GradO(p, r), GradH({"zero"})>>
        /\ i \in 1..4
    BY <1>5, BodyOf DEF StubReverseBody, LengthOf, Collectives
  <2> QED
    BY <1>5, <1>a, <1>b, <2>1 DEF Row, StageRow
<1>6. CASE p = "stub_forward"
  <2>1. /\ Body[p][r] = <<Recompute, GradO(p, r), ReverseRing(p, r), GradH(Adjoints)>>
        /\ i \in 1..4
    BY <1>6, BodyOf DEF StubForwardBody, LengthOf, Collectives
  <2> QED
    BY <1>6, <1>a, <1>b, <2>1 DEF Row, StageRow
<1> QED
  BY <1>1, <1>2, <1>3, <1>4, <1>5, <1>6 DEF Programs, Probes

\* The tables of the probes, by what is sent: from which rank, at which place
\* of its body, which tensor, and where the other rank keeps it.
SendRank(p, on) == IF on = "forward" \/ p = "samedir" THEN 0 ELSE 1
HopOf(p, on)    == IF on = "forward" \/ p = "samedir" THEN 1 ELSE -1
SendPos(p, on)  ==
  IF on = "forward" THEN 2
  ELSE IF p = "rev" THEN 3
  ELSE IF p \in {"sendfirst", "sendfirstdep", "fusedcomm"} THEN 2 ELSE 4
SentName(p, on) ==
  IF on = "forward" \/ p \in {"sendfirst", "sendfirstdep", "fusedcomm"} THEN "T0" ELSE "T1"
EchoOf(p, on)   == IF on = "reverse" /\ p = "samedir" THEN "Rb" ELSE "Echo"
Into(on)        == IF on = "forward" THEN "Rf" ELSE "Rb"
KeepPos(p, on)  ==
  IF p = "fusedcomm" THEN 2
  ELSE IF on = "forward" THEN IF p \in {"sendfirst", "sendfirstdep"} THEN 4 ELSE 2
  ELSE IF p = "rev" THEN 3 ELSE 4
T1Pos(p)        == IF p = "rev" THEN 2 ELSE 3

IsSend(p, r, i, d, on) ==
  /\ r = SendRank(p, on) /\ i = SendPos(p, on) /\ p # "fusedcomm" /\ (p = "rev" => on = "reverse")
  /\ IsDispatch(d, "send", {SentName(p, on)}, {EchoOf(p, on)}, None, on, HopOf(p, on),
       SentName(p, on), None)
IsRecv(p, r, i, d, on) ==
  /\ r = SendRank(p, on) + HopOf(p, on) /\ i = KeepPos(p, on) /\ p # "fusedcomm" /\ (p = "rev" => on = "reverse")
  /\ d.reads \subseteq {"T0", "Echo"}
  /\ IsDispatch(d, "recv", d.reads, {Into(on)}, on, None, 0, None, Into(on))
IsJoined(p, r, i, d, op, on, back) ==
  /\ r = SendRank(p, on) /\ i = 2 /\ p = "fusedcomm"
  /\ IsDispatch(d, op, {"T0"}, {"Echo"} \cup {Into(back)}, back, on, HopOf(p, on), "T0", Into(back))

ProbeRow(p, r, i, d) ==
  \/ i = 1 /\ IsCalc(d, "compute", {"X"}, {"T0"})
  \/ i = T1Pos(p) /\ IsCalc(d, "compute", {"T0"}, {"T1"})
  \/ i > T1Pos(p) /\ IsCalc(d, "compute", {"T1"}, {"T2"})
  \/ i > T1Pos(p) /\ IsCalc(d, "compute", {"T2"}, {"T3"})
  \/ IsSend(p, r, i, d, "forward")
  \/ IsSend(p, r, i, d, "reverse")
  \/ IsRecv(p, r, i, d, "forward")
  \/ IsRecv(p, r, i, d, "reverse")
  \/ IsJoined(p, r, i, d, "send_then_wait", "forward", "reverse")
  \/ IsJoined(p, r, i, d, "wait_then_send", "reverse", "forward")

LEMMA DoublesIs ==
  ASSUME NEW x, NEW y
  PROVE  IsCalc(Doubles(x, y), "compute", {x}, {y})
  BY CalcIs DEF Doubles

LEMMA ProbeRowIs ==
  ASSUME NEW p \in Probes, NEW r \in Ranks, NEW i \in 1..5, i <= LengthOf(p, r)
  PROVE  /\ r \in {0, 1}
         /\ ProbeRow(p, r, i, Body[p][r][i])
<1> DEFINE d == Body[p][r][i]
<1> USE DEF SendRank, HopOf, SendPos, SentName, EchoOf, Into, KeepPos, T1Pos
<1>1. Body[p][r] = ProbeBody(p, r) /\ p \in Programs
  BY BodyOf DEF Programs
<1>2. r \in {0, 1}
  BY DEF LengthOf, Probes, Collectives, Ranks
<1>3. /\ IsCalc(Doubles("X", "T0"), "compute", {"X"}, {"T0"})
      /\ IsCalc(Doubles("T0", "T1"), "compute", {"T0"}, {"T1"})
      /\ IsCalc(Doubles("T1", "T2"), "compute", {"T1"}, {"T2"})
      /\ IsCalc(Doubles("T2", "T3"), "compute", {"T2"}, {"T3"})
  BY DoublesIs
<1>4. /\ IsDispatch(SendForward("T0"), "send", {"T0"}, {"Echo"}, None, "forward", 1, "T0", None)
      /\ IsDispatch(SendBack("T0"), "send", {"T0"}, {"Echo"}, None, "reverse", -1, "T0", None)
      /\ IsDispatch(SendBack("T1"), "send", {"T1"}, {"Echo"}, None, "reverse", -1, "T1", None)
      /\ IsDispatch(SendOf("T1", "Rb", "reverse", 1), "send", {"T1"}, {"Rb"}, None, "reverse", 1, "T1", None)
  BY SendOfIs DEF SendForward, SendBack
<1>5. /\ IsDispatch(Recv("Rf", "forward"), "recv", {}, {"Rf"}, "forward", None, 0, None, "Rf")
      /\ IsDispatch(Recv("Rb", "reverse"), "recv", {}, {"Rb"}, "reverse", None, 0, None, "Rb")
      /\ IsDispatch(RecvDep("Rb", "reverse", "Echo"), "recv", {"Echo"}, {"Rb"}, "reverse", None, 0, None, "Rb")
      /\ IsDispatch(RecvDep("Rf", "forward", "Echo"), "recv", {"Echo"}, {"Rf"}, "forward", None, 0, None, "Rf")
      /\ IsDispatch(RecvDep("Rf", "forward", "T0"), "recv", {"T0"}, {"Rf"}, "forward", None, 0, None, "Rf")
  BY RecvIs, RecvDepIs
<1>6. /\ IsDispatch(Joined("send_then_wait", SendForward("T0"), Recv("Rb", "reverse")),
           "send_then_wait", {"T0"}, {"Echo"} \cup {"Rb"}, "reverse", "forward", 1, "T0", "Rb")
      /\ IsDispatch(Joined("wait_then_send", SendBack("T0"), Recv("Rf", "forward")),
           "wait_then_send", {"T0"}, {"Echo"} \cup {"Rf"}, "forward", "reverse", -1, "T0", "Rf")
  BY JoinedIs DEF SendForward, SendBack
<1>7. CASE p \in {"fwd", "fwd5"}
  <2>1. CASE r = 0
    <3>1. \/ i = 1 /\ d = Doubles("X", "T0")
          \/ i = 2 /\ d = SendForward("T0")
          \/ i = 3 /\ d = Doubles("T0", "T1")
          \/ i = 4 /\ d = Doubles("T1", "T2")
          \/ i = 5 /\ d = Doubles("T2", "T3")
      BY <1>1, <1>7, <2>1 DEF ProbeBody, OneRing, LengthOf, Probes, Collectives
    <3> QED
      BY <1>3, <1>4, <1>5, <1>6, <1>7, <2>1, <3>1 DEF ProbeRow, IsSend, IsRecv, IsJoined, IsDispatch
  <2>2. CASE r = 1
    <3>1. \/ i = 1 /\ d = Doubles("X", "T0")
          \/ i = 2 /\ d = Recv("Rf", "forward")
          \/ i = 3 /\ d = Doubles("T0", "T1")
          \/ i = 4 /\ d = Doubles("T1", "T2")
          \/ i = 5 /\ d = Doubles("T2", "T3")
      BY <1>1, <1>7, <2>2 DEF ProbeBody, OneRing, LengthOf, Probes, Collectives
    <3> QED
      BY <1>3, <1>4, <1>5, <1>6, <1>7, <2>2, <3>1 DEF ProbeRow, IsSend, IsRecv, IsJoined, IsDispatch
  <2> QED
    BY <1>2, <2>1, <2>2
<1>8. CASE p = "rev"
  <2>1. CASE r = 0
    <3>1. \/ i = 1 /\ d = Doubles("X", "T0")
          \/ i = 2 /\ d = Doubles("T0", "T1")
          \/ i = 3 /\ d = Recv("Rb", "reverse")
          \/ i = 4 /\ d = Doubles("T1", "T2")
      BY <1>1, <1>8, <2>1 DEF ProbeBody, OneRing, LengthOf, Probes, Collectives
    <3> QED
      BY <1>3, <1>4, <1>5, <1>6, <1>8, <2>1, <3>1 DEF ProbeRow, IsSend, IsRecv, IsJoined, IsDispatch
  <2>2. CASE r = 1
    <3>1. \/ i = 1 /\ d = Doubles("X", "T0")
          \/ i = 2 /\ d = Doubles("T0", "T1")
          \/ i = 3 /\ d = SendBack("T1")
          \/ i = 4 /\ d = Doubles("T1", "T2")
      BY <1>1, <1>8, <2>2 DEF ProbeBody, OneRing, LengthOf, Probes, Collectives
    <3> QED
      BY <1>3, <1>4, <1>5, <1>6, <1>8, <2>2, <3>1 DEF ProbeRow, IsSend, IsRecv, IsJoined, IsDispatch
  <2> QED
    BY <1>2, <2>1, <2>2
<1>9. CASE p = "both"
  <2>1. CASE r = 0
    <3>1. \/ i = 1 /\ d = Doubles("X", "T0")
          \/ i = 2 /\ d = SendForward("T0")
          \/ i = 3 /\ d = Doubles("T0", "T1")
          \/ i = 4 /\ d = Recv("Rb", "reverse")
          \/ i = 5 /\ d = Doubles("T1", "T2")
      BY <1>1, <1>9, <2>1 DEF ProbeBody, TwoRings, Between, LengthOf, Probes, Collectives
    <3> QED
      BY <1>3, <1>4, <1>5, <1>6, <1>9, <2>1, <3>1 DEF ProbeRow, IsSend, IsRecv, IsJoined, IsDispatch
  <2>2. CASE r = 1
    <3>1. \/ i = 1 /\ d = Doubles("X", "T0")
          \/ i = 2 /\ d = Recv("Rf", "forward")
          \/ i = 3 /\ d = Doubles("T0", "T1")
          \/ i = 4 /\ d = SendBack("T1")
          \/ i = 5 /\ d = Doubles("T1", "T2")
      BY <1>1, <1>9, <2>2 DEF ProbeBody, TwoRings, Between, LengthOf, Probes, Collectives
    <3> QED
      BY <1>3, <1>4, <1>5, <1>6, <1>9, <2>2, <3>1 DEF ProbeRow, IsSend, IsRecv, IsJoined, IsDispatch
  <2> QED
    BY <1>2, <2>1, <2>2
<1>10. CASE p = "sendfirst"
  <2>1. CASE r = 0
    <3>1. \/ i = 1 /\ d = Doubles("X", "T0")
          \/ i = 2 /\ d = SendForward("T0")
          \/ i = 3 /\ d = Doubles("T0", "T1")
          \/ i = 4 /\ d = Recv("Rb", "reverse")
          \/ i = 5 /\ d = Doubles("T1", "T2")
      BY <1>1, <1>10, <2>1 DEF ProbeBody, TwoRings, Between, LengthOf, Probes, Collectives
    <3> QED
      BY <1>3, <1>4, <1>5, <1>6, <1>10, <2>1, <3>1 DEF ProbeRow, IsSend, IsRecv, IsJoined, IsDispatch
  <2>2. CASE r = 1
    <3>1. \/ i = 1 /\ d = Doubles("X", "T0")
          \/ i = 2 /\ d = SendBack("T0")
          \/ i = 3 /\ d = Doubles("T0", "T1")
          \/ i = 4 /\ d = Recv("Rf", "forward")
          \/ i = 5 /\ d = Doubles("T1", "T2")
      BY <1>1, <1>10, <2>2 DEF ProbeBody, TwoRings, Between, LengthOf, Probes, Collectives
    <3> QED
      BY <1>3, <1>4, <1>5, <1>6, <1>10, <2>2, <3>1 DEF ProbeRow, IsSend, IsRecv, IsJoined, IsDispatch
  <2> QED
    BY <1>2, <2>1, <2>2
<1>11. CASE p = "bothdep"
  <2>1. CASE r = 0
    <3>1. \/ i = 1 /\ d = Doubles("X", "T0")
          \/ i = 2 /\ d = SendForward("T0")
          \/ i = 3 /\ d = Doubles("T0", "T1")
          \/ i = 4 /\ d = RecvDep("Rb", "reverse", "Echo")
          \/ i = 5 /\ d = Doubles("T1", "T2")
      BY <1>1, <1>11, <2>1 DEF ProbeBody, TwoRingsDep, Between, LengthOf, Probes, Collectives
    <3> QED
      BY <1>3, <1>4, <1>5, <1>6, <1>11, <2>1, <3>1 DEF ProbeRow, IsSend, IsRecv, IsJoined, IsDispatch
  <2>2. CASE r = 1
    <3>1. \/ i = 1 /\ d = Doubles("X", "T0")
          \/ i = 2 /\ d = RecvDep("Rf", "forward", "T0")
          \/ i = 3 /\ d = Doubles("T0", "T1")
          \/ i = 4 /\ d = SendBack("T1")
          \/ i = 5 /\ d = Doubles("T1", "T2")
      BY <1>1, <1>11, <2>2 DEF ProbeBody, TwoRingsDep, Between, LengthOf, Probes, Collectives
    <3> QED
      BY <1>3, <1>4, <1>5, <1>6, <1>11, <2>2, <3>1 DEF ProbeRow, IsSend, IsRecv, IsJoined, IsDispatch
  <2> QED
    BY <1>2, <2>1, <2>2
<1>12. CASE p = "sendfirstdep"
  <2>1. CASE r = 0
    <3>1. \/ i = 1 /\ d = Doubles("X", "T0")
          \/ i = 2 /\ d = SendForward("T0")
          \/ i = 3 /\ d = Doubles("T0", "T1")
          \/ i = 4 /\ d = RecvDep("Rb", "reverse", "Echo")
          \/ i = 5 /\ d = Doubles("T1", "T2")
      BY <1>1, <1>12, <2>1 DEF ProbeBody, TwoRingsDep, Between, LengthOf, Probes, Collectives
    <3> QED
      BY <1>3, <1>4, <1>5, <1>6, <1>12, <2>1, <3>1 DEF ProbeRow, IsSend, IsRecv, IsJoined, IsDispatch
  <2>2. CASE r = 1
    <3>1. \/ i = 1 /\ d = Doubles("X", "T0")
          \/ i = 2 /\ d = SendBack("T0")
          \/ i = 3 /\ d = Doubles("T0", "T1")
          \/ i = 4 /\ d = RecvDep("Rf", "forward", "Echo")
          \/ i = 5 /\ d = Doubles("T1", "T2")
      BY <1>1, <1>12, <2>2 DEF ProbeBody, TwoRingsDep, Between, LengthOf, Probes, Collectives
    <3> QED
      BY <1>3, <1>4, <1>5, <1>6, <1>12, <2>2, <3>1 DEF ProbeRow, IsSend, IsRecv, IsJoined, IsDispatch
  <2> QED
    BY <1>2, <2>1, <2>2
<1>13. CASE p = "samedir"
  <2>1. CASE r = 0
    <3>1. \/ i = 1 /\ d = Doubles("X", "T0")
          \/ i = 2 /\ d = SendForward("T0")
          \/ i = 3 /\ d = Doubles("T0", "T1")
          \/ i = 4 /\ d = SendOf("T1", "Rb", "reverse", 1)
          \/ i = 5 /\ d = Doubles("T1", "T2")
      BY <1>1, <1>13, <2>1 DEF ProbeBody, SameDirection, Between, LengthOf, Probes, Collectives
    <3> QED
      BY <1>3, <1>4, <1>5, <1>6, <1>13, <2>1, <3>1 DEF ProbeRow, IsSend, IsRecv, IsJoined, IsDispatch
  <2>2. CASE r = 1
    <3>1. \/ i = 1 /\ d = Doubles("X", "T0")
          \/ i = 2 /\ d = Recv("Rf", "forward")
          \/ i = 3 /\ d = Doubles("T0", "T1")
          \/ i = 4 /\ d = Recv("Rb", "reverse")
          \/ i = 5 /\ d = Doubles("T1", "T2")
      BY <1>1, <1>13, <2>2 DEF ProbeBody, SameDirection, Between, LengthOf, Probes, Collectives
    <3> QED
      BY <1>3, <1>4, <1>5, <1>6, <1>13, <2>2, <3>1 DEF ProbeRow, IsSend, IsRecv, IsJoined, IsDispatch
  <2> QED
    BY <1>2, <2>1, <2>2
<1>14. CASE p = "fusedcomm"
  <2>1. CASE r = 0
    <3>1. \/ i = 1 /\ d = Doubles("X", "T0")
          \/ i = 2 /\ d = Joined("send_then_wait", SendForward("T0"), Recv("Rb", "reverse"))
          \/ i = 3 /\ d = Doubles("T0", "T1")
      BY <1>1, <1>14, <2>1 DEF ProbeBody, FusedComm, LengthOf, Probes, Collectives
    <3> QED
      BY <1>3, <1>4, <1>5, <1>6, <1>14, <2>1, <3>1 DEF ProbeRow, IsSend, IsRecv, IsJoined, IsDispatch
  <2>2. CASE r = 1
    <3>1. \/ i = 1 /\ d = Doubles("X", "T0")
          \/ i = 2 /\ d = Joined("wait_then_send", SendBack("T0"), Recv("Rf", "forward"))
          \/ i = 3 /\ d = Doubles("T0", "T1")
      BY <1>1, <1>14, <2>2 DEF ProbeBody, FusedComm, LengthOf, Probes, Collectives
    <3> QED
      BY <1>3, <1>4, <1>5, <1>6, <1>14, <2>2, <3>1 DEF ProbeRow, IsSend, IsRecv, IsJoined, IsDispatch
  <2> QED
    BY <1>2, <2>1, <2>2
<1> QED
  BY <1>2, <1>7, <1>8, <1>9, <1>10, <1>11, <1>12, <1>13, <1>14 DEF Probes

-----------------------------------------------------------------------------
(* What the tables say of every dispatch *)

LEMMA TaskTyped ==
  ASSUME NEW p \in Programs, NEW t \in TasksOf[p]
  PROVE  /\ t[1] \in RingsOf[p] /\ t[2] \in Ranks /\ t[3] \in 1..5
         /\ t[3] <= LengthOf(p, t[2])
         /\ t = <<t[1], t[2], t[3]>>
         /\ t # Nobody
<1>1. t \in {u \in RingsOf[p] \X Ranks \X (1..5) : u[3] <= Len(Body[p][u[2]])}
  BY DEF TasksOf
<1>2. t \in RingsOf[p] \X Ranks \X (1..5) /\ t[3] <= Len(Body[p][t[2]])
  BY <1>1
<1>3. PICK a \in RingsOf[p], b \in Ranks, c \in 1..5 : t = <<a, b, c>>
  BY <1>2
<1>4. t[3] <= LengthOf(p, t[2])
  BY <1>2, <1>3, LengthIs
<1>5. t # <<>>
  BY <1>3
<1> QED
  BY <1>3, <1>4, <1>5 DEF Nobody

LEMMA IsTask ==
  ASSUME NEW p \in Programs, NEW b \in RingsOf[p], NEW r \in Ranks, NEW i \in 1..5, i <= LengthOf(p, r)
  PROVE  <<b, r, i>> \in TasksOf[p]
<1>1. Len(Body[p][r]) = LengthOf(p, r)
  BY LengthIs
<1>2. <<b, r, i>> \in {u \in RingsOf[p] \X Ranks \X (1..5) : u[3] <= Len(Body[p][u[2]])}
  BY <1>1
<1> QED
  BY <1>2 DEF TasksOf

LEMMA TaskRow ==
  ASSUME NEW p \in Programs, NEW t \in TasksOf[p]
  PROVE  /\ p \notin Probes => Row(p, t[2], t[3], In(p, t))
         /\ p \in Probes => t[2] \in {0, 1} /\ ProbeRow(p, t[2], t[3], In(p, t))
  BY TaskTyped, RowIs, ProbeRowIs DEF In

\* A window pair has a name, and the neighbour it reaches is a rank.
LEMMA Channels ==
  ASSUME NEW p \in Programs, NEW t \in TasksOf[p]
  PROVE  LET d == In(p, t) IN
         /\ d.wait \in {None, "forward", "reverse"}
         /\ d.send \in {None, "forward", "reverse"}
         /\ d.hop \in Int
         /\ d.send # None => t[2] + d.hop \in Ranks
<1> DEFINE d == In(p, t)
           Good == /\ d.wait \in {None, "forward", "reverse"}
                   /\ d.send \in {None, "forward", "reverse"}
                   /\ d.hop \in Int
                   /\ d.send # None => t[2] + d.hop \in Ranks
<1>1. t[2] \in Ranks /\ t[2] \in Int /\ P \in Int /\ P >= 2
  BY TaskTyped, ProgramAssumption DEF Ranks
<1>2. ASSUME NEW op, NEW reads, NEW writes, IsCalc(d, op, reads, writes) PROVE Good
  BY <1>2 DEF IsCalc, IsDispatch, None
<1>3. IsForward(p, t[2], d) => Good
  BY <1>1 DEF IsForward, IsDispatch, None, Ranks
<1>4. IsReverse(p, t[2], d) => Good
  BY <1>1 DEF IsReverse, IsDispatch, None, Ranks
<1>5. CASE p \notin Probes
  BY <1>2, <1>3, <1>4, <1>5, TaskRow DEF Row, StageRow, GradORow, GradHRow, Programs
<1>6. CASE p \in Probes
  <2>1. ProbeRow(p, t[2], t[3], d)
    BY <1>6, TaskRow
  <2>2. \A on \in {"forward", "reverse"} : IsSend(p, t[2], t[3], d, on) => Good
    BY <1>1 DEF IsSend, IsDispatch, SendRank, HopOf, None, Ranks
  <2>3. \A on \in {"forward", "reverse"} : IsRecv(p, t[2], t[3], d, on) => Good
    BY <1>1 DEF IsRecv, IsDispatch, None, Ranks
  <2>4. IsJoined(p, t[2], t[3], d, "send_then_wait", "forward", "reverse") => Good
    BY <1>1 DEF IsJoined, IsDispatch, SendRank, HopOf, None, Ranks
  <2>5. IsJoined(p, t[2], t[3], d, "wait_then_send", "reverse", "forward") => Good
    BY <1>1 DEF IsJoined, IsDispatch, SendRank, HopOf, None, Ranks
  <2>6. Good
    <3> HIDE DEF Good, d
    <3> QED
      BY <1>2, <2>1, <2>2, <2>3, <2>4, <2>5 DEF ProbeRow
  <2> QED
    BY <2>6
<1> QED
  BY <1>5, <1>6

\* A window pair of a ring has one sender per receiving rank.
SendAt(p, on) ==
  IF p \in Probes THEN SendPos(p, on)
  ELSE IF p \in Collectives THEN 1
  ELSE IF on = "forward" THEN 2
  ELSE IF p = "backward" THEN 4 ELSE 3

LEMMA SenderAt ==
  ASSUME NEW p \in Programs, NEW t \in TasksOf[p], Sends(In(p, t))
  PROVE  t[3] = SendAt(p, In(p, t).send) /\ In(p, t).hop = HopOf(p, In(p, t).send)
<1> DEFINE d == In(p, t)
           Good == t[3] = SendAt(p, d.send) /\ d.hop = HopOf(p, d.send)
<1>1. d.send # None
  BY DEF Sends
<1>2. ASSUME NEW op, NEW reads, NEW writes PROVE ~IsCalc(d, op, reads, writes)
  BY <1>1 DEF IsCalc, IsDispatch
<1>3. CASE p \notin Probes
  <2>1. IsForward(p, t[2], d) => d.send = "forward" /\ d.hop = HopOf(p, "forward")
    BY <1>1 DEF IsForward, IsDispatch, HopOf
  <2>2. IsReverse(p, t[2], d) => d.send = "reverse" /\ d.hop = HopOf(p, "reverse")
    BY <1>1, <1>3 DEF IsReverse, IsDispatch, HopOf, Probes
  <2> QED
    BY <1>2, <1>3, <2>1, <2>2, TaskRow
    DEF Row, StageRow, GradORow, GradHRow, Programs, SendAt, Collectives
<1>4. CASE p \in Probes
  <2>1. ProbeRow(p, t[2], t[3], d)
    BY <1>4, TaskRow
  <2>2. IsSend(p, t[2], t[3], d, "forward") => Good
    BY <1>4 DEF IsSend, IsDispatch, SendAt
  <2>3. IsSend(p, t[2], t[3], d, "reverse") => Good
    BY <1>4 DEF IsSend, IsDispatch, SendAt
  <2>4. ~IsRecv(p, t[2], t[3], d, "forward") /\ ~IsRecv(p, t[2], t[3], d, "reverse")
    BY <1>1 DEF IsRecv, IsDispatch
  <2>5. IsJoined(p, t[2], t[3], d, "send_then_wait", "forward", "reverse") => Good
    BY <1>4 DEF IsJoined, IsDispatch, SendAt, SendPos
  <2>6. IsJoined(p, t[2], t[3], d, "wait_then_send", "reverse", "forward") => Good
    BY <1>4 DEF IsJoined, IsDispatch, SendAt, SendPos
  <2>7. Good
    <3> HIDE DEF Good, d
    <3> QED
      BY <1>2, <2>1, <2>2, <2>3, <2>4, <2>5, <2>6 DEF ProbeRow
  <2> QED
    BY <2>7
<1> QED
  BY <1>3, <1>4

LEMMA UniqueSender ==
  ASSUME NEW p \in Programs, NEW t \in TasksOf[p], NEW u \in TasksOf[p], NEW k, NEW j,
         Sends(In(p, t)), Sends(In(p, u)), SentTo(p, t, k) = SentTo(p, u, j)
  PROVE  t = u /\ k = j
<1>1. /\ In(p, t).send = In(p, u).send /\ t[1] = u[1] /\ k = j
      /\ t[2] + In(p, t).hop = u[2] + In(p, u).hop
  BY DEF SentTo
<1>2. t[3] = u[3] /\ In(p, t).hop = In(p, u).hop
  BY <1>1, SenderAt
<1>3. t[2] \in Int /\ u[2] \in Int /\ In(p, t).hop \in Int
  BY TaskTyped, Channels DEF Ranks
<1>4. t[2] = u[2]
  <2>1. PICK a \in Int, b \in Int, h \in Int : a = t[2] /\ b = u[2] /\ h = In(p, t).hop
    BY <1>3
  <2>2. a + h = b + h
    BY <1>1, <1>2, <2>1
  <2> QED
    BY <2>1, <2>2
<1> QED
  BY <1>1, <1>2, <1>4, TaskTyped

\* A tensor of a rank that is read again has one writer, which writes nothing
\* the host provides.
WriteAt(p, n) ==
  IF n \in {"snaps", "S_local", "T0"} THEN 1
  ELSE IF n = "T1" THEN T1Pos(p)
  ELSE IF n = "Rf" THEN KeepPos(p, "forward")
  ELSE IF n = "Rb" THEN KeepPos(p, "reverse")
  ELSE IF n \in {"S_out", "S_recv"} THEN SendAt(p, "forward")
  ELSE IF n = "O" THEN 3
  ELSE IF n \in {"partials", "dS_recv"} THEN IF p = "stub_forward" THEN 2 ELSE 3
  ELSE IF n \in Adjoints THEN SendAt(p, "reverse")
  ELSE IF p = "backward" THEN 5 ELSE 4

LEMMA WriterAt ==
  ASSUME NEW p \in Programs, NEW t \in TasksOf[p], NEW n \in In(p, t).writes, Tracked(n)
  PROVE  t[3] = WriteAt(p, n) /\ n \notin StagedOf(p) \cup {"zero", "out_prev"}
<1> DEFINE d == In(p, t)
           i == t[3]
           Good == i = WriteAt(p, n) /\ n \notin StagedOf(p) \cup {"zero", "out_prev"}
<1>1. n \in d.writes
  OBVIOUS
<1>2. ASSUME NEW op, NEW reads, NEW x, n \notin {x}, IsCalc(d, op, reads, {x}) PROVE FALSE
  BY <1>2 DEF IsCalc, IsDispatch
<1>3. CASE p \notin Probes
  <2>1. p \notin Collectives /\ StageRow("recompute", i, d) => Good
    BY <1>3 DEF StageRow, IsCalc, IsDispatch, WriteAt, StagedOf, Probes, Collectives
  <2>2. p \notin Collectives /\ StageRow("stage1", i, d) => Good
    BY <1>3 DEF StageRow, IsCalc, IsDispatch, WriteAt, StagedOf, Probes, Collectives
  <2>3. i = SendAt(p, "forward") /\ p # "allscan_backward" /\ IsForward(p, t[2], d) => Good
    BY <1>3 DEF IsForward, IsDispatch, WriteAt, StagedOf, Collectives, Adjoints
  <2>4. i = SendAt(p, "reverse") /\ p # "allscan" /\ IsReverse(p, t[2], d) => Good
    BY <1>3 DEF IsReverse, IsDispatch, WriteAt, StagedOf, Collectives, Adjoints
  <2>5. p \notin Collectives /\ GradORow(p, t[2], d) /\ i = WriteAt(p, "partials") => Good
    BY <1>3 DEF GradORow, IsCalc, IsDispatch, WriteAt, StagedOf, Collectives
  <2>6. p \notin Collectives /\ i = WriteAt(p, "grads")
          /\ (GradHRow(d, Adjoints) \/ GradHRow(d, {"zero"})) => Good
    BY <1>3 DEF GradHRow, IsCalc, IsDispatch, WriteAt, StagedOf, Collectives
  <2>7. p \notin Collectives /\ i = 3 /\ IsCalc(d, "stage2", {"snaps", Boundary(p, t[2])}, {"O"}) => Good
    BY <1>3 DEF IsCalc, IsDispatch, WriteAt, StagedOf, Collectives
  <2>8. Row(p, t[2], i, d) /\ p \in Programs \ Probes
    BY <1>3, TaskRow
  <2>9. Good
    <3> HIDE DEF Good, d, i
    <3>1. CASE p = "allscan"
      BY <2>3, <2>8, <3>1 DEF Row, SendAt, Collectives, Probes
    <3>2. CASE p = "allscan_backward"
      BY <2>4, <2>8, <3>2 DEF Row, SendAt, Collectives, Probes
    <3>3. CASE p = "forward"
      BY <2>2, <2>3, <2>7, <2>8, <3>3 DEF Row, SendAt, Collectives, Probes
    <3>4. CASE p = "backward"
      BY <2>1, <2>3, <2>4, <2>5, <2>6, <2>8, <3>4 DEF Row, SendAt, Collectives, Probes, WriteAt, Adjoints
    <3>5. CASE p = "stub_reverse"
      BY <2>1, <2>3, <2>5, <2>6, <2>8, <3>5 DEF Row, SendAt, Collectives, Probes, WriteAt, Adjoints
    <3>6. CASE p = "stub_forward"
      BY <2>1, <2>4, <2>5, <2>6, <2>8, <3>6 DEF Row, SendAt, Collectives, Probes, WriteAt, Adjoints
    <3> QED
      BY <2>8, <3>1, <3>2, <3>3, <3>4, <3>5, <3>6 DEF Programs
  <2> QED
    BY <2>9
<1>4. CASE p \in Probes
  <2>1. ProbeRow(p, t[2], i, d)
    BY <1>4, TaskRow
  <2>2. i = 1 /\ IsCalc(d, "compute", {"X"}, {"T0"}) => Good
    BY <1>4 DEF IsCalc, IsDispatch, WriteAt, StagedOf, Probes
  <2>3. i = T1Pos(p) /\ IsCalc(d, "compute", {"T0"}, {"T1"}) => Good
    BY <1>4 DEF IsCalc, IsDispatch, WriteAt, StagedOf, Probes
  <2>4. ~IsCalc(d, "compute", {"T1"}, {"T2"}) /\ ~IsCalc(d, "compute", {"T2"}, {"T3"})
    BY <1>2 DEF Tracked
  <2>5. IsSend(p, t[2], i, d, "forward") \/ IsSend(p, t[2], i, d, "reverse") => Good
    BY <1>4 DEF IsSend, IsDispatch, WriteAt, StagedOf, Probes, EchoOf, SendPos, KeepPos, Tracked
  <2>6. IsRecv(p, t[2], i, d, "forward") \/ IsRecv(p, t[2], i, d, "reverse") => Good
    BY <1>4 DEF IsRecv, IsDispatch, WriteAt, StagedOf, Probes, Into
  <2>7. IsJoined(p, t[2], i, d, "send_then_wait", "forward", "reverse") => Good
    BY <1>4 DEF IsJoined, IsDispatch, WriteAt, StagedOf, Probes, Into, KeepPos, Tracked
  <2>8. IsJoined(p, t[2], i, d, "wait_then_send", "reverse", "forward") => Good
    BY <1>4 DEF IsJoined, IsDispatch, WriteAt, StagedOf, Probes, Into, KeepPos, Tracked
  <2>9. Good
    <3> HIDE DEF Good, d, i
    <3> QED
      BY <2>1, <2>2, <2>3, <2>4, <2>5, <2>6, <2>7, <2>8 DEF ProbeRow
  <2> QED
    BY <2>9
<1> QED
  BY <1>3, <1>4

LEMMA UniqueWriter ==
  ASSUME NEW p \in Programs, NEW t \in TasksOf[p], NEW u \in TasksOf[p], NEW n, Tracked(n),
         n \in In(p, t).writes, n \in In(p, u).writes, t[1] = u[1], t[2] = u[2]
  PROVE  t = u
<1>1. t[3] = u[3]
  BY WriterAt
<1> QED
  BY <1>1, TaskTyped

LEMMA ForwardStores ==
  ASSUME NEW p, NEW r, NEW d, IsForward(p, r, d)
  PROVE  /\ Touches(d) /\ Forwards(d) /\ d.op \notin ProbeOps
         /\ Stores(p, d) = d.writes
         /\ d.reads = {"S_local"}
         /\ StoresLater(p, d) = {}
         /\ d.writes = IF r = 0 \/ p \in Collectives THEN {"S_out"} ELSE {"S_recv"}
<1>1. PICK op, writes, wait, send, hop :
        /\ IsDispatch(d, op, {"S_local"}, writes, wait, send, hop, None, None)
        /\ op \in {"first", "middle", "last"}
        /\ wait = "forward" \/ send = "forward"
        /\ writes = IF r = 0 \/ p \in Collectives THEN {"S_out"} ELSE {"S_recv"}
  BY DEF IsForward
<1>2. /\ d.op = op /\ d.reads = {"S_local"} /\ d.writes = writes /\ d.wait = wait /\ d.send = send
  BY <1>1 DEF IsDispatch
<1> QED
  BY <1>1, <1>2 DEF Stores, StoresFirst, StoresLater, Reduces, Forwards, ProbeOps, Touches, None

LEMMA ReverseStoresAre ==
  ASSUME NEW p, NEW r, NEW d, IsReverse(p, r, d)
  PROVE  /\ Touches(d) /\ ~Forwards(d) /\ d.op \notin ProbeOps
         /\ Stores(p, d) = IF p \in Collectives /\ d.op = "terminal" THEN {"dS_total"} ELSE {"dS_total", "dgamma"}
         /\ d.writes = {"dS_total", "dgamma"}
         /\ \A n : ~(n \in StoresFirst(p, d) /\ n \in StoresLater(p, d))
<1>1. PICK op, reads, wait, send, hop :
        /\ IsDispatch(d, op, reads, Adjoints, wait, send, hop, None, None)
        /\ op \in {"source", "bwd_middle", "terminal"}
        /\ wait = "reverse" \/ send = "reverse"
  BY DEF IsReverse
<1>2. /\ d.op = op /\ d.writes = Adjoints /\ d.wait = wait /\ d.send = send
  BY <1>1 DEF IsDispatch
<1> QED
  BY <1>1, <1>2
  DEF Stores, StoresFirst, StoresLater, Reduces, ReverseStores, Forwards, ProbeOps, Touches, None, Adjoints

\* What a dispatch stores it names as written, and the host does not provide it;
\* it stores nothing twice.
LEMMA StoresIn ==
  ASSUME NEW p \in Programs, NEW t \in TasksOf[p], NEW n \in Stores(p, In(p, t))
  PROVE  /\ n \in In(p, t).writes
         /\ Tracked(n) => ~Given(p, n, t[2])
         /\ ~(n \in StoresFirst(p, In(p, t)) /\ n \in StoresLater(p, In(p, t)))
<1> DEFINE d == In(p, t)
           Good == /\ n \in d.writes
                   /\ ~(p = "allscan_backward" /\ n = "dgamma" /\ t[2] = 0)
                   /\ ~(n \in StoresFirst(p, d) /\ n \in StoresLater(p, d))
<1>1. n \in Stores(p, d) /\ t[2] \in Ranks /\ P >= 2 /\ P \in Nat
  BY TaskTyped, ProgramAssumption
<1>2. \A op, reads, writes : IsCalc(d, op, reads, writes) /\ op # "bwd_middle" /\ op # "source" /\ op # "send_then_wait"
         /\ p # "allscan_backward" => Good
  BY <1>1 DEF IsCalc, IsDispatch, Stores, Touches, StoresLater, Reduces
<1>3. CASE p \notin Probes
  <2>1. IsForward(p, t[2], d) /\ p # "allscan_backward" => Good
    BY <1>1, ForwardStores
  <2>2. IsReverse(p, t[2], d) => Good
    <3> SUFFICES ASSUME IsReverse(p, t[2], d) PROVE Good
      OBVIOUS
    <3>1. t[2] = 0 => d.op = "terminal"
      BY <1>1 DEF IsReverse, IsDispatch
    <3> QED
      BY <1>1, <3>1, ReverseStoresAre DEF Collectives
  <2>3. Row(p, t[2], t[3], d) /\ p \in Programs \ Probes
    BY <1>3, TaskRow
  <2>4. Good
    <3> HIDE DEF Good, d
    <3> QED
      BY <1>2, <2>1, <2>2, <2>3 DEF Row, StageRow, GradORow, GradHRow, Programs
  <2> QED
    BY <2>4, WriterAt DEF Given
<1>4. CASE p \in Probes
  <2>1. ProbeRow(p, t[2], t[3], d) /\ p # "allscan_backward"
    BY <1>4, TaskRow DEF Probes
  <2>2. IsSend(p, t[2], t[3], d, "forward") \/ IsSend(p, t[2], t[3], d, "reverse") => Good
    BY <1>1, <2>1 DEF IsSend, IsDispatch, Stores, StoresFirst, StoresLater, Reduces, ProbeOps, ProbeStores
  <2>3. IsRecv(p, t[2], t[3], d, "forward") \/ IsRecv(p, t[2], t[3], d, "reverse") => Good
    BY <1>1, <2>1 DEF IsRecv, IsDispatch, Stores, StoresFirst, StoresLater, Reduces, ProbeOps, ProbeStores
  <2>4. IsJoined(p, t[2], t[3], d, "send_then_wait", "forward", "reverse") => Good
    BY <1>1, <2>1 DEF IsJoined, IsDispatch, Stores, StoresFirst, StoresLater, Reduces, ProbeOps, ProbeStores, Into
  <2>5. IsJoined(p, t[2], t[3], d, "wait_then_send", "reverse", "forward") => Good
    BY <1>1, <2>1 DEF IsJoined, IsDispatch, Stores, StoresFirst, StoresLater, Reduces, ProbeOps, ProbeStores, Into
  <2>6. Good
    <3> HIDE DEF Good, d
    <3> QED
      BY <1>2, <2>1, <2>2, <2>3, <2>4, <2>5 DEF ProbeRow
  <2> QED
    BY <2>6, WriterAt DEF Given
<1> QED
  BY <1>3, <1>4

\* Tensor n of t's rank is settled before t: the host provides it, or an earlier
\* dispatch of the same ring and rank stores it.
Makes(p, t, n, u) ==
  /\ u = <<t[1], t[2], WriteAt(p, n)>> /\ u \in TasksOf[p]
  /\ u[1] = t[1] /\ u[2] = t[2] /\ u[3] < t[3]
  /\ n \in Stores(p, In(p, u))
SettledFor(p, t, n) ==
  Given(p, n, t[2]) \/ Makes(p, t, n, <<t[1], t[2], WriteAt(p, n)>>)

LEMMA MakerRow ==
  ASSUME NEW p \in Programs, NEW t \in TasksOf[p], NEW n, WriteAt(p, n) < t[3], WriteAt(p, n) \in 1..5,
         n \in Stores(p, Body[p][t[2]][WriteAt(p, n)])
  PROVE  SettledFor(p, t, n)
<1>1. /\ t[1] \in RingsOf[p] /\ t[2] \in Ranks /\ WriteAt(p, n) <= LengthOf(p, t[2])
  <2>1. t[3] \in 1..5 /\ t[3] <= LengthOf(p, t[2]) /\ t[1] \in RingsOf[p] /\ t[2] \in Ranks
    BY TaskTyped
  <2>2. LengthOf(p, t[2]) \in Nat
    BY DEF LengthOf
  <2> QED
    BY <2>1, <2>2
<1>2. <<t[1], t[2], WriteAt(p, n)>> \in TasksOf[p]
  BY <1>1, IsTask
<1> QED
  BY <1>1, <1>2 DEF SettledFor, Makes, In

LEMMA ReadsSettled ==
  ASSUME NEW p \in Programs, NEW t \in TasksOf[p], NEW n \in In(p, t).reads, Tracked(n)
  PROVE  SettledFor(p, t, n)
<1> DEFINE d == In(p, t)
           r == t[2]
           i == t[3]
           maker == Body[p][r][WriteAt(p, n)]
<1>1. n \in d.reads /\ r \in Ranks /\ P >= 2 /\ P \in Nat /\ i \in 1..5 /\ i <= LengthOf(p, r)
  BY TaskTyped, ProgramAssumption
<1>2. WriteAt(p, n) < i /\ WriteAt(p, n) \in 1..5 /\ n \in Stores(p, maker) => SettledFor(p, t, n)
  BY MakerRow
<1>3. WriteAt(p, n) < i /\ WriteAt(p, n) \in 1..5 => WriteAt(p, n) <= LengthOf(p, r)
  BY <1>1 DEF LengthOf
<1>4. CASE p \notin Probes
  <2>1. Row(p, r, i, d) /\ p \in Programs \ Probes
    BY <1>4, TaskRow
  <2>2. WriteAt(p, n) < i /\ WriteAt(p, n) \in 1..5 => Row(p, r, WriteAt(p, n), maker)
    BY <1>1, <1>3, <1>4, RowIs
  <2>3. StageRow("recompute", WriteAt(p, n), maker) \/ StageRow("stage1", WriteAt(p, n), maker)
          => (n \in {"snaps", "S_local"} => n \in Stores(p, maker))
    BY DEF StageRow, IsCalc, IsDispatch, Stores, Touches
  <2>4. IsForward(p, r, maker) /\ p \notin Collectives /\ n = "S_recv" /\ r # 0 => n \in Stores(p, maker)
    BY ForwardStores
  <2>5. IsReverse(p, r, maker) /\ p \notin Collectives /\ n \in Adjoints => n \in Stores(p, maker)
    BY ReverseStoresAre DEF Adjoints
  <2>6. GradORow(p, r, maker) /\ n \in {"partials", "dS_recv"} => n \in Stores(p, maker)
    BY DEF GradORow, IsCalc, IsDispatch, Stores, Touches
  <2>7. n \in {"zero"} \cup StagedOf(p) => SettledFor(p, t, n)
    BY DEF Given, SettledFor
  <2>8. IsForward(p, r, d) => n = "S_local"
    BY <1>1 DEF IsForward, IsDispatch
  <2>9. IsReverse(p, r, d) => n \in GivenTo(p, {"dS_recv", Boundary(p, r)}) /\ (n = Boundary(p, r) => r # 0)
    BY <1>1 DEF IsReverse, IsDispatch, GivenTo, Boundary
  <2>10. GradORow(p, r, d) => n \in {"snaps", Boundary(p, r)}
    BY <1>1 DEF GradORow, IsCalc, IsDispatch
  <2>11. Boundary(p, r) = IF r = 0 \/ p = "stub_forward" THEN "zero" ELSE "S_recv"
    BY DEF Boundary
  <2>12. \A ends : GradHRow(d, ends) => n \in {"snaps", "partials"} \cup ends
    BY <1>1 DEF GradHRow, IsCalc, IsDispatch
  <2>13. ~StageRow("recompute", i, d) /\ ~StageRow("stage1", i, d)
    BY <1>1 DEF StageRow, IsCalc, IsDispatch
  <2>14. IsCalc(d, "stage2", {"snaps", Boundary(p, r)}, {"O"}) => n \in {"snaps", Boundary(p, r)}
    BY <1>1 DEF IsCalc, IsDispatch
  <2>15. CASE p = "allscan"
    BY <2>1, <2>7, <2>8, <2>15 DEF Row, StagedOf
  <2>16. CASE p = "allscan_backward"
    BY <2>1, <2>7, <2>9, <2>16 DEF Row, StagedOf, GivenTo, Collectives
  <2> HIDE DEF d, r, i, maker
  <2>17. CASE p = "forward"
    <3>1. \/ i = 2 /\ n = "S_local"
          \/ i = 3 /\ n \in {"snaps", Boundary(p, r)}
      BY <2>1, <2>8, <2>9, <2>10, <2>12, <2>13, <2>14, <2>17 DEF Row, GivenTo, Collectives
    <3>2. n = "zero" => SettledFor(p, t, n)
      BY <2>7
    <3>3. n \in {"snaps", "S_local"} => SettledFor(p, t, n)
      <4>1. n \in {"snaps", "S_local"} => WriteAt(p, n) = 1
        BY DEF WriteAt
      <4> QED
        BY <1>2, <2>2, <2>3, <2>17, <3>1, <4>1 DEF Row, StageRow
    <3>4. n = "S_recv" => SettledFor(p, t, n)
      <4>1. n = "S_recv" => WriteAt(p, n) = 2
        BY <2>17 DEF WriteAt, SendAt, Collectives, Probes
      <4> QED
        BY <1>2, <2>2, <2>4, <2>11, <2>17, <3>1, <4>1 DEF Row, Collectives, StageRow, Adjoints
    <3> QED
      BY <2>11, <3>1, <3>2, <3>3, <3>4
  <2>18. CASE p = "backward"
    <3>1. \/ i = 2 /\ n = "S_local"
          \/ i = 3 /\ n \in {"snaps", Boundary(p, r)}
          \/ i = 4 /\ n \in {"dS_recv", Boundary(p, r)}
          \/ i = 5 /\ n \in {"snaps", "partials"} \cup Adjoints
      BY <2>1, <2>8, <2>9, <2>10, <2>12, <2>13, <2>14, <2>18 DEF Row, GivenTo, Collectives
    <3>2. n = "zero" => SettledFor(p, t, n)
      BY <2>7
    <3>3. n \in {"snaps", "S_local"} => SettledFor(p, t, n)
      <4>1. n \in {"snaps", "S_local"} => WriteAt(p, n) = 1
        BY DEF WriteAt
      <4> QED
        BY <1>2, <2>2, <2>3, <2>18, <3>1, <4>1 DEF Row, StageRow
    <3>4. n = "S_recv" => SettledFor(p, t, n)
      <4>1. n = "S_recv" => WriteAt(p, n) = 2
        BY <2>18 DEF WriteAt, SendAt, Collectives, Probes
      <4> QED
        BY <1>2, <2>2, <2>4, <2>11, <2>18, <3>1, <4>1 DEF Row, Collectives, StageRow, Adjoints
    <3>5. n \in {"partials", "dS_recv"} => SettledFor(p, t, n)
      <4>1. n \in {"partials", "dS_recv"} => WriteAt(p, n) = 3
        BY <2>18 DEF WriteAt
      <4> QED
        BY <1>2, <2>2, <2>6, <2>11, <2>18, <3>1, <4>1 DEF Row, StageRow, Adjoints
    <3>6. n \in Adjoints => SettledFor(p, t, n)
      <4>1. n \in Adjoints => WriteAt(p, n) = 4
        BY <2>18 DEF WriteAt, SendAt, Collectives, Probes, Adjoints
      <4> QED
        BY <1>2, <2>2, <2>5, <2>11, <2>18, <3>1, <4>1 DEF Row, Collectives, StageRow, Adjoints
    <3> QED
      BY <2>11, <3>1, <3>2, <3>3, <3>4, <3>5, <3>6
  <2>19. CASE p = "stub_reverse"
    <3>1. \/ i = 2 /\ n = "S_local"
          \/ i = 3 /\ n \in {"snaps", Boundary(p, r)}
          \/ i = 4 /\ n \in {"snaps", "partials"} \cup {"zero"}
      BY <2>1, <2>8, <2>9, <2>10, <2>12, <2>13, <2>14, <2>19 DEF Row, GivenTo, Collectives
    <3>2. n = "zero" => SettledFor(p, t, n)
      BY <2>7
    <3>3. n \in {"snaps", "S_local"} => SettledFor(p, t, n)
      <4>1. n \in {"snaps", "S_local"} => WriteAt(p, n) = 1
        BY DEF WriteAt
      <4> QED
        BY <1>2, <2>2, <2>3, <2>19, <3>1, <4>1 DEF Row, StageRow
    <3>4. n = "S_recv" => SettledFor(p, t, n)
      <4>1. n = "S_recv" => WriteAt(p, n) = 2
        BY <2>19 DEF WriteAt, SendAt, Collectives, Probes
      <4> QED
        BY <1>2, <2>2, <2>4, <2>11, <2>19, <3>1, <4>1 DEF Row, Collectives, StageRow, Adjoints
    <3>5. n \in {"partials", "dS_recv"} => SettledFor(p, t, n)
      <4>1. n \in {"partials", "dS_recv"} => WriteAt(p, n) = 3
        BY <2>19 DEF WriteAt
      <4> QED
        BY <1>2, <2>2, <2>6, <2>11, <2>19, <3>1, <4>1 DEF Row, StageRow, Adjoints
    <3> QED
      BY <2>11, <3>1, <3>2, <3>3, <3>4, <3>5
  <2>20. CASE p = "stub_forward"
    <3>1. \/ i = 2 /\ n \in {"snaps", Boundary(p, r)}
          \/ i = 3 /\ n \in {"dS_recv", Boundary(p, r)}
          \/ i = 4 /\ n \in {"snaps", "partials"} \cup Adjoints
      BY <2>1, <2>8, <2>9, <2>10, <2>12, <2>13, <2>14, <2>20 DEF Row, GivenTo, Collectives
    <3>2. n = "zero" => SettledFor(p, t, n)
      BY <2>7
    <3>3. n \in {"snaps", "S_local"} => SettledFor(p, t, n)
      <4>1. n \in {"snaps", "S_local"} => WriteAt(p, n) = 1
        BY DEF WriteAt
      <4> QED
        BY <1>2, <2>2, <2>3, <2>20, <3>1, <4>1 DEF Row, StageRow
    <3>5. n \in {"partials", "dS_recv"} => SettledFor(p, t, n)
      <4>1. n \in {"partials", "dS_recv"} => WriteAt(p, n) = 2
        BY <2>20 DEF WriteAt
      <4> QED
        BY <1>2, <2>2, <2>6, <2>11, <2>20, <3>1, <4>1 DEF Row, StageRow, Adjoints
    <3>6. n \in Adjoints => SettledFor(p, t, n)
      <4>1. n \in Adjoints => WriteAt(p, n) = 3
        BY <2>20 DEF WriteAt, SendAt, Collectives, Probes, Adjoints
      <4> QED
        BY <1>2, <2>2, <2>5, <2>11, <2>20, <3>1, <4>1 DEF Row, Collectives, StageRow, Adjoints
    <3> QED
      BY <2>11, <2>20, <3>1, <3>2, <3>3, <3>5, <3>6
  <2> QED
    BY <2>1, <2>15, <2>16, <2>17, <2>18, <2>19, <2>20 DEF Programs
<1>5. CASE p \in Probes
  <2>1. ProbeRow(p, r, i, d) /\ r \in {0, 1} /\ p \in Programs
    BY <1>5, TaskRow
  <2>2. n = "X" => SettledFor(p, t, n)
    BY <1>5 DEF Given, StagedOf, SettledFor, Probes
  <2>3. n = "T0" /\ i # 1 => SettledFor(p, t, n)
    <3>1. WriteAt(p, "T0") = 1
      BY DEF WriteAt
    <3>2. 1 <= LengthOf(p, r)
      BY <1>1 DEF LengthOf
    <3>3. ProbeRow(p, r, 1, Body[p][r][1])
      BY <1>1, <1>5, <3>2, ProbeRowIs
    <3>4. IsCalc(Body[p][r][1], "compute", {"X"}, {"T0"})
      BY <1>5, <3>3 DEF ProbeRow, IsSend, IsRecv, IsJoined, SendPos, KeepPos, T1Pos
    <3>5. "T0" \in Stores(p, Body[p][r][1])
      BY <3>4 DEF IsCalc, IsDispatch, Stores, Touches
    <3> QED
      BY <1>1, <1>2, <3>1, <3>5
  <2>4. n = "T1" /\ i > T1Pos(p) => SettledFor(p, t, n)
    <3> DEFINE j == T1Pos(p)
    <3> SUFFICES ASSUME n = "T1", i > j PROVE SettledFor(p, t, n)
      OBVIOUS
    <3>1. WriteAt(p, "T1") = j /\ j \in 1..5 /\ j \in {2, 3} /\ (j = 2) = (p = "rev")
      BY DEF WriteAt, T1Pos
    <3>2. j <= LengthOf(p, r)
      BY <1>1, <3>1 DEF LengthOf
    <3>3. ProbeRow(p, r, j, Body[p][r][j])
      BY <1>1, <1>5, <3>1, <3>2, ProbeRowIs
    <3>4. ~IsSend(p, r, j, Body[p][r][j], "forward") /\ ~IsSend(p, r, j, Body[p][r][j], "reverse")
      BY <3>1 DEF IsSend, SendPos
    <3>5. ~IsRecv(p, r, j, Body[p][r][j], "forward") /\ ~IsRecv(p, r, j, Body[p][r][j], "reverse")
      BY <3>1 DEF IsRecv, KeepPos
    <3>6. IsCalc(Body[p][r][j], "compute", {"T0"}, {"T1"})
      BY <1>5, <3>1, <3>3, <3>4, <3>5 DEF ProbeRow, IsJoined
    <3>7. "T1" \in Stores(p, Body[p][r][j])
      BY <3>6 DEF IsCalc, IsDispatch, Stores, Touches
    <3> QED
      BY <1>1, <1>2, <3>1, <3>7
  <2>5. \A x, y : IsCalc(d, "compute", {x}, {y}) => n = x
    BY <1>1 DEF IsCalc, IsDispatch
  <2>6. IsSend(p, r, i, d, "forward") => n = "T0" /\ i # 1
    BY <1>1 DEF IsSend, IsDispatch, SentName, SendPos
  <2>7. IsSend(p, r, i, d, "reverse") => (n = "T0" /\ i # 1) \/ (n = "T1" /\ i > T1Pos(p))
    BY <1>1 DEF IsSend, IsDispatch, SentName, SendPos, T1Pos
  <2>8. IsRecv(p, r, i, d, "forward") \/ IsRecv(p, r, i, d, "reverse") => n = "T0" /\ i # 1
    BY <1>1 DEF IsRecv, KeepPos, Tracked
  <2>9. /\ IsJoined(p, r, i, d, "send_then_wait", "forward", "reverse") => n = "T0" /\ i # 1
        /\ IsJoined(p, r, i, d, "wait_then_send", "reverse", "forward") => n = "T0" /\ i # 1
    BY <1>1 DEF IsJoined, IsDispatch
  <2>10. T1Pos(p) # 1 /\ T1Pos(p) \in {2, 3} /\ n # "T2"
    BY DEF T1Pos, Tracked
  <2> HIDE DEF d, r, i, maker
  <2> QED
    BY <2>1, <2>2, <2>3, <2>4, <2>5, <2>6, <2>7, <2>8, <2>9, <2>10 DEF ProbeRow
<1> QED
  BY <1>4, <1>5

-----------------------------------------------------------------------------
(* Places: every dispatch is pending, in its FIFO, running or done *)

TypePlace ==
  /\ submitted \subseteq Tasks /\ done \subseteq submitted
  /\ \A r \in Ranks :
       /\ Elements(fifo[r]) \subseteq {t \in submitted : t[2] = r}
       /\ running[r] = Nobody \/ running[r] \in {t \in submitted \ done : t[2] = r}
  /\ pc \in [Ranks -> {"idle", "compute", "receive", "send", "notify", "await", "reduce"}]
  /\ blk \in [Ranks -> Blocks]

TypeHost ==
  /\ <<program, tokens>> \in Cases
  /\ calls \in 0..MaxCalls /\ active \in BOOLEAN

TypeData ==
  /\ DOMAIN tensors = Keys /\ DOMAIN window = WindowCells
  /\ sig \in [WindowCells -> Nat]

PlaceInv == TypeHost /\ TypePlace /\ InvPlaces /\ InvSteps

LEMMA TypeParts == TypeOK <=> TypeHost /\ TypePlace /\ TypeData
  BY DEF TypeOK, TypeHost, TypePlace, TypeData

LEMMA HostIs ==
  ASSUME TypeHost
  PROVE  program \in Programs
  BY DispatchAssumption DEF TypeHost

LEMMA BlocksAre ==
  ASSUME NEW p \in Programs
  PROVE  \E n \in Nat : BlocksOf[p] = 0..n
<1>1. CASE p \in Probes
  <2>1. BlocksOf[p] = {0}
    BY <1>1 DEF BlocksOf
  <2>2. {0} = 0..0
    OBVIOUS
  <2> QED
    BY <2>1, <2>2
<1>2. CASE p \notin Probes
  BY <1>2, ProgramAssumption DEF BlocksOf
<1> QED
  BY <1>1, <1>2

LEMMA Rigid ==
  ASSUME UNCHANGED <<program, tokens>>
  PROVE  /\ Tasks' = Tasks /\ Blocks' = Blocks /\ Rings' = Rings /\ Names' = Names
         /\ Keys' = Keys /\ WindowCells' = WindowCells
  BY DEF Tasks, Blocks, Rings, Names, Keys, WindowCells

LEMMA ElementsOfAppend ==
  ASSUME NEW S, NEW q \in Seq(S), NEW t \in S
  PROVE  /\ Append(q, t) \in Seq(S)
         /\ Elements(Append(q, t)) = Elements(q) \cup {t}
         /\ Distinct(q) /\ t \notin Elements(q) => Distinct(Append(q, t))
<1> DEFINE a == Append(q, t)
<1>1. /\ a \in Seq(S) /\ Len(a) = Len(q) + 1 /\ DOMAIN a = 1..Len(a) /\ DOMAIN q = 1..Len(q)
      /\ \A i \in 1..Len(q) : a[i] = q[i]
      /\ a[Len(q) + 1] = t
  BY AppendProperties
<1>2. PICK n \in Nat : n = Len(q)
  OBVIOUS
<1> HIDE DEF a
<1>3. DOMAIN a = 1..n \cup {n + 1} /\ DOMAIN q = 1..n /\ a[n + 1] = t /\ n + 1 \notin 1..n
  BY <1>1, <1>2
<1>4. \A i \in 1..n : a[i] = q[i]
  BY <1>1, <1>2
<1>5. Elements(a) = Elements(q) \cup {t}
  BY <1>3, <1>4 DEF Elements
<1>6. Distinct(q) /\ t \notin Elements(q) => Distinct(a)
  BY <1>3, <1>4 DEF Distinct, Elements
<1> QED
  BY <1>1, <1>5, <1>6 DEF a

LEMMA ElementsOfTail ==
  ASSUME NEW S, NEW q \in Seq(S), q # <<>>, Distinct(q)
  PROVE  /\ Tail(q) \in Seq(S) /\ Distinct(Tail(q)) /\ Head(q) \in Elements(q) /\ Head(q) \in S
         /\ Elements(Tail(q)) \subseteq Elements(q) \ {Head(q)}
<1> DEFINE u == Tail(q)
<1>1. /\ u \in Seq(S) /\ Len(u) = Len(q) - 1 /\ DOMAIN u = 1..Len(u) /\ DOMAIN q = 1..Len(q)
      /\ \A i \in 1..Len(u) : u[i] = q[i + 1]
      /\ Head(q) = q[1] /\ q[1] \in S
  BY HeadTailProperties
<1> HIDE DEF u
<1>a. Len(u) \in Nat /\ Len(q) \in Nat
  BY <1>1
<1>2. PICK n \in Nat : n = Len(u) /\ Len(q) = n + 1
  BY <1>1, <1>a
<1>3. DOMAIN u = 1..n /\ DOMAIN q = 1..(n + 1)
  BY <1>1, <1>2
<1>4. \A i \in 1..n : u[i] = q[i + 1] /\ i + 1 \in DOMAIN q /\ i + 1 # 1
  BY <1>1, <1>2
<1>5. 1 \in DOMAIN q /\ q[1] = Head(q)
  BY <1>1, <1>3
<1>6. Elements(u) \subseteq Elements(q) \ {Head(q)}
  BY <1>3, <1>4, <1>5 DEF Elements, Distinct
<1>7. Distinct(u)
  <2> SUFFICES ASSUME NEW i \in 1..n, NEW j \in 1..n, u[i] = u[j] PROVE i = j
    BY <1>3 DEF Distinct
  <2>1. q[i + 1] = q[j + 1] /\ i + 1 \in DOMAIN q /\ j + 1 \in DOMAIN q
    BY <1>4
  <2>2. i + 1 = j + 1
    BY <2>1 DEF Distinct
  <2> QED
    BY <2>2
<1> QED
  BY <1>1, <1>5, <1>6, <1>7 DEF u, Elements

\* Routing: a dispatch not placed yet joins the FIFO of its device once its
\* producers have completed (Submit, Release).
LEMMA PlaceAppend ==
  ASSUME PlaceInv, active, NEW t \in Tasks,
         UNCHANGED <<hostVars, done, running, pc, blk>>,
         submitted' = submitted \cup {t},
         t \notin Routed, ReadyNow(t), Append1(t)
  PROVE  PlaceInv'
<1> USE DEF hostVars
<1>1. program' = program /\ tokens' = tokens /\ Tasks' = Tasks /\ Blocks' = Blocks
  BY Rigid
<1>2. t[2] \in Ranks /\ t # Nobody
  BY HostIs, TaskTyped DEF PlaceInv, Tasks
<1>3. /\ fifo \in [Ranks -> Seq(Tasks)]
      /\ fifo' = [fifo EXCEPT ![t[2]] = Append(fifo[t[2]], t)]
  BY DEF PlaceInv, InvPlaces, Append1
<1>4. /\ t \notin done
      /\ \A r \in Ranks : t \notin Elements(fifo[r]) /\ t # running[r]
  BY DEF Routed
<1>5. PICK q : q = Append(fifo[t[2]], t)
  OBVIOUS
<1>6. /\ q \in Seq(Tasks) /\ Elements(q) = Elements(fifo[t[2]]) \cup {t} /\ Distinct(q)
  BY <1>2, <1>3, <1>4, <1>5, ElementsOfAppend DEF PlaceInv, InvPlaces
<1>7. /\ fifo' \in [Ranks -> Seq(Tasks)]
      /\ \A r \in Ranks : fifo'[r] = IF r = t[2] THEN q ELSE fifo[r]
  BY <1>2, <1>3, <1>5, <1>6
<1>8. TypeHost'
  BY DEF PlaceInv, TypeHost
<1>9. TypePlace'
  BY <1>1, <1>2, <1>4, <1>6, <1>7 DEF PlaceInv, TypePlace
<1>10. InvPlaces'
  <2>1. \A r \in Ranks : /\ Distinct(fifo'[r])
                         /\ Elements(fifo'[r]) \cap (done' \cup {running'[r]}) = {}
                         /\ (running'[r] = Nobody <=> pc'[r] = "idle")
    <3> SUFFICES ASSUME NEW r \in Ranks
                 PROVE  /\ Distinct(fifo'[r])
                        /\ Elements(fifo'[r]) \cap (done \cup {running[r]}) = {}
                        /\ running[r] = Nobody <=> pc[r] = "idle"
      OBVIOUS
    <3>1. /\ Distinct(fifo[r])
          /\ Elements(fifo[r]) \cap (done \cup {running[r]}) = {}
          /\ running[r] = Nobody <=> pc[r] = "idle"
      BY DEF PlaceInv, InvPlaces
    <3>2. CASE r = t[2]
      <4>1. fifo'[r] = q /\ t \notin done \cup {running[r]}
        BY <1>4, <1>7, <3>2
      <4> QED
        BY <1>6, <3>1, <3>2, <4>1
    <3>3. CASE r # t[2]
      <4>1. fifo'[r] = fifo[r]
        BY <1>7, <3>3
      <4> QED
        BY <3>1, <4>1
    <3> QED
      BY <3>2, <3>3
  <2>2. Producers[<<program, tokens>>][t] \subseteq done
    BY DEF ReadyNow
  <2>3. \A r \in Ranks : \A u \in Elements(fifo'[r]) \cup ({running'[r]} \ {Nobody}) :
          Producers[<<program', tokens'>>][u] \subseteq done'
    BY <1>1, <1>6, <1>7, <2>2 DEF PlaceInv, InvPlaces
  <2> QED
    BY <1>1, <1>7, <2>1, <2>3 DEF PlaceInv, InvPlaces
<1>11. InvSteps'
  BY DEF PlaceInv, InvSteps, Does
<1> QED
  BY <1>8, <1>9, <1>10, <1>11 DEF PlaceInv

\* Submit of a dispatch that must wait for its producers.
LEMMA PlaceSubmit ==
  ASSUME PlaceInv, active, NEW t \in Tasks,
         UNCHANGED <<hostVars, done, fifo, running, pc, blk>>,
         submitted' = submitted \cup {t}
  PROVE  PlaceInv'
<1> USE DEF hostVars, PlaceInv
<1>1. Tasks' = Tasks /\ Blocks' = Blocks
  BY Rigid
<1>2. TypePlace'
  BY <1>1 DEF TypePlace
<1>3. InvPlaces' /\ TypeHost' /\ InvSteps'
  BY <1>1 DEF InvPlaces, TypeHost, InvSteps, Does
<1> QED
  BY <1>2, <1>3

\* The dispatch of a busy device: it belongs to a call under way and is in no
\* other place.
LEMMA Busy ==
  ASSUME PlaceInv, NEW r \in Ranks, running[r] # Nobody
  PROVE  /\ active
         /\ running[r] \in Tasks /\ running[r][2] = r
         /\ running[r] \in submitted /\ running[r] \notin done
         /\ \A q \in Ranks : running[r] \notin Elements(fifo[q])
         /\ \A q \in Ranks : q # r => running[q] # running[r]
         /\ Producers[<<program, tokens>>][running[r]] \subseteq done
         /\ blk[r] \in Blocks
         /\ pc[r] # "idle"
<1>1. running[r] \in submitted /\ running[r] \notin done /\ running[r][2] = r /\ running[r] \in Tasks
  BY DEF PlaceInv, TypePlace
<1>2. active
  BY <1>1 DEF PlaceInv, InvPlaces
<1>3. \A q \in Ranks : running[r] \in Elements(fifo[q]) => q = r
  BY <1>1 DEF PlaceInv, TypePlace
<1>4. \A q \in Ranks : running[q] = running[r] => q = r
  BY <1>1 DEF PlaceInv, TypePlace
<1>5. running[r] \notin Elements(fifo[r])
  BY DEF PlaceInv, InvPlaces
<1>6. Producers[<<program, tokens>>][running[r]] \subseteq done
  BY DEF PlaceInv, InvPlaces
<1>7. blk[r] \in Blocks
  BY DEF PlaceInv, TypePlace
<1>8. pc[r] # "idle"
  BY DEF PlaceInv, InvPlaces
<1> QED
  BY <1>1, <1>2, <1>3, <1>4, <1>5, <1>6, <1>7, <1>8

\* A device moves to another step of the same dispatch.
LEMMA PlaceStay ==
  ASSUME PlaceInv, NEW r \in Ranks, running[r] # Nobody,
         UNCHANGED <<hostVars, submitted, done, fifo, running>>,
         blk' \in [Ranks -> Blocks],
         NEW x \in {"receive", "send", "notify", "await", "reduce"},
         pc' = [pc EXCEPT ![r] = x], StepFits(program, Does(running[r]), x)
  PROVE  PlaceInv'
<1> USE DEF hostVars
<1>1. Tasks' = Tasks /\ Blocks' = Blocks
  BY Rigid
<1>2. /\ pc' \in [Ranks -> {"idle", "compute", "receive", "send", "notify", "await", "reduce"}]
      /\ pc'[r] = x /\ \A q \in Ranks : q # r => pc'[q] = pc[q]
  BY DEF PlaceInv, TypePlace
<1>3. TypeHost' /\ TypePlace'
  BY <1>1, <1>2 DEF PlaceInv, TypeHost, TypePlace
<1>4. InvPlaces'
  <2>1. \A q \in Ranks : running'[q] = Nobody <=> pc'[q] = "idle"
    BY <1>2 DEF PlaceInv, InvPlaces
  <2> QED
    BY <1>1, <2>1 DEF PlaceInv, InvPlaces
<1>5. InvSteps'
  <2>1. \A q \in Ranks : running'[q] # Nobody => StepFits(program, Does(running[q]), pc'[q])
    BY <1>2 DEF PlaceInv, InvSteps
  <2> QED
    BY <2>1 DEF InvSteps, Does
<1> QED
  BY <1>3, <1>4, <1>5 DEF PlaceInv

\* A device completes its dispatch.
LEMMA PlaceFinish ==
  ASSUME PlaceInv, NEW r \in Ranks, running[r] # Nobody,
         UNCHANGED <<hostVars, submitted, fifo, blk>>, Idle(r)
  PROVE  PlaceInv'
<1> USE DEF hostVars
<1>1. Tasks' = Tasks /\ Blocks' = Blocks
  BY Rigid
<1>2. PICK t \in Tasks : t = running[r]
  BY Busy
<1>3. /\ t \in submitted /\ t \notin done /\ t[2] = r /\ active
      /\ \A q \in Ranks : t \notin Elements(fifo[q])
      /\ \A q \in Ranks : q # r => running[q] # t
  BY <1>2, Busy
<1>4. /\ running' = [running EXCEPT ![r] = Nobody]
      /\ pc' = [pc EXCEPT ![r] = "idle"]
      /\ done' = done \cup {t}
  BY <1>2 DEF Idle
<1>5. /\ running' \in [Ranks -> Tasks \cup {Nobody}] /\ running'[r] = Nobody
      /\ \A q \in Ranks : q # r => running'[q] = running[q]
  BY <1>4 DEF PlaceInv, InvPlaces
<1>6. /\ pc' \in [Ranks -> {"idle", "compute", "receive", "send", "notify", "await", "reduce"}]
      /\ pc'[r] = "idle" /\ \A q \in Ranks : q # r => pc'[q] = pc[q]
  BY <1>4 DEF PlaceInv, TypePlace
<1>7. TypeHost'
  BY DEF PlaceInv, TypeHost
<1>8. TypePlace'
  <2>1. \A q \in Ranks : running'[q] = Nobody \/ running'[q] \in {u \in submitted \ done' : u[2] = q}
    <3> SUFFICES ASSUME NEW q \in Ranks
                 PROVE  running'[q] = Nobody \/ running'[q] \in {u \in submitted \ done' : u[2] = q}
      OBVIOUS
    <3>1. CASE q = r
      BY <1>5, <3>1
    <3>2. CASE q # r
      BY <1>3, <1>4, <1>5, <3>2 DEF PlaceInv, TypePlace
    <3> QED
      BY <3>1, <3>2
  <2>2. done' \subseteq submitted'
    BY <1>3, <1>4 DEF PlaceInv, TypePlace
  <2> QED
    BY <1>1, <1>6, <2>1, <2>2 DEF PlaceInv, TypePlace
<1>9. InvPlaces'
  <2>1. \A q \in Ranks : Elements(fifo[q]) \cap (done' \cup {running'[q]}) = {}
    <3> SUFFICES ASSUME NEW q \in Ranks PROVE Elements(fifo[q]) \cap (done' \cup {running'[q]}) = {}
      OBVIOUS
    <3>1. Elements(fifo[q]) \cap (done \cup {running[q]}) = {} /\ t \notin Elements(fifo[q])
      BY <1>3 DEF PlaceInv, InvPlaces
    <3>2. Nobody \notin Elements(fifo[q])
      <4>1. Elements(fifo[q]) \subseteq Tasks
        BY DEF PlaceInv, TypePlace
      <4> QED
        BY <4>1, HostIs, TaskTyped DEF PlaceInv, Tasks
    <3> QED
      BY <1>4, <1>5, <3>1, <3>2
  <2>2. \A q \in Ranks : running'[q] = Nobody <=> pc'[q] = "idle"
    BY <1>5, <1>6 DEF PlaceInv, InvPlaces
  <2>3. \A q \in Ranks : \A u \in Elements(fifo[q]) \cup ({running'[q]} \ {Nobody}) :
          Producers[<<program, tokens>>][u] \subseteq done'
    BY <1>4, <1>5 DEF PlaceInv, InvPlaces
  <2>4. \A q \in Ranks : Distinct(fifo[q])
    BY DEF PlaceInv, InvPlaces
  <2>5. fifo \in [Ranks -> Seq(Tasks)]
    BY DEF PlaceInv, InvPlaces
  <2> QED
    BY <1>1, <1>3, <1>5, <2>1, <2>2, <2>3, <2>4, <2>5 DEF InvPlaces
<1>10. InvSteps'
  <2>1. \A q \in Ranks : running'[q] # Nobody => StepFits(program, Does(running'[q]), pc'[q])
    BY <1>5, <1>6 DEF PlaceInv, InvSteps
  <2> QED
    BY <2>1 DEF InvSteps, Does
<1> QED
  BY <1>7, <1>8, <1>9, <1>10 DEF PlaceInv

\* A device takes the next block, or completes.
LEMMA PlaceNext ==
  ASSUME PlaceInv, NEW r \in Ranks, running[r] # Nobody, Touches(Does(running[r])),
         UNCHANGED <<hostVars, submitted, fifo>>, NextBlock(r)
  PROVE  PlaceInv'
<1>1. CASE blk[r] + 1 \notin Blocks
  BY <1>1, PlaceFinish DEF NextBlock
<1>2. CASE blk[r] + 1 \in Blocks
  <2>1. /\ blk' = [blk EXCEPT ![r] = blk[r] + 1] /\ pc' = [pc EXCEPT ![r] = "receive"]
        /\ UNCHANGED <<running, done>>
    BY <1>2 DEF NextBlock
  <2>2. blk' \in [Ranks -> Blocks]
    BY <1>2, <2>1 DEF PlaceInv, TypePlace
  <2>3. StepFits(program, Does(running[r]), "receive")
    BY DEF StepFits
  <2> QED
    BY <2>1, <2>2, <2>3, PlaceStay
<1> QED
  BY <1>1, <1>2

\* An idle device takes the head of its FIFO.
LEMMA PlaceDispatch ==
  ASSUME PlaceInv, NEW r \in Ranks, Dispatch(r)
  PROVE  PlaceInv' /\ running'[r] # Nobody /\ active
<1> USE DEF hostVars
<1>1. Tasks' = Tasks /\ Blocks' = Blocks
  BY Rigid DEF Dispatch
<1>2. /\ fifo[r] \in Seq(Tasks) /\ fifo[r] # <<>> /\ Distinct(fifo[r])
      /\ running[r] = Nobody
  BY DEF PlaceInv, InvPlaces, Dispatch
<1>3. PICK t, q : t = Head(fifo[r]) /\ q = Tail(fifo[r])
  OBVIOUS
<1>4. /\ q \in Seq(Tasks) /\ Distinct(q) /\ t \in Elements(fifo[r]) /\ t \in Tasks
      /\ Elements(q) \subseteq Elements(fifo[r]) \ {t}
  BY <1>2, <1>3, ElementsOfTail
<1>5. /\ t # Nobody /\ t[2] = r /\ t \in submitted /\ t \notin done
      /\ Producers[<<program, tokens>>][t] \subseteq done
  <2>1. t # Nobody
    BY <1>4, HostIs, TaskTyped DEF PlaceInv, Tasks
  <2>2. t[2] = r /\ t \in submitted
    BY <1>4 DEF PlaceInv, TypePlace
  <2> QED
    BY <1>4, <2>1, <2>2 DEF PlaceInv, InvPlaces
<1>6. PICK x \in {"receive", "compute"} : x = IF Touches(Does(t)) THEN "receive" ELSE "compute"
  OBVIOUS
<1>7. /\ running' = [running EXCEPT ![r] = t]
      /\ fifo' = [fifo EXCEPT ![r] = q]
      /\ pc' = [pc EXCEPT ![r] = x]
      /\ blk' = [blk EXCEPT ![r] = 0]
      /\ UNCHANGED <<hostVars, submitted, done>>
  BY <1>3, <1>6 DEF Dispatch
<1>8. /\ running' \in [Ranks -> Tasks \cup {Nobody}] /\ running'[r] = t
      /\ \A s \in Ranks : s # r => running'[s] = running[s]
  BY <1>4, <1>7 DEF PlaceInv, InvPlaces
<1>9. /\ fifo' \in [Ranks -> Seq(Tasks)] /\ fifo'[r] = q
      /\ \A s \in Ranks : s # r => fifo'[s] = fifo[s]
  BY <1>4, <1>7 DEF PlaceInv, InvPlaces
<1>10. /\ pc' \in [Ranks -> {"idle", "compute", "receive", "send", "notify", "await", "reduce"}]
       /\ pc'[r] = x /\ \A s \in Ranks : s # r => pc'[s] = pc[s]
  BY <1>7 DEF PlaceInv, TypePlace
<1>11. blk' \in [Ranks -> Blocks]
  <2>1. 0 \in Blocks
    BY HostIs, BlocksAre DEF PlaceInv, Blocks
  <2> QED
    BY <1>7, <2>1 DEF PlaceInv, TypePlace
<1>12. TypeHost'
  BY <1>7 DEF PlaceInv, TypeHost
<1>13. TypePlace'
  <2>1. \A s \in Ranks : Elements(fifo'[s]) \subseteq {u \in submitted : u[2] = s}
    <3> SUFFICES ASSUME NEW s \in Ranks PROVE Elements(fifo'[s]) \subseteq {u \in submitted : u[2] = s}
      OBVIOUS
    <3>1. Elements(fifo[s]) \subseteq {u \in submitted : u[2] = s}
      BY DEF PlaceInv, TypePlace
    <3>2. Elements(fifo'[s]) \subseteq Elements(fifo[s])
      BY <1>4, <1>9
    <3> QED
      BY <3>1, <3>2
  <2>2. \A s \in Ranks : running'[s] = Nobody \/ running'[s] \in {u \in submitted \ done : u[2] = s}
    BY <1>5, <1>8 DEF PlaceInv, TypePlace
  <2> QED
    BY <1>1, <1>7, <1>10, <1>11, <2>1, <2>2 DEF PlaceInv, TypePlace
<1>14. InvPlaces'
  <2>1. \A s \in Ranks : /\ Distinct(fifo'[s])
                         /\ Elements(fifo'[s]) \cap (done \cup {running'[s]}) = {}
                         /\ running'[s] = Nobody <=> pc'[s] = "idle"
    <3> SUFFICES ASSUME NEW s \in Ranks
                 PROVE  /\ Distinct(fifo'[s])
                        /\ Elements(fifo'[s]) \cap (done \cup {running'[s]}) = {}
                        /\ running'[s] = Nobody <=> pc'[s] = "idle"
      OBVIOUS
    <3>1. /\ Distinct(fifo[s]) /\ Elements(fifo[s]) \cap (done \cup {running[s]}) = {}
          /\ running[s] = Nobody <=> pc[s] = "idle"
      BY DEF PlaceInv, InvPlaces
    <3>2. CASE s = r
      BY <1>4, <1>5, <1>6, <1>8, <1>9, <1>10, <3>1, <3>2
    <3>3. CASE s # r
      BY <1>8, <1>9, <1>10, <3>1, <3>3
    <3> QED
      BY <3>2, <3>3
  <2>2. \A s \in Ranks : \A u \in Elements(fifo'[s]) \cup ({running'[s]} \ {Nobody}) :
          Producers[<<program, tokens>>][u] \subseteq done
    <3> SUFFICES ASSUME NEW s \in Ranks, NEW u \in Elements(fifo'[s]) \cup ({running'[s]} \ {Nobody})
                 PROVE  Producers[<<program, tokens>>][u] \subseteq done
      OBVIOUS
    <3>1. u = t \/ u \in Elements(fifo[s]) \cup ({running[s]} \ {Nobody})
      BY <1>4, <1>8, <1>9
    <3> QED
      BY <1>5, <3>1 DEF PlaceInv, InvPlaces
  <2>3. ~active => submitted = done
    BY DEF PlaceInv, InvPlaces
  <2> QED
    BY <1>1, <1>7, <1>8, <1>9, <2>1, <2>2, <2>3 DEF InvPlaces
<1>15. InvSteps'
  <2>1. StepFits(program, Does(t), x)
    BY <1>6 DEF StepFits
  <2>2. \A s \in Ranks : running'[s] # Nobody => StepFits(program, Does(running'[s]), pc'[s])
    BY <1>8, <1>10, <2>1 DEF PlaceInv, InvSteps
  <2> QED
    BY <1>7, <2>2 DEF InvSteps, Does
<1>16. active
  BY <1>5 DEF PlaceInv, InvPlaces
<1> QED
  BY <1>5, <1>8, <1>12, <1>13, <1>14, <1>15, <1>16 DEF PlaceInv

\* Between calls every device is idle and every FIFO empty.
LEMMA PlaceStart ==
  ASSUME PlaceInv, StartCall
  PROVE  PlaceInv' /\ \A r \in Ranks : running[r] = Nobody /\ pc[r] = "idle"
<1> USE DEF hostVars
<1>1. Tasks' = Tasks /\ Blocks' = Blocks
  BY Rigid DEF StartCall
<1>2. submitted = done
  BY DEF PlaceInv, InvPlaces, StartCall
<1>3. \A r \in Ranks : running[r] = Nobody /\ pc[r] = "idle" /\ Elements(fifo[r]) = {}
  <2> SUFFICES ASSUME NEW r \in Ranks PROVE running[r] = Nobody /\ pc[r] = "idle" /\ Elements(fifo[r]) = {}
    OBVIOUS
  <2>1. running[r] = Nobody
    BY <1>2 DEF PlaceInv, TypePlace
  <2>2. Elements(fifo[r]) \subseteq done /\ Elements(fifo[r]) \cap (done \cup {running[r]}) = {}
    BY <1>2 DEF PlaceInv, TypePlace, InvPlaces
  <2> QED
    BY <2>1, <2>2 DEF PlaceInv, InvPlaces
<1>4. /\ program' = program /\ tokens' = tokens /\ calls' = calls + 1 /\ active' = TRUE
      /\ submitted' = {} /\ done' = {} /\ UNCHANGED <<fifo, running, pc, blk>> /\ calls < MaxCalls
  BY DEF StartCall
<1>5. TypeHost'
  BY <1>4, DispatchAssumption DEF PlaceInv, TypeHost
<1>6. TypePlace'
  BY <1>1, <1>3, <1>4 DEF PlaceInv, TypePlace
<1>7. InvPlaces'
  BY <1>1, <1>3, <1>4 DEF PlaceInv, InvPlaces
<1>8. InvSteps'
  BY <1>3, <1>4 DEF PlaceInv, InvSteps
<1> QED
  BY <1>3, <1>5, <1>6, <1>7, <1>8 DEF PlaceInv

LEMMA PlaceReturn ==
  ASSUME PlaceInv, Return
  PROVE  PlaceInv'
<1> USE DEF hostVars
<1>1. Tasks' = Tasks /\ Blocks' = Blocks
  BY Rigid DEF Return
<1>2. /\ UNCHANGED <<program, tokens, calls, submitted, done, fifo, running, pc, blk>>
      /\ active' = FALSE /\ done = Tasks
  BY DEF Return
<1>3. submitted = done
  BY <1>2 DEF PlaceInv, TypePlace
<1>4. TypeHost' /\ TypePlace'
  BY <1>1, <1>2 DEF PlaceInv, TypeHost, TypePlace
<1>5. InvPlaces' /\ InvSteps'
  BY <1>1, <1>2, <1>3 DEF PlaceInv, InvPlaces, InvSteps, Does
<1> QED
  BY <1>4, <1>5 DEF PlaceInv

-----------------------------------------------------------------------------
(* Kinds of dispatches *)

LEMMA CommRow ==
  ASSUME NEW p \in Programs, NEW t \in TasksOf[p], Touches(In(p, t))
  PROVE  /\ p \notin Probes =>
              \/ p \notin {"allscan_backward", "stub_forward"} /\ IsForward(p, t[2], In(p, t))
              \/ p \notin {"allscan", "forward", "stub_reverse"} /\ IsReverse(p, t[2], In(p, t))
         /\ p \in Probes =>
              \/ \E on \in {"forward", "reverse"} : IsSend(p, t[2], t[3], In(p, t), on)
              \/ \E on \in {"forward", "reverse"} : IsRecv(p, t[2], t[3], In(p, t), on)
              \/ IsJoined(p, t[2], t[3], In(p, t), "send_then_wait", "forward", "reverse")
              \/ IsJoined(p, t[2], t[3], In(p, t), "wait_then_send", "reverse", "forward")
<1> DEFINE d == In(p, t)
<1>1. ASSUME NEW op, NEW reads, NEW writes PROVE ~IsCalc(d, op, reads, writes)
  BY DEF IsCalc, IsDispatch, Touches
<1>2. /\ p \notin Probes => Row(p, t[2], t[3], d)
      /\ p \in Probes => ProbeRow(p, t[2], t[3], d)
  BY TaskRow
<1> HIDE DEF d
<1>3. p \notin Probes =>
              \/ p \notin {"allscan_backward", "stub_forward"} /\ IsForward(p, t[2], d)
              \/ p \notin {"allscan", "forward", "stub_reverse"} /\ IsReverse(p, t[2], d)
  BY <1>1, <1>2 DEF Row, StageRow, GradORow, GradHRow, Programs
<1>4. p \in Probes =>
              \/ \E on \in {"forward", "reverse"} : IsSend(p, t[2], t[3], d, on)
              \/ \E on \in {"forward", "reverse"} : IsRecv(p, t[2], t[3], d, on)
              \/ IsJoined(p, t[2], t[3], d, "send_then_wait", "forward", "reverse")
              \/ IsJoined(p, t[2], t[3], d, "wait_then_send", "reverse", "forward")
  BY <1>1, <1>2 DEF ProbeRow
<1> QED
  BY <1>3, <1>4 DEF d

LEMMA CalcRow ==
  ASSUME NEW p \in Programs, NEW t \in TasksOf[p], ~Touches(In(p, t))
  PROVE  /\ p \notin Probes =>
              \/ \E op : IsCalc(In(p, t), op, {}, {"snaps", "S_local"})
              \/ IsCalc(In(p, t), "stage2", {"snaps", Boundary(p, t[2])}, {"O"})
              \/ GradORow(p, t[2], In(p, t))
              \/ p # "stub_reverse" /\ GradHRow(In(p, t), Adjoints)
              \/ p = "stub_reverse" /\ GradHRow(In(p, t), {"zero"})
         /\ p \in Probes =>
              \E x \in {<<"X", "T0">>, <<"T0", "T1">>, <<"T1", "T2">>, <<"T2", "T3">>} :
                IsCalc(In(p, t), "compute", {x[1]}, {x[2]})
<1> DEFINE d == In(p, t)
<1>1. ~IsForward(p, t[2], d) /\ ~IsReverse(p, t[2], d)
  BY ForwardStores, ReverseStoresAre
<1>2. \A on \in {"forward", "reverse"} : ~IsSend(p, t[2], t[3], d, on) /\ ~IsRecv(p, t[2], t[3], d, on)
  BY DEF IsSend, IsRecv, IsDispatch, Touches, None
<1>3. \A op, on, back : on \in {"forward", "reverse"} => ~IsJoined(p, t[2], t[3], d, op, on, back)
  BY DEF IsJoined, IsDispatch, Touches, None
<1>4. /\ p \notin Probes => Row(p, t[2], t[3], d)
      /\ p \in Probes => ProbeRow(p, t[2], t[3], d)
  BY TaskRow
<1> HIDE DEF d
<1>5. p \notin Probes =>
              \/ \E op : IsCalc(d, op, {}, {"snaps", "S_local"})
              \/ IsCalc(d, "stage2", {"snaps", Boundary(p, t[2])}, {"O"})
              \/ GradORow(p, t[2], d)
              \/ p # "stub_reverse" /\ GradHRow(d, Adjoints)
              \/ p = "stub_reverse" /\ GradHRow(d, {"zero"})
  BY <1>1, <1>4 DEF Row, StageRow, Programs
<1>6. p \in Probes =>
              \E x \in {<<"X", "T0">>, <<"T0", "T1">>, <<"T1", "T2">>, <<"T2", "T3">>} :
                IsCalc(d, "compute", {x[1]}, {x[2]})
  <2>1. p \in Probes =>
           \/ IsCalc(d, "compute", {"X"}, {"T0"})
           \/ IsCalc(d, "compute", {"T0"}, {"T1"})
           \/ IsCalc(d, "compute", {"T1"}, {"T2"})
           \/ IsCalc(d, "compute", {"T2"}, {"T3"})
    BY <1>2, <1>3, <1>4 DEF ProbeRow
  <2> QED
    BY <2>1
<1> QED
  BY <1>5, <1>6 DEF d

\* Only a dispatch that sends stores anything after its first step, and only
\* one of the reverse rings or of the probe that sends before it waits.
LEMMA Later ==
  ASSUME NEW p \in Programs, NEW t \in TasksOf[p], Touches(In(p, t))
  PROVE  /\ ~Sends(In(p, t)) => StoresLater(p, In(p, t)) = {}
         /\ ~Reduces(p, In(p, t)) /\ In(p, t).op # "send_then_wait" => StoresLater(p, In(p, t)) = {}
         /\ Reduces(p, In(p, t)) =>
              /\ p \notin Probes /\ IsReverse(p, t[2], In(p, t)) /\ t[2] # 0
              /\ StoresLater(p, In(p, t)) = {"dgamma"}
         /\ In(p, t).op = "send_then_wait" =>
              /\ p = "fusedcomm" /\ t[2] = 0 /\ ~Reduces(p, In(p, t))
              /\ In(p, t).wait = "reverse" /\ In(p, t).into = "Rb"
              /\ StoresLater(p, In(p, t)) = {"Rb"}
<1> DEFINE d == In(p, t)
           Good == /\ Reduces(p, d) => p \notin Probes /\ IsReverse(p, t[2], d) /\ t[2] # 0 /\ Sends(d)
                   /\ d.op = "send_then_wait" =>
                        p = "fusedcomm" /\ t[2] = 0 /\ d.wait = "reverse" /\ d.into = "Rb" /\ Sends(d)
<1>1. t[2] \in Ranks /\ P \in Nat /\ P >= 2
  BY TaskTyped, ProgramAssumption
<1>2. CASE p \notin Probes
  <2>1. IsForward(p, t[2], d) => Good
    BY DEF IsForward, IsDispatch, Reduces
  <2>2. IsReverse(p, t[2], d) => Good
    BY <1>1, <1>2 DEF IsReverse, IsDispatch, Reduces, Sends, None
  <2>3. Good
    <3> HIDE DEF Good, d
    <3> QED
      BY <1>2, <2>1, <2>2, CommRow DEF d
  <2> QED
    BY <2>3 DEF StoresLater, Reduces
<1>3. CASE p \in Probes
  <2>1. \A on \in {"forward", "reverse"} : IsSend(p, t[2], t[3], d, on) => Good
    BY <1>3 DEF IsSend, IsDispatch, Reduces
  <2>2. \A on \in {"forward", "reverse"} : IsRecv(p, t[2], t[3], d, on) => Good
    BY <1>3 DEF IsRecv, IsDispatch, Reduces
  <2>3. IsJoined(p, t[2], t[3], d, "send_then_wait", "forward", "reverse") => Good
    BY <1>3 DEF IsJoined, IsDispatch, Reduces, SendRank, Into, Sends, None
  <2>4. IsJoined(p, t[2], t[3], d, "wait_then_send", "reverse", "forward") => Good
    BY <1>3 DEF IsJoined, IsDispatch, Reduces
  <2>5. Good
    <3> HIDE DEF Good, d
    <3> QED
      BY <1>3, <2>1, <2>2, <2>3, <2>4, CommRow DEF d
  <2> QED
    BY <2>5 DEF StoresLater, Reduces
<1> QED
  BY <1>2, <1>3

-----------------------------------------------------------------------------
(* How far a dispatch is, before and after a step of its device *)

LEMMA WroteStay ==
  ASSUME PlaceInv, NEW r \in Ranks, NEW t \in Tasks, t = running[r], Touches(Does(t)),
         NEW b, b = blk[r], UNCHANGED <<program, tokens, done, running, blk>>,
         NEW x \in {"send", "notify", "await", "reduce"},
         pc' = [pc EXCEPT ![r] = x]
  PROVE  /\ \A u \in Tasks : \A n, k : Wrote(u, n, k)' =>
              \/ Wrote(u, n, k)
              \/ u = t /\ k = b /\ pc[r] = "receive" /\ n \in StoresFirst(program, Does(t))
         /\ \A u \in Tasks : \A k : Past(u, k) /\ pc[r] \notin {"await", "reduce"} => Past(u, k)'
         /\ x \in {"await", "reduce"} => Past(t, b)'
<1>1. pc'[r] = x /\ \A q \in Ranks : q # r => pc'[q] = pc[q]
  BY DEF PlaceInv, TypePlace
<1>2. t = running[r] /\ t[2] = r
  <2>1. running[r] # Nobody
    BY HostIs, TaskTyped DEF PlaceInv, Tasks
  <2> QED
    BY <2>1, Busy
<1>3. \A u \in Tasks : u[2] \in Ranks
  BY HostIs, TaskTyped DEF PlaceInv, Tasks
<1>4. \A u \in Tasks : \A n, k : Wrote(u, n, k)' =>
              \/ Wrote(u, n, k)
              \/ u = t /\ k = b /\ pc[r] = "receive" /\ n \in StoresFirst(program, Does(t))
  BY <1>1, <1>2, <1>3 DEF Wrote, Does
<1>5. \A u \in Tasks : \A k : Past(u, k) /\ pc[r] \notin {"await", "reduce"} => Past(u, k)'
  BY <1>1, <1>2, <1>3 DEF Past, Does
<1>6. x \in {"await", "reduce"} => Past(t, b)'
  BY <1>1, <1>2 DEF Past, Does
<1> QED
  BY <1>2, <1>4, <1>5, <1>6

LEMMA WroteNext ==
  ASSUME PlaceInv, NEW r \in Ranks, NEW t \in Tasks, t = running[r], Touches(Does(t)),
         NEW b, b = blk[r], UNCHANGED <<program, tokens>>, NextBlock(r)
  PROVE  /\ \A u \in Tasks : \A n \in Stores(program, Does(u)) : \A k \in Blocks : Wrote(u, n, k)' =>
              \/ Wrote(u, n, k)
              \/ u = t /\ k = b /\ (pc[r] = "receive" \/ n \in StoresLater(program, Does(t)))
         /\ \A u \in Tasks : \A k : Past(u, k) => Past(u, k)' \/ k \notin Blocks
         /\ Past(t, b)'
<1>a. running[r] # Nobody
  BY HostIs, TaskTyped DEF PlaceInv, Tasks
<1>1. t = running[r] /\ t[2] = r
  BY <1>a, Busy
<1>2. \A u \in Tasks : u[2] \in Ranks
  BY HostIs, TaskTyped DEF PlaceInv, Tasks
<1>3. PICK m \in Nat : Blocks = 0..m
  BY HostIs, BlocksAre DEF PlaceInv, Blocks
<1>4. b \in 0..m /\ b = blk[r]
  BY <1>a, <1>3, Busy
<1>5. t \notin done /\ \A q \in Ranks : q # r => running[q] # t
  BY <1>a, <1>1, Busy
<1>6. \A n \in Stores(program, Does(t)) :
        n \in StoresFirst(program, Does(t)) \/ n \in StoresLater(program, Does(t))
  BY <1>1 DEF Stores
<1>7. CASE b + 1 \notin 0..m
  <2>1. /\ \A q \in Ranks : q # r => running'[q] = running[q] /\ pc'[q] = pc[q]
        /\ running'[r] = Nobody /\ done' = done \cup {t} /\ blk' = blk
    BY <1>1, <1>3, <1>4, <1>7 DEF NextBlock, Idle, PlaceInv, TypePlace, InvPlaces
  <2>2. \A k \in Blocks : k < b \/ k = b
    BY <1>3, <1>4, <1>7
  <2>3. \A n \in Stores(program, Does(t)) : \A k \in Blocks :
          \/ Wrote(t, n, k)
          \/ k = b /\ (pc[r] = "receive" \/ n \in StoresLater(program, Does(t)))
    BY <1>1, <1>4, <1>6, <2>2 DEF Wrote
  <2>4. \A u \in Tasks : \A n, k : u # t /\ Wrote(u, n, k)' => Wrote(u, n, k)
    BY <1>1, <1>2, <2>1, HostIs, TaskTyped DEF Wrote, Does, PlaceInv, Tasks
  <2>5. \A u \in Tasks : \A k : Past(u, k) => Past(u, k)'
    BY <1>1, <1>2, <2>1 DEF Past, Does
  <2>6. Past(t, b)'
    BY <2>1 DEF Past
  <2> QED
    BY <1>1, <1>4, <2>3, <2>4, <2>5, <2>6
<1>8. CASE b + 1 \in 0..m
  <2>1. /\ blk' = [blk EXCEPT ![r] = b + 1] /\ pc' = [pc EXCEPT ![r] = "receive"]
        /\ UNCHANGED <<running, done>>
    BY <1>3, <1>4, <1>8 DEF NextBlock
  <2>2. /\ blk'[r] = b + 1 /\ pc'[r] = "receive"
        /\ \A q \in Ranks : q # r => blk'[q] = blk[q] /\ pc'[q] = pc[q]
    BY <2>1 DEF PlaceInv, TypePlace
  <2>3. \A k \in Blocks : k < b + 1 <=> k < b \/ k = b
    BY <1>3, <1>4
  <2>4. \A n \in Stores(program, Does(t)) : \A k \in Blocks : Wrote(t, n, k)' =>
          \/ Wrote(t, n, k)
          \/ k = b /\ (pc[r] = "receive" \/ n \in StoresLater(program, Does(t)))
    BY <1>1, <1>4, <1>5, <1>6, <2>1, <2>2, <2>3 DEF Wrote, Does
  <2>5. \A u \in Tasks : \A n, k : u # t /\ Wrote(u, n, k)' => Wrote(u, n, k)
    BY <1>1, <1>2, <2>1, <2>2 DEF Wrote, Does
  <2>6. \A u \in Tasks : \A k : u # t /\ Past(u, k) => Past(u, k)'
    BY <1>1, <1>2, <2>1, <2>2 DEF Past, Does
  <2>7. \A k \in Blocks : Past(t, k) => Past(t, k)'
    BY <1>1, <1>4, <2>1, <2>2, <2>3 DEF Past, Does
  <2>8. Past(t, b)'
    BY <1>1, <1>4, <2>1, <2>2 DEF Past, Does
  <2> QED
    BY <1>1, <1>4, <2>4, <2>5, <2>6, <2>7, <2>8
<1> QED
  BY <1>7, <1>8

-----------------------------------------------------------------------------
(* Contents *)

LEMMA NamedIn ==
  ASSUME NEW p \in Programs, NEW t \in TasksOf[p]
  PROVE  In(p, t).reads \subseteq NamesOf[p] /\ In(p, t).writes \subseteq NamesOf[p]
<1>1. NamesOf[p] = StagedOf(p) \cup OutputsOf(p) \cup
        UNION {LET d == Body[p][u[2]][u[3]] IN d.reads \cup d.writes : u \in TasksOf[p]}
  BY DEF NamesOf
<1> QED
  BY <1>1 DEF In

LEMMA MadeShape ==
  ASSUME NEW p, NEW n, NEW c, NEW r, NEW read
  PROVE  Made(p, n, c, r, read) = [k \in BlocksOf[p] |-> Made(p, n, c, r, read)[k]]
  BY DEF Made

LEMMA HoldsShape ==
  ASSUME NEW p, NEW n, NEW c, NEW r
  PROVE  Holds(p, n, c, r) = [k \in BlocksOf[p] |-> Holds(p, n, c, r)[k]]
<1>1. \A x, q : Doubled(p, x, c, q) = [k \in BlocksOf[p] |-> Doubled(p, x, c, q)[k]]
  BY MadeShape DEF Doubled
<1>2. /\ Blank(p) = [k \in BlocksOf[p] |-> Blank(p)[k]]
      /\ BoundaryOf(p, c, r) = [k \in BlocksOf[p] |-> BoundaryOf(p, c, r)[k]]
      /\ Promised(p, n, c, r) = [k \in BlocksOf[p] |-> Promised(p, n, c, r)[k]]
  <2>1. Blank(p) = [k \in BlocksOf[p] |-> Blank(p)[k]]
    BY DEF Blank
  <2>2. BoundaryOf(p, c, r) = [k \in BlocksOf[p] |-> BoundaryOf(p, c, r)[k]]
    BY DEF BoundaryOf
  <2>3. Promised(p, n, c, r) = [k \in BlocksOf[p] |-> Promised(p, n, c, r)[k]]
    <3>1. CASE n = "S_out"
      BY <3>1 DEF Promised
    <3>2. CASE n = "dS_total"
      BY <3>2 DEF Promised
    <3>3. CASE n = "dgamma"
      BY <3>3 DEF Promised
    <3>4. CASE n = "O"
      BY <3>4, MadeShape DEF Promised
    <3>5. CASE n \notin {"S_out", "dS_total", "dgamma", "O"}
      BY <3>5, MadeShape DEF Promised
    <3> QED
      BY <3>1, <3>2, <3>3, <3>4, <3>5
  <2> QED
    BY <2>1, <2>2, <2>3
<1>3. \/ \E x, q : Holds(p, n, c, r) = Doubled(p, x, c, q)
      \/ Holds(p, n, c, r) \in {Blank(p), BoundaryOf(p, c, r), Promised(p, n, c, r)}
      \/ \E read : Holds(p, n, c, r) = Made(p, n, c, r, read)
  <2> DEFINE h == Holds(p, n, c, r)
  <2>1. \/ h = Doubled(p, n, c, r) \/ h = Doubled(p, "T0", c, 0)
        \/ h = Doubled(p, BackPayload(p)[3], c, BackPayload(p)[4])
        \/ h = Blank(p) \/ h = BoundaryOf(p, c, r) \/ h = Promised(p, n, c, r)
        \/ h = Made(p, n, c, r, NothingRead) \/ h = Made(p, n, c, r, FromBoundary(p, c, r))
    BY DEF Holds
  <2> HIDE DEF h
  <2> QED
    BY <2>1 DEF h
<1> QED
  BY <1>1, <1>2, <1>3, MadeShape

\* A store into block b of tensors of dispatch t keeps the contents, when what
\* it stores is what the call calls for and nothing else counts as stored.
LEMMA ContentsStore ==
  ASSUME PlaceInv, TypeData, InvTensors, InvContents, active,
         NEW r \in Ranks, NEW t \in Tasks, t = running[r], Touches(Does(t)),
         NEW b, b = blk[r], UNCHANGED hostVars,
         NEW values, StoreBlock(t, values),
         DOMAIN values \subseteq Stores(program, Does(t)),
         \A n \in DOMAIN values : Tracked(n) => values[n] = Holds(program, n, calls, r)[b],
         \A u \in Tasks : \A n \in Stores(program, Does(u)) : \A k \in Blocks : Wrote(u, n, k)' =>
           Wrote(u, n, k) \/ (u = t /\ k = b /\ n \in DOMAIN values)
  PROVE  InvTensors' /\ InvContents' /\ DOMAIN tensors' = Keys'
<1> USE DEF hostVars
<1>1. /\ Tasks' = Tasks /\ Blocks' = Blocks /\ Keys' = Keys
      /\ program' = program /\ calls' = calls /\ active' = active
  BY Rigid
<1>2. /\ program \in Programs /\ t[2] = r /\ b \in Blocks
      /\ t[1] \in Rings
  <2>1. program \in Programs
    BY HostIs DEF PlaceInv
  <2>2. t # Nobody /\ t[1] \in Rings
    BY <2>1, TaskTyped DEF Tasks, Rings
  <2> QED
    BY <2>1, <2>2, Busy
<1>3. \A x \in Keys : tensors'[x] = IF x[1] \in DOMAIN values /\ x[2] = t[1] /\ x[3] = r
                                    THEN [tensors[x] EXCEPT ![b] = values[x[1]]] ELSE tensors[x]
  BY <1>2 DEF StoreBlock
<1>4. \A x \in Keys : tensors[x] = [k \in Blocks |-> tensors[x][k]]
  BY DEF InvTensors
<1>5. \A x \in Keys : \A k \in Blocks : tensors'[x][k] =
        IF x[1] \in DOMAIN values /\ x[2] = t[1] /\ x[3] = r /\ k = b THEN values[x[1]] ELSE tensors[x][k]
  BY <1>3, <1>4
<1>6. \A x \in Keys : tensors'[x] = [k \in Blocks |-> tensors'[x][k]]
  <2> SUFFICES ASSUME NEW x \in Keys PROVE tensors'[x] = [k \in Blocks |-> tensors'[x][k]]
    OBVIOUS
  <2>1. PICK f : f = tensors[x] /\ f = [k \in Blocks |-> f[k]]
    BY <1>4
  <2>2. tensors'[x] = [f EXCEPT ![b] = values[x[1]]] \/ tensors'[x] = f
    BY <1>3, <2>1
  <2>3. [f EXCEPT ![b] = values[x[1]]] = [k \in Blocks |-> [f EXCEPT ![b] = values[x[1]]][k]]
    BY <2>1
  <2> QED
    BY <2>1, <2>2, <2>3
<1>7. \A n \in DOMAIN values : Tracked(n) => ~Given(program, n, r)
  BY <1>2, StoresIn DEF Does, Tasks
<1>8. \A n \in DOMAIN values : ~Given(program, n, r)
  <2>1. \A n : ~Tracked(n) => ~Given(program, n, r)
    BY <1>2 DEF Tracked, Given, StagedOf, Programs, Probes
  <2> QED
    BY <1>7, <2>1
<1>9. \A x \in Keys : Given(program, x[1], x[3]) => tensors'[x] = tensors[x]
  BY <1>3, <1>8
<1>10. InvTensors'
  <2>1. \A x \in Keys : x[1] = "zero" => Given(program, x[1], x[3])
    BY DEF Given
  <2> QED
    BY <1>1, <1>6, <1>9, <2>1 DEF InvTensors
<1>11. \A u \in Tasks : \A n \in Stores(program, Does(u)) : <<n, u[1], u[2]>> \in Keys
  <2> SUFFICES ASSUME NEW u \in Tasks, NEW n \in Stores(program, Does(u)) PROVE <<n, u[1], u[2]>> \in Keys
    BY Zenon
  <2>1. n \in Names /\ u[1] \in Rings /\ u[2] \in Ranks
    BY <1>2, StoresIn, NamedIn, TaskTyped DEF Does, Tasks, Names, Rings
  <2> QED
    BY <2>1 DEF Keys
<1>12. ASSUME NEW u \in Tasks, NEW n \in Stores(program, Does(u)), NEW k \in Blocks,
              Tracked(n), Wrote(u, n, k)'
       PROVE  tensors'[<<n, u[1], u[2]>>][k] = Holds(program, n, calls, u[2])[k]
  <2>1. PICK x \in Keys : x = <<n, u[1], u[2]>>
    BY <1>11
  <2>2. CASE n \in DOMAIN values /\ u[1] = t[1] /\ u[2] = r /\ k = b
    BY <1>5, <1>12, <2>1, <2>2
  <2>3. CASE ~(n \in DOMAIN values /\ u[1] = t[1] /\ u[2] = r /\ k = b)
    <3>1. tensors'[x][k] = tensors[x][k]
      BY <1>5, <2>1, <2>3
    <3>2. Wrote(u, n, k)
      BY <1>2, <1>12, <2>3
    <3> QED
      BY <1>12, <2>1, <3>1, <3>2 DEF InvContents
  <2> QED
    BY <2>2, <2>3
<1>13. \A x \in Keys : Given(program, x[1], x[3]) => tensors'[x] = Holds(program, x[1], calls, x[3])
  BY <1>9 DEF InvContents
<1>14. InvContents'
  BY <1>1, <1>12, <1>13 DEF InvContents, Does
<1>15. DOMAIN tensors' = Keys
  BY DEF StoreBlock
<1> QED
  BY <1>1, <1>10, <1>14, <1>15

LEMMA ContentsFrame ==
  ASSUME InvTensors, InvContents, UNCHANGED <<hostVars, tensors>>,
         \A u \in Tasks : \A n \in Stores(program, Does(u)) : \A k \in Blocks :
           Wrote(u, n, k)' => Wrote(u, n, k)
  PROVE  InvTensors' /\ InvContents'
<1> USE DEF hostVars
<1>1. /\ Tasks' = Tasks /\ Blocks' = Blocks /\ Keys' = Keys
      /\ program' = program /\ calls' = calls /\ active' = active /\ tensors' = tensors
  BY Rigid
<1>2. InvTensors'
  BY <1>1 DEF InvTensors
<1>3. InvContents'
  BY <1>1 DEF InvContents, Does
<1> QED
  BY <1>2, <1>3

-----------------------------------------------------------------------------
(* The recurrences of the two scans *)

Up(x, g, r)        == {<<x[q], {g[j] : j \in (q + 1)..r}>> : q \in 0..r}
Down(x, g, s, r)   == {<<x[q], {g[j] : j \in (r + 1)..(q - s)}>> : q \in (r + s)..(P - 1)}

LEMMA UpStep ==
  ASSUME NEW x, NEW g, NEW r \in Nat
  PROVE  Up(x, g, r) = Leaf(x[r]) \cup Decay(g[r], Up(x, g, r - 1))
<1> DEFINE D(q, n) == {g[j] : j \in (q + 1)..n}
           T(q, n) == <<x[q], D(q, n)>>
           G(t)    == <<t[1], t[2] \cup {g[r]}>>
<1>1. D(r, r) = {}
  <2>1. (r + 1)..r = {}
    OBVIOUS
  <2> QED
    BY <2>1
<1>2. \A q \in 0..(r - 1) : D(q, r) = D(q, r - 1) \cup {g[r]}
  <2> SUFFICES ASSUME NEW q \in 0..(r - 1) PROVE D(q, r) = D(q, r - 1) \cup {g[r]}
    OBVIOUS
  <2>1. (q + 1)..r = ((q + 1)..(r - 1)) \cup {r}
    OBVIOUS
  <2> QED
    BY <2>1
<1>3. 0..r = (0..(r - 1)) \cup {r}
  OBVIOUS
<1>4. Up(x, g, r) = {T(q, r) : q \in 0..r} /\ Up(x, g, r - 1) = {T(q, r - 1) : q \in 0..(r - 1)}
  BY DEF Up
<1>5. Decay(g[r], Up(x, g, r - 1)) = {G(t) : t \in {T(q, r - 1) : q \in 0..(r - 1)}}
  BY <1>4 DEF Decay
<1>6. \A q \in 0..(r - 1) : T(q, r) = G(T(q, r - 1))
  BY <1>2
<1>7. T(r, r) = <<x[r], {}>>
  BY <1>1
<1> HIDE DEF T, G
<1>8. {G(t) : t \in {T(q, r - 1) : q \in 0..(r - 1)}} = {T(q, r) : q \in 0..(r - 1)}
  BY <1>6
<1>9. Leaf(x[r]) = {T(r, r)}
  BY <1>7 DEF Leaf
<1> QED
  BY <1>3, <1>4, <1>5, <1>8, <1>9

LEMMA DownStep ==
  ASSUME NEW x, NEW g, NEW s \in {0, 1}, NEW r \in Int, r + s <= P - 1
  PROVE  Down(x, g, s, r) = Leaf(x[r + s]) \cup Decay(g[r + 1], Down(x, g, s, r + 1))
<1> DEFINE D(q, n) == {g[j] : j \in (n + 1)..(q - s)}
           T(q, n) == <<x[q], D(q, n)>>
           G(t)    == <<t[1], t[2] \cup {g[r + 1]}>>
           N       == P - 1
<1>0. N \in Int
  BY ProgramAssumption
<1>a. \A n : Down(x, g, s, n) = {T(q, n) : q \in (n + s)..N}
  BY DEF Down
<1> HIDE DEF N
<1>b. r + s <= N
  BY DEF N
<1>1. D(r + s, r) = {}
  <2>1. (r + 1)..((r + s) - s) = {}
    OBVIOUS
  <2> QED
    BY <2>1
<1>2. \A q \in (r + 1 + s)..N : D(q, r) = D(q, r + 1) \cup {g[r + 1]}
  <2> SUFFICES ASSUME NEW q \in (r + 1 + s)..N PROVE D(q, r) = D(q, r + 1) \cup {g[r + 1]}
    OBVIOUS
  <2>1. (r + 1)..(q - s) = ((r + 1 + 1)..(q - s)) \cup {r + 1}
    BY <1>0
  <2> QED
    BY <2>1
<1>3. (r + s)..N = ((r + 1 + s)..N) \cup {r + s}
  BY <1>0, <1>b
<1>4. Down(x, g, s, r) = {T(q, r) : q \in (r + s)..N}
  BY <1>a
<1>5. Down(x, g, s, r + 1) = {T(q, r + 1) : q \in (r + 1 + s)..N}
  BY <1>a
<1>6. Decay(g[r + 1], Down(x, g, s, r + 1)) = {G(t) : t \in {T(q, r + 1) : q \in (r + 1 + s)..N}}
  BY <1>5 DEF Decay
<1>7. \A q \in (r + 1 + s)..N : T(q, r) = G(T(q, r + 1))
  BY <1>2
<1>8. T(r + s, r) = <<x[r + s], {}>>
  BY <1>1
<1> HIDE DEF T, G
<1>9. {G(t) : t \in {T(q, r + 1) : q \in (r + 1 + s)..N}} = {T(q, r) : q \in (r + 1 + s)..N}
  BY <1>7
<1>10. Leaf(x[r + s]) = {T(r + s, r)}
  BY <1>8 DEF Leaf
<1> QED
  BY <1>3, <1>4, <1>6, <1>9, <1>10

\* The decays of block k in call c, and the tensors the scans are built from.
Gammas(c, k)   == [j \in Int |-> <<c, j, k>>]
States(c, k)   == [q \in Int |-> <<"S_local", c, q, k, NothingRead>>]
Grads(p, c, k) ==
  [q \in Int |-> IF p \in Collectives THEN <<"g_out", c, q, k, NothingRead>>
                 ELSE <<"dS_recv", c, q, k, FromBoundary(p, c, q)>>]

LEMMA ScanOfIs ==
  ASSUME NEW c, NEW r \in Int, NEW k
  PROVE  ScanOf(c, r, k) = Up(States(c, k), Gammas(c, k), r)
<1> DEFINE S == States(c, k)
           G == Gammas(c, k)
<1>1. \A q \in 0..r : S[q] = <<"S_local", c, q, k, NothingRead>>
  BY DEF States
<1>2. \A q \in 0..r : {G[j] : j \in (q + 1)..r} = {<<c, j, k>> : j \in (q + 1)..r}
  <2>1. \A j \in Int : G[j] = <<c, j, k>>
    BY DEF Gammas
  <2> HIDE DEF G
  <2> QED
    BY <2>1
<1> HIDE DEF S, G
<1>3. ScanOf(c, r, k) = {<<S[q], {G[j] : j \in (q + 1)..r}>> : q \in 0..r}
  BY <1>1, <1>2 DEF ScanOf
<1> QED
  BY <1>3 DEF Up, S, G

LEMMA AdjointOfIs ==
  ASSUME NEW p, NEW c, NEW r \in Int, NEW k, NEW s \in {0, 1}, s = IF p \in Collectives THEN 0 ELSE 1
  PROVE  AdjointOf(p, c, r, k) = Down(Grads(p, c, k), Gammas(c, k), s, r)
<1> DEFINE S == Grads(p, c, k)
           G == Gammas(c, k)
<1>1. \A q \in Int : S[q] = IF p \in Collectives THEN <<"g_out", c, q, k, NothingRead>>
                            ELSE <<"dS_recv", c, q, k, FromBoundary(p, c, q)>>
  BY DEF Grads
<1>2. \A j \in Int : G[j] = <<c, j, k>>
  BY DEF Gammas
<1> HIDE DEF S, G
<1>3. P \in Int /\ P - 1 \in Int
  BY ProgramAssumption
<1>4. CASE p \in Collectives
  <2>1. \A q \in r..(P - 1) : {G[j] : j \in (r + 1)..q} = {<<c, j, k>> : j \in (r + 1)..q}
    BY <1>2, <1>3
  <2>2. AdjointOf(p, c, r, k) = {<<S[q], {G[j] : j \in (r + 1)..q}>> : q \in r..(P - 1)}
    <3> DEFINE A(q) == <<<<"g_out", c, q, k, NothingRead>>, {<<c, j, k>> : j \in (r + 1)..q}>>
               B(q) == <<S[q], {G[j] : j \in (r + 1)..q}>>
    <3>1. \A q \in r..(P - 1) : A(q) = B(q)
      BY <1>1, <1>3, <1>4, <2>1
    <3>2. AdjointOf(p, c, r, k) = {A(q) : q \in r..(P - 1)}
      BY <1>4 DEF AdjointOf
    <3> HIDE DEF A, B
    <3>3. AdjointOf(p, c, r, k) = {B(q) : q \in r..(P - 1)}
      BY <3>1, <3>2
    <3> QED
      BY <3>3 DEF B
  <2>3. \A q \in r..(P - 1) : q - s = q
    BY <1>3, <1>4
  <2>4. r + s = r
    BY <1>4
  <2> QED
    BY <2>2, <2>3, <2>4 DEF Down, S, G
<1>5. CASE p \notin Collectives
  <2>1. \A q \in (r + 1)..(P - 1) : {G[j] : j \in (r + 1)..(q - 1)} = {<<c, j, k>> : j \in (r + 1)..(q - 1)}
    <3> SUFFICES ASSUME NEW q \in (r + 1)..(P - 1)
                 PROVE  {G[j] : j \in (r + 1)..(q - 1)} = {<<c, j, k>> : j \in (r + 1)..(q - 1)}
      OBVIOUS
    <3>1. q - 1 \in Int
      BY <1>3
    <3>2. \A j \in (r + 1)..(q - 1) : G[j] = <<c, j, k>>
      BY <1>2, <3>1
    <3> QED
      BY <3>2
  <2>2. AdjointOf(p, c, r, k) = {<<S[q], {G[j] : j \in (r + 1)..(q - 1)}>> : q \in (r + 1)..(P - 1)}
    <3> DEFINE A(q) == <<<<"dS_recv", c, q, k, FromBoundary(p, c, q)>>, {<<c, j, k>> : j \in (r + 1)..(q - 1)}>>
               B(q) == <<S[q], {G[j] : j \in (r + 1)..(q - 1)}>>
    <3>1. \A q \in (r + 1)..(P - 1) : A(q) = B(q)
      BY <1>1, <1>3, <1>5, <2>1
    <3>2. AdjointOf(p, c, r, k) = {A(q) : q \in (r + 1)..(P - 1)}
      BY <1>5 DEF AdjointOf
    <3> HIDE DEF A, B
    <3>3. AdjointOf(p, c, r, k) = {B(q) : q \in (r + 1)..(P - 1)}
      BY <3>1, <3>2
    <3> QED
      BY <3>3 DEF B
  <2> QED
    BY <1>5, <2>2 DEF Down, S, G
<1> QED
  BY <1>4, <1>5

LEMMA ScanOfNone ==
  ASSUME NEW c, NEW k, NEW r \in Int, r < 0
  PROVE  ScanOf(c, r, k) = Zero
<1>1. 0..r = {}
  OBVIOUS
<1> QED
  BY <1>1 DEF ScanOf, Zero

\* out[r] = S_local[r] + gamma[r] * out[r - 1]
LEMMA ScanOfStep ==
  ASSUME NEW c, NEW r \in Nat, NEW k
  PROVE  ScanOf(c, r, k)
           = Leaf(<<"S_local", c, r, k, NothingRead>>) \cup Decay(<<c, r, k>>, ScanOf(c, r - 1, k))
<1>1. /\ ScanOf(c, r, k) = Up(States(c, k), Gammas(c, k), r)
      /\ ScanOf(c, r - 1, k) = Up(States(c, k), Gammas(c, k), r - 1)
  BY ScanOfIs
<1>2. States(c, k)[r] = <<"S_local", c, r, k, NothingRead>> /\ Gammas(c, k)[r] = <<c, r, k>>
  BY DEF States, Gammas
<1> QED
  BY <1>1, <1>2, UpStep

\* d[r] = g_out[r] + gamma[r + 1] * d[r + 1]
LEMMA AdjointStep ==
  ASSUME NEW p \in Collectives, NEW c, NEW r \in Int, NEW k, r <= P - 1
  PROVE  AdjointOf(p, c, r, k)
           = Leaf(<<"g_out", c, r, k, NothingRead>>) \cup Decay(<<c, r + 1, k>>, AdjointOf(p, c, r + 1, k))
<1>1. /\ AdjointOf(p, c, r, k) = Down(Grads(p, c, k), Gammas(c, k), 0, r)
      /\ AdjointOf(p, c, r + 1, k) = Down(Grads(p, c, k), Gammas(c, k), 0, r + 1)
  BY AdjointOfIs
<1>2. /\ Gammas(c, k)[r + 1] = <<c, r + 1, k>>
      /\ Grads(p, c, k)[r + 0] = <<"g_out", c, r, k, NothingRead>>
  BY DEF Gammas, Grads
<1>3. Down(Grads(p, c, k), Gammas(c, k), 0, r)
        = Leaf(Grads(p, c, k)[r + 0]) \cup Decay(Gammas(c, k)[r + 1], Down(Grads(p, c, k), Gammas(c, k), 0, r + 1))
  <2>1. r + 0 <= P - 1
    OBVIOUS
  <2> QED
    BY <2>1, DownStep
<1> QED
  BY <1>1, <1>2, <1>3

\* Nothing comes from behind the last rank.
LEMMA AdjointNone ==
  ASSUME NEW p, NEW c, NEW r \in Int, NEW k,
         r >= IF p \in Collectives THEN P ELSE P - 1
  PROVE  AdjointOf(p, c, r, k) = Zero
<1>1. P \in Int
  BY ProgramAssumption
<1>2. CASE p \in Collectives
  <2>1. r..(P - 1) = {}
    BY <1>1, <1>2
  <2> QED
    BY <1>2, <2>1 DEF AdjointOf, Zero
<1>3. CASE p \notin Collectives
  <2>1. (r + 1)..(P - 1) = {}
    BY <1>1, <1>3
  <2> QED
    BY <1>3, <2>1 DEF AdjointOf, Zero
<1> QED
  BY <1>2, <1>3

\* The fused ring hands on d[r] = dS_recv[r + 1] + gamma[r + 1] * d[r + 1].
LEMMA AdjointFused ==
  ASSUME NEW p, p \notin Collectives, NEW c, NEW r \in Int, NEW k, r < P - 1
  PROVE  AdjointOf(p, c, r, k) = Leaf(<<"dS_recv", c, r + 1, k, FromBoundary(p, c, r + 1)>>)
                                   \cup Decay(<<c, r + 1, k>>, AdjointOf(p, c, r + 1, k))
<1>1. /\ AdjointOf(p, c, r, k) = Down(Grads(p, c, k), Gammas(c, k), 1, r)
      /\ AdjointOf(p, c, r + 1, k) = Down(Grads(p, c, k), Gammas(c, k), 1, r + 1)
  BY AdjointOfIs
<1>2. /\ Gammas(c, k)[r + 1] = <<c, r + 1, k>>
      /\ Grads(p, c, k)[r + 1] = <<"dS_recv", c, r + 1, k, FromBoundary(p, c, r + 1)>>
  BY DEF Gammas, Grads
<1>3. Down(Grads(p, c, k), Gammas(c, k), 1, r)
        = Leaf(Grads(p, c, k)[r + 1]) \cup Decay(Gammas(c, k)[r + 1], Down(Grads(p, c, k), Gammas(c, k), 1, r + 1))
  <2>1. r + 1 <= P - 1
    BY ProgramAssumption
  <2> QED
    BY <2>1, DownStep
<1> QED
  BY <1>1, <1>2, <1>3

-----------------------------------------------------------------------------
(* What the dispatches compute is what the call calls for *)

LEMMA HoldsIs ==
  ASSUME NEW p \in Programs, NEW c, NEW r
  PROVE  /\ Holds(p, "S_local", c, r) = Made(p, "S_local", c, r, NothingRead)
         /\ Holds(p, "snaps", c, r) = SnapsOf(p, c, r)
         /\ Holds(p, "g_out", c, r) = Made(p, "g_out", c, r, NothingRead)
         /\ Holds(p, "X", c, r) = Made(p, "X", c, r, NothingRead)
         /\ r # 0 => Holds(p, "out_prev", c, r) = Made(p, "out_prev", c, r, NothingRead)
         /\ r = 0 => Holds(p, "out_prev", c, r) = Blank(p)
         /\ Holds(p, "zero", c, r) = Blank(p)
         /\ Holds(p, "S_recv", c, r) = BoundaryOf(p, c, r)
         /\ Holds(p, "partials", c, r) = Made(p, "partials", c, r, FromBoundary(p, c, r))
         /\ Holds(p, "dS_recv", c, r) = Made(p, "dS_recv", c, r, FromBoundary(p, c, r))
         /\ Holds(p, "S_out", c, r) = [k \in BlocksOf[p] |-> ScanOf(c, r, k)]
         /\ Holds(p, "dS_total", c, r) = [k \in BlocksOf[p] |-> AdjointOf(p, c, r, k)]
         /\ Holds(p, "dgamma", c, r) = [k \in BlocksOf[p] |-> GammaGradOf(p, c, r, k)]
         /\ Holds(p, "O", c, r) = Made(p, "O", c, r, FromBoundary(p, c, r))
         /\ Holds(p, "grads", c, r) = Made(p, "grads", c, r, GradsRead(p, c, r))
         /\ Holds(p, "T0", c, r) = Doubled(p, "T0", c, r)
         /\ Holds(p, "T1", c, r) = Doubled(p, "T1", c, r)
         /\ Holds(p, "Rf", c, r) = Doubled(p, "T0", c, 0)
         /\ Holds(p, "Rb", c, r) = Doubled(p, BackPayload(p)[3], c, BackPayload(p)[4])
<1>1. /\ Holds(p, "S_local", c, r) = Made(p, "S_local", c, r, NothingRead)
      /\ Holds(p, "snaps", c, r) = SnapsOf(p, c, r)
      /\ Holds(p, "g_out", c, r) = Made(p, "g_out", c, r, NothingRead)
      /\ Holds(p, "X", c, r) = Made(p, "X", c, r, NothingRead)
      /\ r # 0 => Holds(p, "out_prev", c, r) = Made(p, "out_prev", c, r, NothingRead)
      /\ r = 0 => Holds(p, "out_prev", c, r) = Blank(p)
      /\ Holds(p, "zero", c, r) = Blank(p)
      /\ Holds(p, "S_recv", c, r) = BoundaryOf(p, c, r)
      /\ Holds(p, "partials", c, r) = Made(p, "partials", c, r, FromBoundary(p, c, r))
      /\ Holds(p, "dS_recv", c, r) = Made(p, "dS_recv", c, r, FromBoundary(p, c, r))
  <2>1. Holds(p, "S_local", c, r) = Made(p, "S_local", c, r, NothingRead)
    BY DEF Holds
  <2>2. Holds(p, "snaps", c, r) = SnapsOf(p, c, r)
    BY DEF Holds, SnapsOf
  <2>3. Holds(p, "g_out", c, r) = Made(p, "g_out", c, r, NothingRead)
    BY DEF Holds
  <2>4. Holds(p, "X", c, r) = Made(p, "X", c, r, NothingRead)
    BY DEF Holds
  <2>5. r # 0 => Holds(p, "out_prev", c, r) = Made(p, "out_prev", c, r, NothingRead)
    BY DEF Holds
  <2>6. r = 0 => Holds(p, "out_prev", c, r) = Blank(p)
    BY DEF Holds
  <2>7. Holds(p, "zero", c, r) = Blank(p)
    BY DEF Holds
  <2>8. Holds(p, "S_recv", c, r) = BoundaryOf(p, c, r)
    BY DEF Holds
  <2>9. Holds(p, "partials", c, r) = Made(p, "partials", c, r, FromBoundary(p, c, r))
    BY DEF Holds
  <2>10. Holds(p, "dS_recv", c, r) = Made(p, "dS_recv", c, r, FromBoundary(p, c, r))
    BY DEF Holds
  <2> QED
    BY <2>1, <2>2, <2>3, <2>4, <2>5, <2>6, <2>7, <2>8, <2>9, <2>10
<1>2. /\ Holds(p, "S_out", c, r) = Promised(p, "S_out", c, r)
      /\ Holds(p, "dS_total", c, r) = Promised(p, "dS_total", c, r)
      /\ Holds(p, "dgamma", c, r) = Promised(p, "dgamma", c, r)
      /\ Holds(p, "O", c, r) = Promised(p, "O", c, r)
      /\ Holds(p, "grads", c, r) = Promised(p, "grads", c, r)
  BY DEF Holds
<1>3. /\ Holds(p, "T0", c, r) = Doubled(p, "T0", c, r)
      /\ Holds(p, "T1", c, r) = Doubled(p, "T1", c, r)
      /\ Holds(p, "Rf", c, r) = Doubled(p, "T0", c, 0)
      /\ Holds(p, "Rb", c, r) = Doubled(p, BackPayload(p)[3], c, BackPayload(p)[4])
  BY DEF Holds
<1>4. /\ Promised(p, "S_out", c, r) = [k \in BlocksOf[p] |-> ScanOf(c, r, k)]
      /\ Promised(p, "dS_total", c, r) = [k \in BlocksOf[p] |-> AdjointOf(p, c, r, k)]
      /\ Promised(p, "dgamma", c, r) = [k \in BlocksOf[p] |-> GammaGradOf(p, c, r, k)]
      /\ Promised(p, "O", c, r) = Made(p, "O", c, r, FromBoundary(p, c, r))
      /\ Promised(p, "grads", c, r) = Made(p, "grads", c, r, GradsRead(p, c, r))
  BY DEF Promised
<1> QED
  BY <1>1, <1>2, <1>3, <1>4

LEMMA BoundaryHeld ==
  ASSUME NEW p \in Programs, NEW c, NEW r
  PROVE  Holds(p, Boundary(p, r), c, r) = BoundaryOf(p, c, r)
<1>1. CASE Boundary(p, r) = "zero"
  <2>1. BoundaryOf(p, c, r) = Blank(p)
    BY <1>1 DEF BoundaryOf, Blank
  <2> QED
    BY <1>1, <2>1, HoldsIs
<1>2. CASE Boundary(p, r) # "zero"
  <2>1. Boundary(p, r) = "S_recv"
    BY <1>2 DEF Boundary
  <2> QED
    BY <2>1, HoldsIs
<1> QED
  BY <1>1, <1>2

\* stage1 and recompute read nothing, stage2 and grad_o the boundary state,
\* grad_h what the reverse ring brought.
LEMMA Computed ==
  ASSUME NEW p \in Programs, NEW t \in TasksOf[p], ~Touches(In(p, t)),
         NEW n \in In(p, t).writes, Tracked(n), NEW c,
         NEW read, read = [m \in In(p, t).reads |-> read[m]],
         \A m \in In(p, t).reads : Tracked(m) => read[m] = Holds(p, m, c, t[2])
  PROVE  Made(p, n, c, t[2], read) = Holds(p, n, c, t[2])
<1> DEFINE d == In(p, t)
           r == t[2]
           Good == Made(p, n, c, r, read) = Holds(p, n, c, r)
<1>0. /\ n \in d.writes /\ read = [m \in d.reads |-> read[m]]
      /\ \A m \in d.reads : Tracked(m) => read[m] = Holds(p, m, c, r)
  OBVIOUS
<1> HIDE DEF d, r
<1>1. ASSUME NEW op, IsCalc(d, op, {}, {"snaps", "S_local"}) PROVE Good
  <2>1. d.reads = {} /\ n \in {"snaps", "S_local"}
    BY <1>0, <1>1 DEF IsCalc, IsDispatch
  <2>2. read = NothingRead
    <3>1. read = [m \in {} |-> read[m]]
      BY <1>0, <2>1
    <3> QED
      BY <3>1 DEF NothingRead
  <2> QED
    BY <2>1, <2>2, HoldsIs DEF SnapsOf
<1>2. ASSUME d.reads = {"snaps", Boundary(p, r)} PROVE read = FromBoundary(p, c, r)
  <2>1. "snaps" \in d.reads /\ Tracked("snaps") /\ Boundary(p, r) \in d.reads
    BY <1>2 DEF Tracked
  <2>2. Tracked(Boundary(p, r)) /\ Boundary(p, r) # "snaps"
    BY DEF Boundary, Tracked
  <2>3. read["snaps"] = SnapsOf(p, c, r) /\ read[Boundary(p, r)] = BoundaryOf(p, c, r)
    <3>1. Holds(p, "snaps", c, r) = SnapsOf(p, c, r) /\ Holds(p, Boundary(p, r), c, r) = BoundaryOf(p, c, r)
      BY HoldsIs, BoundaryHeld
    <3> QED
      BY <1>0, <2>1, <2>2, <3>1
  <2>4. read = [m \in {"snaps", Boundary(p, r)} |-> read[m]]
    BY <1>0, <1>2
  <2>5. \A m \in {"snaps", Boundary(p, r)} :
          read[m] = IF m = "snaps" THEN SnapsOf(p, c, r) ELSE BoundaryOf(p, c, r)
    BY <2>2, <2>3
  <2> QED
    BY <2>4, <2>5 DEF FromBoundary
<1>3. IsCalc(d, "stage2", {"snaps", Boundary(p, r)}, {"O"}) => Good
  <2> SUFFICES ASSUME IsCalc(d, "stage2", {"snaps", Boundary(p, r)}, {"O"}) PROVE Good
    OBVIOUS
  <2>1. d.reads = {"snaps", Boundary(p, r)} /\ n = "O"
    BY <1>0 DEF IsCalc, IsDispatch
  <2> QED
    BY <1>2, <2>1, HoldsIs
<1>4. GradORow(p, r, d) => Good
  <2> SUFFICES ASSUME GradORow(p, r, d) PROVE Good
    OBVIOUS
  <2>1. d.reads = {"snaps", Boundary(p, r)} /\ n \in {"partials", "dS_recv"}
    BY <1>0 DEF GradORow, IsCalc, IsDispatch
  <2> QED
    BY <1>2, <2>1, HoldsIs
<1>5. ASSUME NEW ends, GradHRow(d, ends), ends = IF p = "stub_reverse" THEN {"zero"} ELSE Adjoints
      PROVE  Good
  <2>1. d.reads = {"snaps", "partials"} \cup ends /\ n = "grads"
    BY <1>0, <1>5 DEF GradHRow, IsCalc, IsDispatch
  <2> DEFINE Value(m) ==
        CASE m = "snaps"    -> SnapsOf(p, c, r)
          [] m = "partials" -> Made(p, "partials", c, r, FromBoundary(p, c, r))
          [] m = "dS_total" -> [k \in BlocksOf[p] |-> AdjointOf(p, c, r, k)]
          [] m = "dgamma"   -> [k \in BlocksOf[p] |-> GammaGradOf(p, c, r, k)]
          [] OTHER          -> Blank(p)
  <2>2. \A m \in d.reads : m \in {"snaps", "partials", "dS_total", "dgamma", "zero"} /\ Tracked(m)
    BY <1>5, <2>1 DEF Adjoints, Tracked
  <2>3. \A m \in d.reads : Holds(p, m, c, r) = Value(m)
    BY <2>2, HoldsIs
  <2>4. \A m \in d.reads : read[m] = Value(m)
    <3> HIDE DEF Value
    <3> QED
      BY <1>0, <2>2, <2>3
  <2>5. read = [m \in d.reads |-> Value(m)]
    <3> HIDE DEF Value
    <3> QED
      BY <1>0, <2>4
  <2>6. read = GradsRead(p, c, r)
    BY <1>5, <2>1, <2>5 DEF GradsRead
  <2> QED
    BY <2>1, <2>6, HoldsIs
<1>6. ASSUME NEW x, NEW y, <<x, y>> = <<"X", "T0">> \/ <<x, y>> = <<"T0", "T1">> \/ y \in {"T2", "T3"},
             IsCalc(d, "compute", {x}, {y})
      PROVE  Good
  <2>1. d.reads = {x} /\ n = y
    BY <1>0, <1>6 DEF IsCalc, IsDispatch
  <2>2. (x = "X" /\ n = "T0") \/ (x = "T0" /\ n = "T1")
    BY <1>6, <2>1 DEF Tracked
  <2>3. read = [m \in {x} |-> Holds(p, m, c, r)]
    BY <1>0, <2>1, <2>2 DEF Tracked
  <2>4. CASE x = "X" /\ n = "T0"
    <3>1. read = [m \in {"X"} |-> Made(p, "X", c, r, NothingRead)]
      BY <2>3, <2>4, HoldsIs
    <3>2. Doubled(p, "T0", c, r) = Made(p, "T0", c, r, read)
      BY <3>1 DEF Doubled
    <3>3. Holds(p, "T0", c, r) = Doubled(p, "T0", c, r)
      BY HoldsIs
    <3> QED
      BY <2>4, <3>2, <3>3
  <2>5. CASE x = "T0" /\ n = "T1"
    <3>1. read = [m \in {"T0"} |-> Doubled(p, "T0", c, r)]
      BY <2>3, <2>5, HoldsIs
    <3>2. read = [m \in {"T0"} |-> Made(p, "T0", c, r, [q \in {"X"} |-> Made(p, "X", c, r, NothingRead)])]
      BY <3>1 DEF Doubled
    <3>3. Doubled(p, "T1", c, r) = Made(p, "T1", c, r, read)
      BY <3>2 DEF Doubled
    <3>4. Holds(p, "T1", c, r) = Doubled(p, "T1", c, r)
      BY HoldsIs
    <3> QED
      BY <2>5, <3>3, <3>4
  <2> QED
    BY <2>2, <2>4, <2>5
<1>7. /\ p \notin Probes =>
           \/ \E op : IsCalc(d, op, {}, {"snaps", "S_local"})
           \/ IsCalc(d, "stage2", {"snaps", Boundary(p, r)}, {"O"})
           \/ GradORow(p, r, d)
           \/ p # "stub_reverse" /\ GradHRow(d, Adjoints)
           \/ p = "stub_reverse" /\ GradHRow(d, {"zero"})
      /\ p \in Probes =>
           \E x \in {<<"X", "T0">>, <<"T0", "T1">>, <<"T1", "T2">>, <<"T2", "T3">>} :
             IsCalc(d, "compute", {x[1]}, {x[2]})
  BY CalcRow DEF d, r
<1>8. Good
  <2> HIDE DEF Good
  <2>1. CASE p \notin Probes
    BY <1>1, <1>3, <1>4, <1>5, <1>7, <2>1
  <2>2. CASE p \in Probes
    <3>1. PICK x \in {<<"X", "T0">>, <<"T0", "T1">>, <<"T1", "T2">>, <<"T2", "T3">>} :
            IsCalc(d, "compute", {x[1]}, {x[2]})
      BY <1>7, <2>2
    <3>2. PICK y, z : y = x[1] /\ z = x[2]
      OBVIOUS
    <3>3. <<y, z>> = <<"X", "T0">> \/ <<y, z>> = <<"T0", "T1">> \/ z \in {"T2", "T3"}
      BY <3>2
    <3>4. IsCalc(d, "compute", {y}, {z})
      BY <3>1, <3>2
    <3> QED
      BY <1>6, <3>3, <3>4
  <2> QED
    BY <2>1, <2>2
<1> QED
  BY <1>8 DEF r

\* A forward rank: out[r] of what it received, and what it keeps of it.
LEMMA ForwardValue ==
  ASSUME NEW p \in Programs \ Probes, NEW r \in Ranks, NEW d, IsForward(p, r, d),
         p # "stub_forward", NEW c, NEW k \in BlocksOf[p], NEW got, got = Got(p, c, d, r, k),
         NEW own, own = Holds(p, "S_local", c, r)[k]
  PROVE  /\ own \cup Decay(<<c, r, k>>, got) = ScanOf(c, r, k)
         /\ \A n \in d.writes :
              (IF n = "S_out" THEN own \cup Decay(<<c, r, k>>, got) ELSE got) = Holds(p, n, c, r)[k]
<1>1. /\ own = Leaf(<<"S_local", c, r, k, NothingRead>>)
      /\ r \in Nat
  <2>1. Made(p, "S_local", c, r, NothingRead)[k] = Leaf(<<"S_local", c, r, k, NothingRead>>)
    BY DEF Made
  <2>2. Holds(p, "S_local", c, r) = Made(p, "S_local", c, r, NothingRead)
    BY HoldsIs
  <2> QED
    BY <2>1, <2>2, ProgramAssumption DEF Ranks
<1>2. got = ScanOf(c, r - 1, k)
  <2>1. CASE r = 0
    <3>1. d.wait = None
      BY <2>1 DEF IsForward, IsDispatch
    <3>2. got = Zero
      BY <3>1 DEF Got, Waits
    <3>3. PICK q \in Int : q = r - 1 /\ q < 0
      BY <1>1, <2>1
    <3>4. ScanOf(c, q, k) = Zero
      BY <3>3, ScanOfNone
    <3> QED
      BY <3>2, <3>3, <3>4
  <2>2. CASE r # 0
    <3>1. Waits(d) /\ d.wait = "forward"
      BY <2>2 DEF IsForward, IsDispatch, Waits, None
    <3>2. got = Owed(p, c, "forward", r, k)
      BY <3>1 DEF Got
    <3> QED
      BY <3>2 DEF Owed
  <2> QED
    BY <2>1, <2>2
<1>3. own \cup Decay(<<c, r, k>>, got) = ScanOf(c, r, k)
  <2>1. ScanOf(c, r, k) = Leaf(<<"S_local", c, r, k, NothingRead>>) \cup Decay(<<c, r, k>>, ScanOf(c, r - 1, k))
    BY <1>1, ScanOfStep
  <2> QED
    BY <1>1, <1>2, <2>1
<1>4. Holds(p, "S_out", c, r)[k] = ScanOf(c, r, k)
  <2>1. Holds(p, "S_out", c, r) = [j \in BlocksOf[p] |-> ScanOf(c, r, j)]
    BY HoldsIs
  <2> QED
    BY <2>1
<1>5. r # 0 /\ p # "stub_forward" => Holds(p, "S_recv", c, r)[k] = ScanOf(c, r - 1, k)
  <2> SUFFICES ASSUME r # 0, p # "stub_forward" PROVE Holds(p, "S_recv", c, r)[k] = ScanOf(c, r - 1, k)
    OBVIOUS
  <2>1. Boundary(p, r) # "zero"
    BY DEF Boundary
  <2>2. BoundaryOf(p, c, r)[k] = ScanOf(c, r - 1, k)
    BY <2>1 DEF BoundaryOf
  <2>3. Holds(p, "S_recv", c, r) = BoundaryOf(p, c, r)
    BY HoldsIs
  <2> QED
    BY <2>2, <2>3
<1>6. ASSUME NEW n \in d.writes
      PROVE  n = "S_out" \/ (n = "S_recv" /\ r # 0)
  BY <1>6, ForwardStores
<1> QED
  BY <1>2, <1>3, <1>4, <1>5, <1>6

\* The message of a forward rank is what its successor is owed.
LEMMA ForwardOwed ==
  ASSUME NEW p \in Programs \ Probes, NEW c, NEW r \in Int, NEW k
  PROVE  Owed(p, c, "forward", r + 1, k) = ScanOf(c, r, k)
<1>1. (r + 1) - 1 = r
  OBVIOUS
<1> QED
  BY <1>1 DEF Owed

\* What a forward rank adds up, and what a reverse rank takes for d.
SumOf(p, c, d, r, k) == Holds(p, "S_local", c, r)[k] \cup Decay(<<c, r, k>>, Got(p, c, d, r, k))
AdjOf(p, c, d, r, k) ==
  IF p \in Collectives THEN Holds(p, "g_out", c, r)[k] \cup Got(p, c, d, r, k) ELSE Got(p, c, d, r, k)

\* A reverse rank: d[r] of what it received, its dgamma, and its message.
\* What dgamma is reduced with: out[r - 1].
PreviousName(p, r) == IF p \in Collectives THEN "out_prev" ELSE Boundary(p, r)
Pairs(x, y) == x \X y

LEMMA ReverseValue ==
  ASSUME NEW p \in Programs \ Probes, NEW r \in Ranks, NEW d, IsReverse(p, r, d),
         NEW c, NEW k \in BlocksOf[p], NEW got, got = Got(p, c, d, r, k),
         NEW adj, adj = AdjOf(p, c, d, r, k)
  PROVE  /\ adj = Holds(p, "dS_total", c, r)[k]
         /\ p \notin Collectives /\ ~Reduces(p, d) => Holds(p, "dgamma", c, r)[k] = Zero
         /\ Reduces(p, d) => Holds(p, "dgamma", c, r)[k] =
              Pairs(adj, Holds(p, PreviousName(p, r), c, r)[k])
<1> DEFINE A == AdjointOf(p, c, r, k)
<1>0. adj = IF p \in Collectives THEN Holds(p, "g_out", c, r)[k] \cup got ELSE got
  BY DEF AdjOf
<1>1. r \in Int /\ r >= 0 /\ r <= P - 1 /\ P \in Int /\ P >= 2
  BY ProgramAssumption DEF Ranks
<1>2. /\ r = P - 1 => ~Waits(d)
      /\ r # P - 1 => Waits(d) /\ d.wait = "reverse"
  BY DEF IsReverse, IsDispatch, Waits, None
<1>3. /\ r = P - 1 => got = Zero
      /\ r # P - 1 => got = Owed(p, c, "reverse", r, k)
  BY <1>2 DEF Got
<1>4. /\ Holds(p, "dS_total", c, r)[k] = A
      /\ Holds(p, "dgamma", c, r)[k] = GammaGradOf(p, c, r, k)
  <2>1. /\ Holds(p, "dS_total", c, r) = [j \in BlocksOf[p] |-> AdjointOf(p, c, r, j)]
        /\ Holds(p, "dgamma", c, r) = [j \in BlocksOf[p] |-> GammaGradOf(p, c, r, j)]
    BY HoldsIs
  <2> QED
    BY <2>1
<1>5. adj = A
  <2>1. CASE p \in Collectives
    <3>1. Holds(p, "g_out", c, r)[k] = Leaf(<<"g_out", c, r, k, NothingRead>>)
      <4>1. Made(p, "g_out", c, r, NothingRead)[k] = Leaf(<<"g_out", c, r, k, NothingRead>>)
        BY DEF Made
      <4> QED
        BY <4>1, HoldsIs
    <3>2. A = Leaf(<<"g_out", c, r, k, NothingRead>>) \cup Decay(<<c, r + 1, k>>, AdjointOf(p, c, r + 1, k))
      BY <1>1, <2>1, AdjointStep
    <3>3. got = Decay(<<c, r + 1, k>>, AdjointOf(p, c, r + 1, k))
      <4>1. CASE r = P - 1
        <5>1. AdjointOf(p, c, r + 1, k) = Zero
          BY <1>1, <2>1, <4>1, AdjointNone
        <5>2. Decay(<<c, r + 1, k>>, Zero) = Zero
          BY DEF Decay, Zero
        <5> QED
          BY <1>3, <4>1, <5>1, <5>2
      <4>2. CASE r # P - 1
        BY <1>3, <2>1, <4>2 DEF Owed
      <4> QED
        BY <4>1, <4>2
    <3> QED
      BY <1>0, <2>1, <3>1, <3>2, <3>3
  <2>2. CASE p \notin Collectives
    <3>1. CASE r = P - 1
      <4>1. A = Zero
        BY <1>1, <2>2, <3>1, AdjointNone
      <4> QED
        BY <1>0, <1>3, <2>2, <3>1, <4>1
    <3>2. CASE r # P - 1
      BY <1>0, <1>3, <2>2, <3>2 DEF Owed
    <3> QED
      BY <3>1, <3>2
  <2> QED
    BY <2>1, <2>2
<1>6. p \notin Collectives /\ ~Reduces(p, d) => GammaGradOf(p, c, r, k) = Zero
  <2> SUFFICES ASSUME p \notin Collectives, ~Reduces(p, d) PROVE GammaGradOf(p, c, r, k) = Zero
    OBVIOUS
  <2>1. r = P - 1 \/ r = 0
    BY DEF IsReverse, IsDispatch, Reduces
  <2>2. CASE r = P - 1
    <3>1. A = Zero
      BY <1>1, <2>2, AdjointNone
    <3> QED
      BY <3>1 DEF GammaGradOf, Zero
  <2>3. CASE r = 0
    BY <2>3 DEF GammaGradOf, Zero
  <2> QED
    BY <2>1, <2>2, <2>3
<1>7. Reduces(p, d) => GammaGradOf(p, c, r, k) =
              Pairs(A, Holds(p, PreviousName(p, r), c, r)[k])
  <2> SUFFICES ASSUME Reduces(p, d)
               PROVE  GammaGradOf(p, c, r, k) =
                        Pairs(A, Holds(p, PreviousName(p, r), c, r)[k])
    OBVIOUS
  <2>1. r # 0
    BY <1>1 DEF IsReverse, IsDispatch, Reduces
  <2>2. CASE p \in Collectives
    <3>1. Made(p, "out_prev", c, r, NothingRead)[k] = Leaf(<<"out_prev", c, r, k, NothingRead>>)
      BY DEF Made
    <3>2. Holds(p, "out_prev", c, r) = Made(p, "out_prev", c, r, NothingRead)
      BY <2>1, HoldsIs
    <3>3. GammaGradOf(p, c, r, k) = Pairs(A, Leaf(<<"out_prev", c, r, k, NothingRead>>))
      BY <2>1, <2>2 DEF GammaGradOf, Pairs
    <3> QED
      BY <2>2, <3>1, <3>2, <3>3 DEF PreviousName
  <2>3. CASE p \notin Collectives
    <3>1. Holds(p, Boundary(p, r), c, r) = BoundaryOf(p, c, r)
      BY BoundaryHeld
    <3>2. GammaGradOf(p, c, r, k) = Pairs(A, BoundaryOf(p, c, r)[k])
      BY <2>1, <2>3 DEF GammaGradOf, Pairs
    <3> QED
      BY <2>3, <3>1, <3>2 DEF PreviousName
  <2> QED
    BY <2>2, <2>3
<1> HIDE DEF A
<1> QED
  BY <1>4, <1>5, <1>6, <1>7

LEMMA ForwardSum ==
  ASSUME NEW p \in Programs, p \notin Probes, NEW r \in Ranks, NEW d, IsForward(p, r, d),
         p # "stub_forward", NEW c, NEW k \in BlocksOf[p]
  PROVE  /\ SumOf(p, c, d, r, k) = ScanOf(c, r, k)
         /\ \A n \in d.writes :
              (IF n = "S_out" THEN SumOf(p, c, d, r, k) ELSE Got(p, c, d, r, k)) = Holds(p, n, c, r)[k]
<1>1. PICK got, own : got = Got(p, c, d, r, k) /\ own = Holds(p, "S_local", c, r)[k]
  OBVIOUS
<1>2. p \in Programs \ Probes
  OBVIOUS
<1>3. SumOf(p, c, d, r, k) = own \cup Decay(<<c, r, k>>, got)
  BY <1>1 DEF SumOf
<1>4. /\ own \cup Decay(<<c, r, k>>, got) = ScanOf(c, r, k)
      /\ \A n \in d.writes :
           (IF n = "S_out" THEN own \cup Decay(<<c, r, k>>, got) ELSE got) = Holds(p, n, c, r)[k]
  BY <1>1, <1>2, ForwardValue, SMTT(60)
<1> QED
  BY <1>1, <1>3, <1>4

LEMMA ReverseAdj ==
  ASSUME NEW p \in Programs, p \notin Probes, NEW r \in Ranks, NEW d, IsReverse(p, r, d),
         NEW c, NEW k \in BlocksOf[p]
  PROVE  /\ AdjOf(p, c, d, r, k) = Holds(p, "dS_total", c, r)[k]
         /\ p \notin Collectives /\ ~Reduces(p, d) => Holds(p, "dgamma", c, r)[k] = Zero
         /\ Reduces(p, d) => Holds(p, "dgamma", c, r)[k] =
              Pairs(AdjOf(p, c, d, r, k), Holds(p, PreviousName(p, r), c, r)[k])
<1>1. PICK got, adj : got = Got(p, c, d, r, k) /\ adj = AdjOf(p, c, d, r, k)
  OBVIOUS
<1>2. p \in Programs \ Probes
  OBVIOUS
<1> QED
  BY <1>1, <1>2, ReverseValue, SMTT(60)

LEMMA ReverseOwed ==
  ASSUME NEW p \in Programs, p \notin Probes, NEW r \in Ranks, NEW d, IsReverse(p, r, d),
         r # 0, NEW c, NEW k \in BlocksOf[p], NEW q, q = r - 1
  PROVE  /\ p \in Collectives => Owed(p, c, "reverse", q, k) = Decay(<<c, r, k>>, AdjOf(p, c, d, r, k))
         /\ p \notin Collectives => Owed(p, c, "reverse", q, k) =
              Holds(p, "dS_recv", c, r)[k] \cup Decay(<<c, r, k>>, Got(p, c, d, r, k))
<1> DEFINE A == AdjointOf(p, c, r, k)
<1>1. q \in Int /\ q + 1 = r /\ q < P - 1
  BY ProgramAssumption DEF Ranks
<1>2. A = AdjOf(p, c, d, r, k)
  <2>1. Holds(p, "dS_total", c, r) = [j \in BlocksOf[p] |-> AdjointOf(p, c, r, j)]
    BY HoldsIs
  <2> QED
    BY <2>1, ReverseAdj
<1>3. CASE p \in Collectives
  <2>1. Owed(p, c, "reverse", q, k) = Decay(<<c, q + 1, k>>, AdjointOf(p, c, q + 1, k))
    BY <1>3 DEF Owed
  <2> QED
    BY <1>1, <1>2, <1>3, <2>1
<1>4. CASE p \notin Collectives
  <2>1. Owed(p, c, "reverse", q, k) = AdjointOf(p, c, q, k)
    BY <1>4 DEF Owed
  <2>2. AdjointOf(p, c, q, k) = Leaf(<<"dS_recv", c, q + 1, k, FromBoundary(p, c, q + 1)>>)
                                  \cup Decay(<<c, q + 1, k>>, AdjointOf(p, c, q + 1, k))
    BY <1>1, <1>4, AdjointFused
  <2>3. Holds(p, "dS_recv", c, r)[k] = Leaf(<<"dS_recv", c, r, k, FromBoundary(p, c, r)>>)
    <3>1. Made(p, "dS_recv", c, r, FromBoundary(p, c, r))[k]
            = Leaf(<<"dS_recv", c, r, k, FromBoundary(p, c, r)>>)
      BY DEF Made
    <3> QED
      BY <3>1, HoldsIs
  <2>4. AdjOf(p, c, d, r, k) = Got(p, c, d, r, k)
    BY <1>4 DEF AdjOf
  <2> QED
    BY <1>1, <1>2, <1>4, <2>1, <2>2, <2>3, <2>4
<1> QED
  BY <1>3, <1>4

\* A probe: what is sent, and what an echo or a receive keeps.
LEMMA ProbeValue ==
  ASSUME NEW p \in Probes, NEW c, NEW on \in {"forward", "reverse"}, NEW r,
         NEW k \in BlocksOf[p]
  PROVE  /\ Holds(p, SentName(p, on), c, SendRank(p, on))[0] = Owed(p, c, on, r, k)
         /\ Holds(p, Into(on), c, r)[k] = Owed(p, c, on, r, k)
         /\ k = 0
<1>1. k = 0
  BY DEF BlocksOf, Programs
<1>2. p \in Programs
  BY DEF Programs
<1>3. SentName(p, "forward") = "T0" /\ SendRank(p, "forward") = 0
  BY DEF SentName, SendRank
<1>4. Owed(p, c, "forward", r, k) = Doubled(p, "T0", c, 0)[0]
  BY DEF Owed
<1>5. Owed(p, c, "reverse", r, k) = Doubled(p, BackPayload(p)[3], c, BackPayload(p)[4])[0]
  BY DEF Owed
<1>6. SentName(p, "reverse") = BackPayload(p)[3] /\ SendRank(p, "reverse") = BackPayload(p)[4]
  BY DEF SentName, SendRank, BackPayload, Probes
<1>7. SentName(p, "reverse") \in {"T0", "T1"}
  BY DEF SentName
<1>8. \A q : /\ Holds(p, "T0", c, q) = Doubled(p, "T0", c, q)
             /\ Holds(p, "T1", c, q) = Doubled(p, "T1", c, q)
  BY <1>2, HoldsIs
<1>9. /\ Holds(p, "Rf", c, r) = Doubled(p, "T0", c, 0)
      /\ Holds(p, "Rb", c, r) = Doubled(p, BackPayload(p)[3], c, BackPayload(p)[4])
  BY <1>2, HoldsIs
<1>10. Into("forward") = "Rf" /\ Into("reverse") = "Rb"
  BY DEF Into
<1>11. CASE on = "forward"
  BY <1>1, <1>3, <1>4, <1>8, <1>9, <1>10, <1>11
<1>12. CASE on = "reverse"
  <2>1. Holds(p, SentName(p, "reverse"), c, SendRank(p, "reverse"))
          = Doubled(p, BackPayload(p)[3], c, BackPayload(p)[4])
    BY <1>6, <1>7, <1>8
  <2> QED
    BY <1>1, <1>5, <1>9, <1>10, <1>12, <2>1
<1> QED
  BY <1>11, <1>12

-----------------------------------------------------------------------------
(* What a running dispatch reads, stores and sends *)

DataInv == TypeData /\ InvTensors /\ InvContents

\* What a dispatch reads is settled once its producers have completed.
LEMMA ReadsHold ==
  ASSUME PlaceInv, DataInv, active, NEW t \in Tasks, Producers[<<program, tokens>>][t] \subseteq done,
         NEW n \in Does(t).reads, Tracked(n)
  PROVE  Own(n, t) = Holds(program, n, calls, t[2])
<1>1. program \in Programs /\ t \in TasksOf[program]
  BY HostIs DEF PlaceInv, Tasks
<1>2. n \in Names /\ t[1] \in Rings /\ t[2] \in Ranks
  BY <1>1, NamedIn, TaskTyped DEF Does, Names, Rings
<1>3. PICK x \in Keys : x = <<n, t[1], t[2]>>
  BY <1>2 DEF Keys
<1>4. SettledFor(program, t, n)
  BY <1>1, ReadsSettled DEF Does
<1>5. CASE Given(program, n, t[2])
  BY <1>3, <1>5 DEF DataInv, InvContents, Own
<1>6. CASE Makes(program, t, n, <<t[1], t[2], WriteAt(program, n)>>)
  <2>1. PICK u \in Tasks : /\ u[1] = t[1] /\ u[2] = t[2] /\ u[3] < t[3]
                           /\ n \in Stores(program, Does(u))
    BY <1>6 DEF Makes, Tasks, Does
  <2>2. n \in Does(u).writes
    BY <1>1, <2>1, StoresIn DEF Does, Tasks
  <2>3. u \in Producers[<<program, tokens>>][t]
    <3>1. <<program, tokens>> \in Cases
      BY DEF PlaceInv, TypeHost
    <3>2. Producers[<<program, tokens>>][t]
            = {v \in TasksOf[program] : Before(v, t) /\ Outs(<<program, tokens>>, v) \cap Ins(<<program, tokens>>, t) # {}}
      BY <1>1, <3>1 DEF Producers
    <3>3. x \in Outs(<<program, tokens>>, u)
      BY <1>3, <2>1, <2>2 DEF Outs, Named, Does
    <3>4. x \in Ins(<<program, tokens>>, t)
      BY <1>3 DEF Ins, Named, Does
    <3>5. Before(u, t)
      BY <2>1 DEF Before
    <3> QED
      BY <2>1, <3>2, <3>3, <3>4, <3>5 DEF Tasks
  <2>4. \A k \in Blocks : Wrote(u, n, k)
    BY <2>3 DEF Wrote
  <2>5. \A k \in Blocks : tensors[<<n, u[1], u[2]>>][k] = Holds(program, n, calls, u[2])[k]
    BY <2>1, <2>4 DEF DataInv, InvContents
  <2>6. \A k \in Blocks : tensors[x][k] = Holds(program, n, calls, t[2])[k]
    BY <1>3, <2>1, <2>5
  <2>7. PICK f, g : f = tensors[x] /\ g = Holds(program, n, calls, t[2])
    OBVIOUS
  <2>8. f = [k \in Blocks |-> f[k]]
    BY <2>7 DEF DataInv, InvTensors
  <2>9. g = [k \in Blocks |-> g[k]]
    BY <2>7, HoldsShape DEF Blocks
  <2>10. \A k \in Blocks : f[k] = g[k]
    BY <2>6, <2>7
  <2>11. f = g
    BY <2>8, <2>9, <2>10
  <2> QED
    BY <1>3, <2>7, <2>11 DEF Own
<1> QED
  BY <1>4, <1>5, <1>6 DEF SettledFor

\* What a comm dispatch stores as it receives what it was owed.
LEMMA PublishHolds ==
  ASSUME PlaceInv, DataInv, NEW r \in Ranks, NEW t \in Tasks, t = running[r], Touches(Does(t)),
         NEW b, b = blk[r], NEW got, got = Got(program, calls, Does(t), r, b)
  PROVE  /\ DOMAIN Publish(t, got) = StoresFirst(program, Does(t))
         /\ \A n \in StoresFirst(program, Does(t)) :
              Tracked(n) => Publish(t, got)[n] = Holds(program, n, calls, r)[b]
<1> DEFINE d == Does(t)
           Good == /\ DOMAIN Publish(t, got) = StoresFirst(program, d)
                   /\ \A n \in StoresFirst(program, d) :
                        Tracked(n) => Publish(t, got)[n] = Holds(program, n, calls, r)[b]
<1>1. program \in Programs /\ t \in TasksOf[program] /\ t # Nobody
  BY HostIs, TaskTyped DEF PlaceInv, Tasks
<1>2. t[2] = r /\ active /\ b \in BlocksOf[program] /\ Producers[<<program, tokens>>][t] \subseteq done
  BY <1>1, Busy DEF Blocks
<1>3. \A n \in d.reads : Tracked(n) => Own(n, t) = Holds(program, n, calls, r)
  BY <1>1, <1>2, ReadsHold
<1>4. program \notin Probes /\ program # "stub_forward" /\ IsForward(program, r, d) => Good
  <2> SUFFICES ASSUME program \notin Probes, program # "stub_forward", IsForward(program, r, d) PROVE Good
    OBVIOUS
  <2>1. /\ d.op \notin ProbeOps /\ Forwards(d) /\ d.reads = {"S_local"}
    BY ForwardStores
  <2>2. Own("S_local", t) = Holds(program, "S_local", calls, r)
    BY <1>3, <2>1 DEF Tracked
  <2>3. Publish(t, got) = [n \in d.writes |-> IF n = "S_out" THEN Sum(t, got) ELSE got]
    BY <2>1 DEF Publish
  <2>4. StoresFirst(program, d) = d.writes
    BY <2>1 DEF StoresFirst
  <2>5. Sum(t, got) = SumOf(program, calls, d, r, b)
    BY <1>2, <2>2 DEF Sum, Gamma, SumOf
  <2>6. \A n \in d.writes :
          (IF n = "S_out" THEN SumOf(program, calls, d, r, b) ELSE got) = Holds(program, n, calls, r)[b]
    <3> HIDE DEF d
    <3>1. got = Got(program, calls, d, r, b)
      BY DEF d
    <3> QED
      BY <1>1, <1>2, <3>1, ForwardSum
  <2>7. DOMAIN Publish(t, got) = d.writes
    <3> HIDE DEF d
    <3> QED
      BY <2>3
  <2>8. \A n \in d.writes : Publish(t, got)[n] = Holds(program, n, calls, r)[b]
    <3> HIDE DEF d
    <3> QED
      BY <2>3, <2>5, <2>6
  <2> QED
    BY <2>4, <2>7, <2>8
<1>5. program \notin Probes /\ IsReverse(program, r, d) => Good
  <2> SUFFICES ASSUME program \notin Probes, IsReverse(program, r, d) PROVE Good
    OBVIOUS
  <2>1. d.op \notin ProbeOps /\ ~Forwards(d)
    BY ReverseStoresAre
  <2>2. Publish(t, got)
          = [n \in ReverseStores(program, d) |-> IF n = "dS_total" THEN Adj(t, got) ELSE Zero]
    BY <2>1 DEF Publish
  <2>3. StoresFirst(program, d) = ReverseStores(program, d)
    BY <2>1 DEF StoresFirst
  <2>4. program \in Collectives => Own("g_out", t) = Holds(program, "g_out", calls, r)
    <3>1. program \in Collectives => "g_out" \in d.reads
      BY DEF IsReverse, IsDispatch, GivenTo
    <3> QED
      BY <1>3, <3>1 DEF Tracked
  <2>5. Adj(t, got) = AdjOf(program, calls, d, r, b)
    BY <1>2, <2>4 DEF Adj, Collective, AdjOf
  <2>6. /\ Adj(t, got) = Holds(program, "dS_total", calls, r)[b]
        /\ program \notin Collectives /\ ~Reduces(program, d) => Holds(program, "dgamma", calls, r)[b] = Zero
    <3> HIDE DEF d
    <3> QED
      BY <1>1, <1>2, <2>5, ReverseAdj
  <2>7. \A n \in ReverseStores(program, d) :
          n = "dS_total" \/ (n = "dgamma" /\ program \notin Collectives /\ ~Reduces(program, d))
    BY DEF ReverseStores
  <2> QED
    BY <2>2, <2>3, <2>6, <2>7
<1>6. program \in Probes /\ d.op \in ProbeOps =>
        /\ Publish(t, got) = [n \in ProbeStores(d) |-> IF n = d.into THEN got ELSE Own(d.from, t)[0]]
        /\ StoresFirst(program, d) = ProbeStores(d)
  <2>1. d.op \in ProbeOps => ~Forwards(d)
    BY DEF ProbeOps, Forwards
  <2> QED
    BY <2>1, Zenon DEF Publish, StoresFirst
<1>7. ASSUME NEW on \in {"forward", "reverse"}, program \in Probes, IsSend(program, r, t[3], d, on) PROVE Good
  <2>1. /\ d.op \in ProbeOps /\ ProbeStores(d) = {EchoOf(program, on)} /\ d.into = None
        /\ d.from = SentName(program, on) /\ d.reads = {SentName(program, on)} /\ r = SendRank(program, on)
    BY <1>7 DEF IsSend, IsDispatch, ProbeOps, ProbeStores
  <2>2. Tracked(EchoOf(program, on)) => EchoOf(program, on) = "Rb" /\ on = "reverse"
    BY DEF EchoOf, Tracked
  <2>3. EchoOf(program, on) # None
    BY DEF EchoOf, None
  <2>4. Tracked(SentName(program, on))
    BY DEF Tracked, SentName
  <2>5. Own(d.from, t) = Holds(program, SentName(program, on), calls, SendRank(program, on))
    BY <1>3, <2>1, <2>4
  <2>6. /\ Holds(program, SentName(program, on), calls, SendRank(program, on))[0] = Owed(program, calls, on, r, b)
        /\ Holds(program, Into(on), calls, r)[b] = Owed(program, calls, on, r, b)
    BY <1>2, <1>7, ProbeValue
  <2>7. Into("reverse") = "Rb"
    BY DEF Into
  <2> QED
    BY <1>6, <1>7, <2>1, <2>2, <2>3, <2>5, <2>6, <2>7
<1>8. ASSUME NEW on \in {"forward", "reverse"}, program \in Probes, IsRecv(program, r, t[3], d, on) PROVE Good
  <2>1. /\ d.op \in ProbeOps /\ ProbeStores(d) = {Into(on)} /\ d.into = Into(on)
        /\ d.wait = on /\ Waits(d)
    BY <1>8 DEF IsRecv, IsDispatch, ProbeOps, ProbeStores, Waits, None
  <2>2. got = Owed(program, calls, on, r, b)
    BY <2>1 DEF Got
  <2>3. Holds(program, Into(on), calls, r)[b] = Owed(program, calls, on, r, b)
    BY <1>2, <1>8, ProbeValue
  <2> QED
    BY <1>6, <1>8, <2>1, <2>2, <2>3
<1>9. program \in Probes /\ IsJoined(program, r, t[3], d, "send_then_wait", "forward", "reverse") => Good
  <2> SUFFICES ASSUME program \in Probes, IsJoined(program, r, t[3], d, "send_then_wait", "forward", "reverse")
               PROVE  Good
    OBVIOUS
  <2>1. d.op \in ProbeOps /\ ProbeStores(d) = {"Echo"}
    BY DEF IsJoined, IsDispatch, ProbeOps, ProbeStores, Into
  <2>2. ~Tracked("Echo")
    BY DEF Tracked
  <2> QED
    BY <1>6, <2>1, <2>2
<1>10. program \in Probes /\ IsJoined(program, r, t[3], d, "wait_then_send", "reverse", "forward") => Good
  <2> SUFFICES ASSUME program \in Probes, IsJoined(program, r, t[3], d, "wait_then_send", "reverse", "forward")
               PROVE  Good
    OBVIOUS
  <2>1. /\ d.op \in ProbeOps /\ ProbeStores(d) = {"Echo", "Rf"} /\ d.into = "Rf"
        /\ d.wait = "forward" /\ Waits(d)
    BY DEF IsJoined, IsDispatch, ProbeOps, ProbeStores, Into, Waits, None
  <2>2. ~Tracked("Echo") /\ Into("forward") = "Rf"
    BY DEF Tracked, Into
  <2>3. got = Owed(program, calls, "forward", r, b)
    BY <2>1 DEF Got
  <2>4. Holds(program, Into("forward"), calls, r)[b] = Owed(program, calls, "forward", r, b)
    BY <1>2, ProbeValue
  <2> QED
    BY <1>6, <2>1, <2>2, <2>3, <2>4
<1>11. /\ program \notin Probes =>
            \/ program \notin {"allscan_backward", "stub_forward"} /\ IsForward(program, r, d)
            \/ program \notin {"allscan", "forward", "stub_reverse"} /\ IsReverse(program, r, d)
       /\ program \in Probes =>
            \/ \E on \in {"forward", "reverse"} : IsSend(program, r, t[3], d, on)
            \/ \E on \in {"forward", "reverse"} : IsRecv(program, r, t[3], d, on)
            \/ IsJoined(program, r, t[3], d, "send_then_wait", "forward", "reverse")
            \/ IsJoined(program, r, t[3], d, "wait_then_send", "reverse", "forward")
  BY <1>1, <1>2, CommRow DEF Does
<1>12. Good
  <2> HIDE DEF Good, d
  <2> QED
    BY <1>4, <1>5, <1>7, <1>8, <1>9, <1>10, <1>11
<1> QED
  BY <1>12

\* What a forward rank sends: its own out, with what it received.
LEMMA ForwardMessage ==
  ASSUME PlaceInv, DataInv, NEW r \in Ranks, NEW t \in Tasks, t = running[r],
         program \notin Probes, program # "stub_forward", IsForward(program, r, Does(t)), Sends(Does(t)),
         NEW b, b = blk[r], NEW got, got = Got(program, calls, Does(t), r, b), tile[r] = got
  PROVE  Message(t) = Owed(program, calls, Does(t).send, Peer(t), b)
<1> DEFINE d == Does(t)
<1>1. program \in Programs /\ t \in TasksOf[program] /\ t # Nobody
  BY HostIs, TaskTyped DEF PlaceInv, Tasks
<1>2. t[2] = r /\ active /\ b \in BlocksOf[program] /\ Producers[<<program, tokens>>][t] \subseteq done
  BY <1>1, Busy DEF Blocks
<1>3. d.op \notin ProbeOps /\ Forwards(d) /\ d.reads = {"S_local"}
  BY ForwardStores
<1>4. Own("S_local", t) = Holds(program, "S_local", calls, r)
  BY <1>1, <1>2, <1>3, ReadsHold DEF Tracked
<1>5. Sum(t, got) = SumOf(program, calls, d, r, b)
  BY <1>2, <1>4 DEF Sum, Gamma, SumOf
<1>6. SumOf(program, calls, d, r, b) = ScanOf(calls, r, b)
  <2> HIDE DEF d
  <2>1. IsForward(program, r, d)
    BY DEF d
  <2> QED
    BY <1>1, <1>2, <2>1, ForwardSum
<1>7. Message(t) = Sum(t, got)
  BY <1>2, <1>3 DEF Message
<1>8. d.send = "forward" /\ d.hop = 1
  BY DEF IsForward, IsDispatch, Sends, None
<1>9. Peer(t) = r + 1 /\ r \in Int
  BY <1>2, <1>8 DEF Peer, Ranks
<1>10. Owed(program, calls, "forward", r + 1, b) = ScanOf(calls, r, b)
  BY <1>1, <1>9, ForwardOwed
<1> QED
  BY <1>5, <1>6, <1>7, <1>8, <1>9, <1>10

\* What a reverse rank makes of what it received, and reads besides.
LEMMA ReverseReads ==
  ASSUME PlaceInv, DataInv, NEW r \in Ranks, NEW t \in Tasks, t = running[r],
         program \notin Probes, IsReverse(program, r, Does(t)),
         NEW b, b = blk[r], NEW got, got = Got(program, calls, Does(t), r, b)
  PROVE  /\ Adj(t, got) = AdjOf(program, calls, Does(t), r, b)
         /\ program \notin Collectives /\ r # 0 =>
              Own("dS_recv", t) = Holds(program, "dS_recv", calls, r)
         /\ Reduces(program, Does(t)) =>
              Own(PreviousName(program, r), t) = Holds(program, PreviousName(program, r), calls, r)
<1> DEFINE d == Does(t)
<1>1. program \in Programs /\ t \in TasksOf[program] /\ t # Nobody
  BY HostIs, TaskTyped DEF PlaceInv, Tasks
<1>2. t[2] = r /\ active /\ b \in BlocksOf[program] /\ Producers[<<program, tokens>>][t] \subseteq done
  BY <1>1, Busy DEF Blocks
<1>3. \A n \in d.reads : Tracked(n) => Own(n, t) = Holds(program, n, calls, r)
  BY <1>1, <1>2, ReadsHold
<1>4. program \in Collectives => Own("g_out", t) = Holds(program, "g_out", calls, r)
  <2>1. program \in Collectives => "g_out" \in d.reads
    BY DEF IsReverse, IsDispatch, GivenTo
  <2> QED
    BY <1>3, <2>1 DEF Tracked
<1>5. Adj(t, got) = AdjOf(program, calls, d, r, b)
  BY <1>2, <1>4 DEF Adj, Collective, AdjOf
<1>6. program \notin Collectives /\ r # 0 => Own("dS_recv", t) = Holds(program, "dS_recv", calls, r)
  <2>1. program \notin Collectives /\ r # 0 => "dS_recv" \in d.reads
    BY DEF IsReverse, IsDispatch, GivenTo
  <2> QED
    BY <1>3, <2>1 DEF Tracked
<1>7. Reduces(program, d) =>
        Own(PreviousName(program, r), t) = Holds(program, PreviousName(program, r), calls, r)
  <2>1. Reduces(program, d) => PreviousName(program, r) \in d.reads
    BY DEF IsReverse, IsDispatch, GivenTo, Reduces, PreviousName
  <2>2. Tracked(PreviousName(program, r))
    BY DEF PreviousName, Boundary, Tracked
  <2> QED
    BY <1>3, <2>1, <2>2
<1> QED
  BY <1>5, <1>6, <1>7

LEMMA ReverseMessage ==
  ASSUME PlaceInv, DataInv, NEW r \in Ranks, NEW t \in Tasks, t = running[r],
         program \notin Probes, IsReverse(program, r, Does(t)), Sends(Does(t)),
         NEW b, b = blk[r], NEW got, got = Got(program, calls, Does(t), r, b), tile[r] = got
  PROVE  Message(t) = Owed(program, calls, Does(t).send, Peer(t), b)
<1> DEFINE d == Does(t)
<1>1. program \in Programs /\ t \in TasksOf[program] /\ t # Nobody
  BY HostIs, TaskTyped DEF PlaceInv, Tasks
<1>2. t[2] = r /\ b \in BlocksOf[program]
  BY <1>1, Busy DEF Blocks
<1>3. d.op \notin ProbeOps /\ ~Forwards(d)
  BY ReverseStoresAre
<1>4. d.send = "reverse" /\ d.hop = -1 /\ r # 0
  BY ProgramAssumption DEF IsReverse, IsDispatch, Sends, None
<1>5. Message(t) = IF program \in Collectives THEN Decay(<<calls, r, b>>, Adj(t, got))
                   ELSE Own("dS_recv", t)[b] \cup Decay(<<calls, r, b>>, got)
  BY <1>2, <1>3 DEF Message, Collective, Gamma
<1>6. Message(t) = IF program \in Collectives THEN Decay(<<calls, r, b>>, AdjOf(program, calls, d, r, b))
                   ELSE Holds(program, "dS_recv", calls, r)[b] \cup Decay(<<calls, r, b>>, got)
  <2>1. Adj(t, got) = AdjOf(program, calls, d, r, b)
    BY ReverseReads
  <2>2. program \notin Collectives => Own("dS_recv", t) = Holds(program, "dS_recv", calls, r)
    BY <1>4, ReverseReads
  <2> QED
    BY <1>5, <2>1, <2>2
<1>7. PICK q \in Int : q = Peer(t) /\ q = r - 1
  BY <1>2, <1>4 DEF Peer, Ranks
<1>8. /\ program \in Collectives =>
           Owed(program, calls, "reverse", q, b) = Decay(<<calls, r, b>>, AdjOf(program, calls, d, r, b))
      /\ program \notin Collectives => Owed(program, calls, "reverse", q, b) =
           Holds(program, "dS_recv", calls, r)[b] \cup Decay(<<calls, r, b>>, Got(program, calls, d, r, b))
  <2> HIDE DEF d
  <2>1. IsReverse(program, r, d)
    BY DEF d
  <2> QED
    BY <1>1, <1>2, <1>4, <1>7, <2>1, ReverseOwed
<1> QED
  BY <1>4, <1>6, <1>7, <1>8

LEMMA ProbeMessage ==
  ASSUME PlaceInv, DataInv, NEW r \in Ranks, NEW t \in Tasks, t = running[r],
         program \in Probes, Sends(Does(t)), NEW b, b = blk[r]
  PROVE  Message(t) = Owed(program, calls, Does(t).send, Peer(t), b)
<1> DEFINE d == Does(t)
           IsSender(on) == /\ d.op \in ProbeOps /\ d.send = on /\ d.from = SentName(program, on)
                           /\ d.reads = {SentName(program, on)} /\ r = SendRank(program, on)
<1>1. program \in Programs /\ t \in TasksOf[program] /\ t # Nobody
  BY HostIs, TaskTyped DEF PlaceInv, Tasks
<1>2. t[2] = r /\ active /\ b \in BlocksOf[program] /\ Producers[<<program, tokens>>][t] \subseteq done
  BY <1>1, Busy DEF Blocks
<1>3. \A on \in {"forward", "reverse"} : IsSend(program, r, t[3], d, on) => IsSender(on)
  BY DEF IsSend, IsDispatch, ProbeOps
<1>4. \A on \in {"forward", "reverse"} : ~IsRecv(program, r, t[3], d, on)
  BY DEF IsRecv, IsDispatch, Sends
<1>5. IsJoined(program, r, t[3], d, "send_then_wait", "forward", "reverse") => IsSender("forward")
  BY DEF IsJoined, IsDispatch, ProbeOps, SentName
<1>6. IsJoined(program, r, t[3], d, "wait_then_send", "reverse", "forward") => IsSender("reverse")
  BY DEF IsJoined, IsDispatch, ProbeOps, SentName
<1>7. \/ \E on \in {"forward", "reverse"} : IsSend(program, r, t[3], d, on)
      \/ \E on \in {"forward", "reverse"} : IsRecv(program, r, t[3], d, on)
      \/ IsJoined(program, r, t[3], d, "send_then_wait", "forward", "reverse")
      \/ IsJoined(program, r, t[3], d, "wait_then_send", "reverse", "forward")
  BY <1>1, <1>2, CommRow DEF Does, Sends, Touches
<1>8. PICK on \in {"forward", "reverse"} : IsSender(on)
  <2> HIDE DEF d, IsSender
  <2> QED
    BY <1>3, <1>4, <1>5, <1>6, <1>7
<1>9. Tracked(SentName(program, on))
  BY DEF Tracked, SentName
<1>10. Own(SentName(program, on), t) = Holds(program, SentName(program, on), calls, SendRank(program, on))
  BY <1>1, <1>2, <1>8, <1>9, ReadsHold
<1>11. Message(t) = Own(SentName(program, on), t)[0]
  BY <1>8 DEF Message
<1>12. Holds(program, SentName(program, on), calls, SendRank(program, on))[0]
         = Owed(program, calls, on, Peer(t), b)
  BY <1>2, ProbeValue
<1> QED
  BY <1>8, <1>10, <1>11, <1>12

LEMMA MessageOwed ==
  ASSUME PlaceInv, DataInv, NEW r \in Ranks, NEW t \in Tasks, t = running[r], Sends(Does(t)),
         NEW b, b = blk[r], tile[r] = Got(program, calls, Does(t), r, b)
  PROVE  Message(t) = Owed(program, calls, Does(t).send, Peer(t), b)
<1>1. program \in Programs /\ t \in TasksOf[program] /\ t # Nobody
  BY HostIs, TaskTyped DEF PlaceInv, Tasks
<1>2. t[2] = r
  BY <1>1, Busy
<1>3. CASE program \in Probes
  BY <1>3, ProbeMessage
<1>4. CASE program \notin Probes
  <2>1. \/ program # "stub_forward" /\ IsForward(program, r, Does(t))
        \/ IsReverse(program, r, Does(t))
    BY <1>1, <1>2, <1>4, CommRow DEF Does, Sends, Touches
  <2> QED
    BY <1>4, <2>1, ForwardMessage, ReverseMessage
<1> QED
  BY <1>3, <1>4

\* What a comm dispatch waits for in its receive window.
LEMMA WaitsFor ==
  ASSUME PlaceInv, NEW r \in Ranks, NEW t \in Tasks, t = running[r], Does(t).wait # None,
         TypeData, SignalMeansDelivered, sig[InCell(t)] >= 1
  PROVE  /\ InCell(t) \in WindowCells
         /\ window[InCell(t)] = Owed(program, calls, Does(t).wait, r, blk[r])
<1>1. program \in Programs /\ t \in TasksOf[program] /\ t # Nobody
  BY HostIs, TaskTyped DEF PlaceInv, Tasks
<1>2. t[2] = r /\ active /\ blk[r] \in Blocks /\ t[1] \in Rings
  BY <1>1, Busy, TaskTyped DEF Rings
<1>3. Does(t).wait \in {"forward", "reverse"}
  BY <1>1, Channels DEF Does
<1>4. InCell(t) = <<Does(t).wait, t[1], r, blk[r]>>
  BY <1>2 DEF InCell, Cell, Window
<1>5. PICK c \in WindowCells : c = InCell(t) /\ c[1] = Does(t).wait /\ c[3] = r /\ c[4] = blk[r]
  BY <1>2, <1>3, <1>4 DEF WindowCells
<1> QED
  BY <1>2, <1>5 DEF SignalMeansDelivered

\* dgamma of a rank that reduces it.
LEMMA ReduceHolds ==
  ASSUME PlaceInv, DataInv, NEW r \in Ranks, NEW t \in Tasks, t = running[r], Touches(Does(t)),
         Reduces(program, Does(t)), NEW b, b = blk[r], tile[r] = Got(program, calls, Does(t), r, b)
  PROVE  Adj(t, tile[r]) \X Own(IF Collective THEN "out_prev" ELSE Boundary(program, r), t)[b]
           = Holds(program, "dgamma", calls, r)[b]
<1> DEFINE d == Does(t)
<1>1. program \in Programs /\ t \in TasksOf[program] /\ t # Nobody
  BY HostIs, TaskTyped DEF PlaceInv, Tasks
<1>2. t[2] = r /\ b \in BlocksOf[program]
  BY <1>1, Busy DEF Blocks
<1>3. program \notin Probes /\ IsReverse(program, r, d)
  BY <1>1, <1>2, Later DEF Does
<1>4. PICK got : got = tile[r]
  OBVIOUS
<1>5. Adj(t, got) = AdjOf(program, calls, d, r, b)
  BY <1>3, <1>4, ReverseReads
<1>6. Own(PreviousName(program, r), t) = Holds(program, PreviousName(program, r), calls, r)
  BY <1>3, <1>4, ReverseReads
<1>7. Holds(program, "dgamma", calls, r)[b]
        = Pairs(AdjOf(program, calls, d, r, b), Holds(program, PreviousName(program, r), calls, r)[b])
  <2> HIDE DEF d
  <2>1. Reduces(program, d)
    BY DEF d
  <2> QED
    BY <1>1, <1>2, <1>3, <2>1, ReverseAdj
<1>8. PreviousName(program, r) = IF Collective THEN "out_prev" ELSE Boundary(program, r)
  BY DEF PreviousName, Collective
<1>9. Holds(program, "dgamma", calls, r)[b] = Pairs(Adj(t, tile[r]), Own(PreviousName(program, r), t)[b])
  BY <1>4, <1>5, <1>6, <1>7
<1> QED
  BY <1>8, <1>9 DEF Pairs

-----------------------------------------------------------------------------
(* The windows *)

\* Only device r moves.
OthersStay(r) ==
  \A q \in Ranks : q # r => /\ running'[q] = running[q] /\ pc'[q] = pc[q]
                            /\ blk'[q] = blk[q] /\ tile'[q] = tile[q]

\* What has been passed stays behind.
PastStays == \A u \in Tasks : \A k \in Blocks : Past(u, k) => Past(u, k)'

LEMMA TileStep ==
  ASSUME InvTile, UNCHANGED hostVars, NEW r \in Ranks, OthersStay(r), DOMAIN tile' = Ranks,
         pc'[r] \in {"send", "notify", "reduce"} =>
           tile'[r] = Got(program, calls, Does(running'[r]), r, blk'[r])
  PROVE  InvTile'
<1>1. program' = program /\ calls' = calls
  BY DEF hostVars
<1>2. \A q \in Ranks : pc'[q] \in {"send", "notify", "reduce"} =>
        tile'[q] = Got(program', calls', In(program', running'[q]), q, blk'[q])
  <2> SUFFICES ASSUME NEW q \in Ranks, pc'[q] \in {"send", "notify", "reduce"}
               PROVE  tile'[q] = Got(program, calls, In(program, running'[q]), q, blk'[q])
    BY <1>1
  <2>1. CASE q = r
    BY <2>1 DEF Does
  <2>2. CASE q # r
    <3>1. running'[q] = running[q] /\ pc'[q] = pc[q] /\ blk'[q] = blk[q] /\ tile'[q] = tile[q]
      BY <2>2 DEF OthersStay
    <3> QED
      BY <3>1 DEF InvTile, Does
  <2> QED
    BY <2>1, <2>2
<1> QED
  BY <1>2 DEF InvTile, Does

\* The two parts of InvSignals, the second by the cell.
InvRaised ==
  \A c \in WindowCells : sig[c] >= 1 =>
    \E t \in Tasks : Sends(Does(t)) /\ c = SentTo(program, t, c[4]) /\ Past(t, c[4])
InvSent ==
  active => \A q \in Ranks : \A u \in Tasks : \A k \in Blocks : running[q] = u /\ blk[q] = k /\ pc[q] = "notify" =>
    window[SentTo(program, u, k)] = Owed(program, calls, Does(u).send, u[2] + Does(u).hop, k)

LEMMA SentIs ==
  ASSUME PlaceInv
  PROVE  InvSignals <=> InvRaised /\ InvSent
<1> DEFINE Cells(q) == window[OutCell(running[q])] =
                         Owed(program, calls, Does(running[q]).send, Peer(running[q]), blk[q])
           Sent(q) == \A u \in Tasks : \A k \in Blocks : running[q] = u /\ blk[q] = k =>
             window[SentTo(program, u, k)] = Owed(program, calls, Does(u).send, u[2] + Does(u).hop, k)
<1>1. ASSUME NEW q \in Ranks, pc[q] = "notify"
      PROVE  Cells(q) <=> Sent(q)
  <2>1. running[q] # Nobody
    BY <1>1 DEF PlaceInv, InvPlaces
  <2>2. PICK u \in Tasks, k \in Blocks : u = running[q] /\ k = blk[q] /\ u[2] = q
    BY <2>1, Busy
  <2>3. OutCell(u) = SentTo(program, u, k)
    BY <2>2 DEF OutCell, Cell, Window, SentTo, Peer, Does
  <2>4. Peer(u) = u[2] + Does(u).hop
    BY DEF Peer
  <2> QED
    BY <2>2, <2>3, <2>4
<1>2. (\A q \in Ranks : pc[q] = "notify" => Cells(q)) <=> (\A q \in Ranks : pc[q] = "notify" => Sent(q))
  <2> HIDE DEF Cells, Sent
  <2> QED
    BY <1>1
<1>3. (\A q \in Ranks : pc[q] = "notify" => Sent(q)) <=>
        \A q \in Ranks : \A u \in Tasks : \A k \in Blocks : running[q] = u /\ blk[q] = k /\ pc[q] = "notify" =>
          window[SentTo(program, u, k)] = Owed(program, calls, Does(u).send, u[2] + Does(u).hop, k)
  OBVIOUS
<1> QED
  BY <1>2, <1>3 DEF InvSignals, InvSent, InvRaised

\* A step that touches no window.
LEMMA SignalsStep ==
  ASSUME PlaceInv, PlaceInv', InvSignals, SignalMeansDelivered, UNCHANGED <<hostVars, winVars>>,
         NEW r \in Ranks, OthersStay(r), pc'[r] # "notify", PastStays
  PROVE  InvSignals' /\ SignalMeansDelivered'
<1>1. /\ program' = program /\ calls' = calls /\ active' = active /\ tokens' = tokens
      /\ window' = window /\ sig' = sig
  BY DEF hostVars, winVars
<1>2. Tasks' = Tasks /\ WindowCells' = WindowCells /\ Blocks' = Blocks
  BY <1>1, Rigid
<1>3. \A c \in WindowCells : c[4] \in Blocks
  BY DEF WindowCells
<1>4. \A c \in WindowCells : sig[c] >= 1 =>
        \E t \in Tasks : Sends(Does(t)) /\ c = SentTo(program, t, c[4]) /\ Past(t, c[4])'
  BY <1>3 DEF InvSignals, PastStays
<1>5. \A q \in Ranks : pc'[q] = "notify" => running'[q] = running[q] /\ blk'[q] = blk[q] /\ pc[q] = "notify"
  BY DEF OthersStay
<1>6. InvSent
  BY SentIs
<1>7. InvSent'
  BY <1>1, <1>2, <1>5, <1>6 DEF InvSent, Does, SentTo
<1>8. SignalMeansDelivered'
  BY <1>1, <1>2 DEF SignalMeansDelivered
<1>9. InvRaised'
  BY <1>1, <1>2, <1>4 DEF InvRaised, Does
<1>10. InvSignals'
  BY <1>7, <1>9, SentIs, PTL
<1> QED
  BY <1>8, <1>10

\* The cell of a send: in the windows, not signalled, and nobody else's.
LEMMA SendFresh ==
  ASSUME PlaceInv, InvSignals, NEW r \in Ranks, NEW t \in Tasks, t = running[r], NEW b, b = blk[r],
         pc[r] \in {"send", "notify"}
  PROVE  /\ active /\ t[2] = r /\ b \in Blocks /\ Sends(Does(t)) /\ Touches(Does(t))
         /\ OutCell(t) = SentTo(program, t, b)
         /\ SentTo(program, t, b) \in WindowCells
         /\ SentTo(program, t, b)[1] = Does(t).send /\ SentTo(program, t, b)[3] = Peer(t)
         /\ SentTo(program, t, b)[4] = b
         /\ ~(sig[SentTo(program, t, b)] >= 1)
         /\ \A u \in Tasks : \A k : Sends(Does(u)) /\ u # t => SentTo(program, u, k) # SentTo(program, t, b)
<1>1. program \in Programs /\ t \in TasksOf[program] /\ t # Nobody
  BY HostIs, TaskTyped DEF PlaceInv, Tasks
<1>2. t[2] = r /\ active /\ b \in Blocks /\ t \notin done /\ t[1] \in Rings
  BY <1>1, Busy, TaskTyped DEF Rings
<1>3. Sends(Does(t)) /\ Touches(Does(t))
  BY <1>1 DEF PlaceInv, InvSteps, StepFits, Sends, Touches
<1>4. Does(t).send \in {"forward", "reverse"} /\ t[2] + Does(t).hop \in Ranks
  BY <1>1, <1>3, Channels DEF Does, Sends
<1>5. OutCell(t) = SentTo(program, t, b)
  BY <1>2 DEF OutCell, Cell, Window, SentTo, Peer, Does
<1>6. PICK c : c = SentTo(program, t, b)
  OBVIOUS
<1>7. c \in WindowCells /\ c[1] = Does(t).send /\ c[3] = Peer(t) /\ c[4] = b
  BY <1>2, <1>4, <1>6 DEF WindowCells, SentTo, Peer, Does
<1>8. ~Past(t, b)
  <2>1. b \in Int
    <3>1. PICK m \in Nat : Blocks = 0..m
      BY <1>1, BlocksAre DEF Blocks
    <3> QED
      BY <1>2, <3>1
  <2> QED
    BY <1>2, <2>1 DEF Past
<1>9. \A u \in Tasks : \A k : Sends(Does(u)) /\ SentTo(program, u, k) = c => u = t
  BY <1>1, <1>3, <1>6, UniqueSender DEF Does, Tasks
<1>10. ~(sig[c] >= 1)
  <2> SUFFICES ASSUME sig[c] >= 1 PROVE FALSE
    OBVIOUS
  <2>1. PICK u \in Tasks : Sends(Does(u)) /\ c = SentTo(program, u, c[4]) /\ Past(u, c[4])
    BY <1>7 DEF InvSignals
  <2>2. u = t
    BY <1>9, <2>1
  <2> QED
    BY <1>7, <1>8, <2>1, <2>2
<1> QED
  BY <1>2, <1>3, <1>5, <1>6, <1>7, <1>9, <1>10

\* remote_store of the message.
LEMMA SendStep ==
  ASSUME PlaceInv, PlaceInv', DataInv, InvTile, InvSignals, SignalMeansDelivered, NEW r \in Ranks, Send(r)
  PROVE  InvSignals' /\ SignalMeansDelivered' /\ DOMAIN window' = WindowCells'
<1>1. PICK t \in Tasks, b \in Blocks : t = running[r] /\ b = blk[r]
  BY Busy DEF PlaceInv, InvPlaces, Send
<1>2. PICK c : c = SentTo(program, t, b)
  OBVIOUS
<1>3. /\ active /\ t[2] = r /\ Sends(Does(t)) /\ Touches(Does(t)) /\ OutCell(t) = c /\ c \in WindowCells
      /\ c[1] = Does(t).send /\ c[3] = Peer(t) /\ c[4] = b /\ ~(sig[c] >= 1)
      /\ \A u \in Tasks : \A k : Sends(Does(u)) /\ u # t => SentTo(program, u, k) # c
  BY <1>1, <1>2, SendFresh DEF Send
<1>4. /\ window' = [window EXCEPT ![c] = Message(t)] /\ pc' = [pc EXCEPT ![r] = "notify"]
      /\ UNCHANGED <<hostVars, tensors, sig, submitted, done, fifo, running, blk, tile>>
  BY <1>1, <1>3 DEF Send
<1>5. program' = program /\ tokens' = tokens /\ calls' = calls /\ active' = active
  BY <1>4 DEF hostVars
<1>6. Tasks' = Tasks /\ WindowCells' = WindowCells /\ Blocks' = Blocks
  BY <1>5, Rigid
<1>7. Message(t) = Owed(program, calls, Does(t).send, Peer(t), b)
  <2>1. tile[r] = Got(program, calls, Does(t), r, b)
    BY <1>1 DEF InvTile, Send
  <2> QED
    BY <1>1, <1>3, <2>1, MessageOwed
<1>8. DOMAIN window = WindowCells
  BY DEF DataInv, TypeData
<1>9. \A x \in WindowCells : window'[x] = IF x = c THEN Owed(program, calls, c[1], c[3], c[4]) ELSE window[x]
  BY <1>3, <1>4, <1>7, <1>8
<1>10. SignalMeansDelivered'
  BY <1>3, <1>4, <1>5, <1>6, <1>9 DEF SignalMeansDelivered
<1>11. pc'[r] = "notify" /\ \A q \in Ranks : q # r => pc'[q] = pc[q]
  BY <1>4 DEF PlaceInv, TypePlace
<1>12. InvSent
  BY SentIs
<1>13. InvSent'
  <2> SUFFICES ASSUME NEW q \in Ranks, NEW u \in Tasks, NEW k \in Blocks,
                      running[q] = u, blk[q] = k, pc'[q] = "notify"
               PROVE  window'[SentTo(program, u, k)] = Owed(program, calls, Does(u).send, u[2] + Does(u).hop, k)
    BY <1>4, <1>5, <1>6 DEF InvSent, Does, SentTo
  <2>1. CASE q = r
    <3>1. u = t /\ k = b
      BY <1>1, <2>1
    <3> QED
      BY <1>2, <1>3, <1>9, <3>1 DEF Peer
  <2>2. CASE q # r
    <3>1. pc[q] = "notify"
      BY <1>11, <2>2
    <3>2. u # t
      <4>1. running[r] # Nobody
        BY <1>1, HostIs, TaskTyped DEF PlaceInv, Tasks
      <4> QED
        BY <1>1, <2>2, <4>1, Busy
    <3>3. Sends(Does(u)) /\ SentTo(program, u, k) \in WindowCells
      BY <3>1, SendFresh
    <3>4. SentTo(program, u, k) # c
      BY <1>3, <3>2, <3>3
    <3> QED
      BY <1>3, <1>9, <1>12, <3>1, <3>3, <3>4 DEF InvSent
  <2> QED
    BY <2>1, <2>2
<1>14. \A u \in Tasks : \A k : Past(u, k) => Past(u, k)'
  <2>1. pc[r] \notin {"await", "reduce"}
    BY DEF Send
  <2>2. \A u \in Tasks : \A k : Past(u, k) /\ pc[r] \notin {"await", "reduce"} => Past(u, k)'
    BY <1>1, <1>3, <1>4, <1>5, WroteStay
  <2> QED
    BY <2>1, <2>2
<1>15. InvRaised'
  BY <1>4, <1>5, <1>6, <1>14 DEF InvSignals, InvRaised, Does
<1>16. InvSignals'
  BY <1>13, <1>15, SentIs, PTL
<1> QED
  BY <1>4, <1>6, <1>8, <1>10, <1>16

\* What follows a notify: the rest of the block, the next block or the end.
LEMMA NotifyMoves ==
  ASSUME PlaceInv, NEW r \in Ranks, NEW t \in Tasks, t = running[r], Notify(r)
  PROVE  \/ /\ \E x \in {"await", "reduce"} :
                 pc' = [pc EXCEPT ![r] = x] /\ StepFits(program, Does(t), x)
            /\ UNCHANGED <<running, done, blk>>
         \/ StoresLater(program, Does(t)) = {} /\ NextBlock(r)
<1>1. program \in Programs /\ t \in TasksOf[program]
  BY HostIs DEF PlaceInv, Tasks
<1>2. Touches(Does(t)) /\ Sends(Does(t))
  <2>1. t # Nobody
    BY <1>1, TaskTyped
  <2> QED
    BY <2>1 DEF PlaceInv, InvSteps, StepFits, Notify, Sends, Touches
<1>3. ~(Reduces(program, Does(t)) /\ Does(t).op = "send_then_wait")
  BY DEF Reduces
<1>4. CASE Reduces(program, Does(t))
  BY <1>2, <1>4 DEF Notify, StepFits
<1>5. CASE Does(t).op = "send_then_wait"
  BY <1>2, <1>3, <1>5 DEF Notify, StepFits
<1>6. CASE ~Reduces(program, Does(t)) /\ Does(t).op # "send_then_wait"
  <2>1. NextBlock(r)
    BY <1>6 DEF Notify
  <2>2. StoresLater(program, Does(t)) = {}
    BY <1>6 DEF StoresLater
  <2> QED
    BY <2>1, <2>2
<1> QED
  BY <1>4, <1>5, <1>6

\* Moving to the next block or completing.
LEMMA NextMoves ==
  ASSUME PlaceInv, NEW r \in Ranks, \A q \in Ranks : q # r => tile'[q] = tile[q], NextBlock(r)
  PROVE  OthersStay(r) /\ pc'[r] \in {"idle", "receive"}
<1>1. CASE blk[r] + 1 \notin Blocks
  BY <1>1 DEF NextBlock, Idle, OthersStay, PlaceInv, TypePlace, InvPlaces
<1>2. CASE blk[r] + 1 \in Blocks
  BY <1>2 DEF NextBlock, OthersStay, PlaceInv, TypePlace, InvPlaces
<1> QED
  BY <1>1, <1>2

\* notify: the signal vouches for what the send stored.
LEMMA NotifyStep ==
  ASSUME PlaceInv, PlaceInv', TypeData, InvSignals, SignalMeansDelivered, NEW r \in Ranks, Notify(r)
  PROVE  /\ InvSignals' /\ SignalMeansDelivered' /\ sig' \in [WindowCells -> Nat]
         /\ \A u \in Tasks : \A n \in Stores(program, Does(u)) : \A k \in Blocks :
              Wrote(u, n, k)' => Wrote(u, n, k)
         /\ OthersStay(r)
         /\ pc'[r] = "reduce" => UNCHANGED <<running, blk>>
<1>1. PICK t \in Tasks, b \in Blocks : t = running[r] /\ b = blk[r]
  BY Busy DEF PlaceInv, InvPlaces, Notify
<1>2. PICK c : c = SentTo(program, t, b)
  OBVIOUS
<1>3. /\ active /\ t[2] = r /\ Sends(Does(t)) /\ Touches(Does(t)) /\ OutCell(t) = c /\ c \in WindowCells
      /\ c[1] = Does(t).send /\ c[3] = Peer(t) /\ c[4] = b
  BY <1>1, <1>2, SendFresh DEF Notify
<1>4. sig' = [sig EXCEPT ![c] = @ + 1] /\ pc[r] = "notify"
      /\ UNCHANGED <<hostVars, tensors, window, submitted, fifo, tile>>
  BY <1>1, <1>3 DEF Notify
<1>5. program' = program /\ tokens' = tokens /\ calls' = calls /\ active' = active
  BY <1>4 DEF hostVars
<1>6. Tasks' = Tasks /\ WindowCells' = WindowCells /\ Blocks' = Blocks
  BY <1>5, Rigid
<1>7. sig \in [WindowCells -> Nat]
  BY DEF TypeData
<1>8. /\ sig' \in [WindowCells -> Nat]
      /\ \A x \in WindowCells : x # c => sig'[x] = sig[x]
  BY <1>3, <1>4, <1>7
<1>9. window[c] = Owed(program, calls, Does(t).send, Peer(t), b)
  <2>1. InvSent
    BY SentIs
  <2> QED
    BY <1>1, <1>2, <1>3, <1>4, <2>1 DEF InvSent, Peer
<1>10. SignalMeansDelivered'
  BY <1>3, <1>4, <1>5, <1>6, <1>8, <1>9 DEF SignalMeansDelivered
<1>11. /\ OthersStay(r) /\ pc'[r] \in {"idle", "receive", "await", "reduce"}
       /\ PastStays /\ Past(t, b)'
       /\ \A u \in Tasks : \A n \in Stores(program, Does(u)) : \A k \in Blocks :
            Wrote(u, n, k)' => Wrote(u, n, k)
       /\ pc'[r] = "reduce" => UNCHANGED <<running, blk>>
  <2>1. CASE /\ \E x \in {"await", "reduce"} : pc' = [pc EXCEPT ![r] = x]
             /\ UNCHANGED <<running, done, blk>>
    <3>1. PICK x \in {"await", "reduce"} : pc' = [pc EXCEPT ![r] = x]
      BY <2>1
    <3>2. pc'[r] = x /\ \A q \in Ranks : q # r => pc'[q] = pc[q]
      BY <3>1 DEF PlaceInv, TypePlace
    <3>3. OthersStay(r)
      BY <1>4, <2>1, <3>2 DEF OthersStay
    <3>4. /\ \A u \in Tasks : \A n, k : Wrote(u, n, k)' => Wrote(u, n, k)
          /\ \A u \in Tasks : \A k : Past(u, k) => Past(u, k)'
          /\ Past(t, b)'
      BY <1>1, <1>3, <1>4, <1>5, <2>1, <3>1, WroteStay
    <3> QED
      BY <2>1, <3>2, <3>3, <3>4 DEF PastStays
  <2>2. CASE StoresLater(program, Does(t)) = {} /\ NextBlock(r)
    <3>1. OthersStay(r) /\ pc'[r] \in {"idle", "receive"}
      BY <1>4, <2>2, NextMoves
    <3>2. /\ \A u \in Tasks : \A n \in Stores(program, Does(u)) : \A k \in Blocks :
               Wrote(u, n, k)' => Wrote(u, n, k)
          /\ \A u \in Tasks : \A k : Past(u, k) => Past(u, k)' \/ k \notin Blocks
          /\ Past(t, b)'
      BY <1>1, <1>3, <1>4, <1>5, <2>2, WroteNext
    <3> QED
      BY <3>1, <3>2 DEF PastStays
  <2> QED
    BY <1>1, <2>1, <2>2, NotifyMoves
<1>12. InvRaised'
  <2> SUFFICES ASSUME NEW x \in WindowCells, sig'[x] >= 1
               PROVE  \E u \in Tasks : Sends(Does(u)) /\ x = SentTo(program, u, x[4]) /\ Past(u, x[4])'
    BY <1>5, <1>6 DEF InvRaised, Does
  <2>1. CASE x = c
    BY <1>2, <1>3, <1>11, <2>1
  <2>2. CASE x # c
    <3>1. sig[x] >= 1 /\ x[4] \in Blocks
      BY <1>8, <2>2 DEF WindowCells
    <3>2. PICK u \in Tasks : Sends(Does(u)) /\ x = SentTo(program, u, x[4]) /\ Past(u, x[4])
      BY <3>1 DEF InvSignals
    <3> QED
      BY <1>11, <3>1, <3>2 DEF PastStays
  <2> QED
    BY <2>1, <2>2
<1>13. InvSent'
  <2>1. InvSent
    BY SentIs
  <2>2. \A q \in Ranks : pc'[q] = "notify" => running'[q] = running[q] /\ blk'[q] = blk[q] /\ pc[q] = "notify"
    BY <1>11 DEF OthersStay
  <2> QED
    BY <1>4, <1>5, <1>6, <2>1, <2>2 DEF InvSent, Does, SentTo
<1>14. InvSignals'
  BY <1>12, <1>13, SentIs, PTL
<1> QED
  BY <1>8, <1>10, <1>11, <1>14

-----------------------------------------------------------------------------
(* The steps *)

Inv == PlaceInv /\ DataInv /\ InvTile /\ InvSignals /\ SignalMeansDelivered

\* The last store of a block: the device takes the next block or completes.
LEMMA LastStore ==
  ASSUME Inv, NEW r \in Ranks, NEW t \in Tasks, t = running[r], Touches(Does(t)), NEW b, b = blk[r],
         UNCHANGED <<hostVars, winVars, submitted, fifo>>,
         DOMAIN tile' = Ranks, \A q \in Ranks : q # r => tile'[q] = tile[q],
         NEW values, StoreBlock(t, values),
         \A n \in DOMAIN values : Tracked(n) => values[n] = Holds(program, n, calls, r)[b],
         \/ pc[r] = "receive" /\ DOMAIN values = Stores(program, Does(t))
         \/ pc[r] # "receive" /\ DOMAIN values = StoresLater(program, Does(t)),
         NextBlock(r)
  PROVE  Inv'
<1> USE DEF Inv
<1>1. /\ program' = program /\ tokens' = tokens /\ calls' = calls /\ active' = active
      /\ window' = window /\ sig' = sig
  BY DEF hostVars, winVars
<1>2. t # Nobody /\ program \in Programs
  BY HostIs, TaskTyped DEF PlaceInv, Tasks
<1>3. active /\ t[2] = r
  BY <1>2, Busy
<1>4. PlaceInv'
  BY <1>2, PlaceNext
<1>5. /\ \A u \in Tasks : \A n \in Stores(program, Does(u)) : \A k \in Blocks : Wrote(u, n, k)' =>
           \/ Wrote(u, n, k)
           \/ u = t /\ k = b /\ (pc[r] = "receive" \/ n \in StoresLater(program, Does(t)))
      /\ \A u \in Tasks : \A k : Past(u, k) => Past(u, k)' \/ k \notin Blocks
  BY <1>1, WroteNext
<1>6. DOMAIN values \subseteq Stores(program, Does(t))
  BY DEF Stores
<1>7. \A u \in Tasks : \A n \in Stores(program, Does(u)) : \A k \in Blocks : Wrote(u, n, k)' =>
        Wrote(u, n, k) \/ (u = t /\ k = b /\ n \in DOMAIN values)
  BY <1>5
<1>8. InvTensors' /\ InvContents' /\ DOMAIN tensors' = Keys'
  <2>1. UNCHANGED hostVars
    OBVIOUS
  <2> QED
    BY <1>3, <1>6, <1>7, <2>1, ContentsStore DEF DataInv
<1>9. OthersStay(r) /\ pc'[r] \in {"idle", "receive"}
  BY NextMoves
<1>10. WindowCells' = WindowCells
  BY <1>1, Rigid
<1>11. DataInv'
  BY <1>1, <1>8, <1>10 DEF DataInv, TypeData
<1>12. InvTile'
  BY <1>9, TileStep
<1>13. InvSignals' /\ SignalMeansDelivered'
  BY <1>4, <1>5, <1>9, SignalsStep DEF PastStays
<1> QED
  BY <1>4, <1>11, <1>12, <1>13

LEMMA ReceiveStep ==
  ASSUME Inv, NEW r \in Ranks, Receive(r)
  PROVE  Inv'
<1> USE DEF Inv
<1>1. PICK t \in Tasks, b \in Blocks : t = running[r] /\ b = blk[r] /\ running[r] # Nobody
  BY Busy DEF PlaceInv, InvPlaces, Receive
<1>2. PICK got : got = IF Waits(Does(t)) THEN window[InCell(t)] ELSE Zero
  OBVIOUS
<1>3. /\ pc[r] = "receive"
      /\ Waits(Does(t)) => sig[InCell(t)] >= 1
      /\ StoreBlock(t, Publish(t, got))
      /\ tile' = [tile EXCEPT ![r] = got]
      /\ \/ Sends(Does(t)) /\ pc' = [pc EXCEPT ![r] = "send"] /\ UNCHANGED <<running, done, blk>>
         \/ ~Sends(Does(t)) /\ NextBlock(r)
      /\ UNCHANGED <<hostVars, winVars, submitted, fifo>>
  BY <1>1, <1>2 DEF Receive
<1>4. program \in Programs /\ t \in TasksOf[program] /\ t[2] = r /\ active
  BY <1>1, HostIs, Busy DEF PlaceInv, Tasks
<1>5. Touches(Does(t))
  BY <1>1, <1>3 DEF PlaceInv, InvSteps, StepFits
<1>6. got = Got(program, calls, Does(t), r, b)
  <2>1. CASE Waits(Does(t))
    <3>1. window[InCell(t)] = Owed(program, calls, Does(t).wait, r, blk[r])
      BY <1>1, <1>3, <2>1, WaitsFor DEF Waits, DataInv
    <3> QED
      BY <1>1, <1>2, <2>1, <3>1 DEF Got
  <2>2. CASE ~Waits(Does(t))
    BY <1>2, <2>2 DEF Got
  <2> QED
    BY <2>1, <2>2
<1>7. PICK values : values = Publish(t, got)
  OBVIOUS
<1>8. /\ DOMAIN values = StoresFirst(program, Does(t))
      /\ \A n \in DOMAIN values : Tracked(n) => values[n] = Holds(program, n, calls, r)[b]
      /\ StoreBlock(t, values)
  BY <1>1, <1>3, <1>5, <1>6, <1>7, PublishHolds
<1>9. DOMAIN tile' = Ranks /\ tile'[r] = got /\ \A q \in Ranks : q # r => tile'[q] = tile[q]
  BY <1>3 DEF InvTile
<1>10. CASE ~Sends(Does(t)) /\ NextBlock(r)
  <2>1. StoresLater(program, Does(t)) = {}
    BY <1>4, <1>5, <1>10, Later DEF Does
  <2>2. DOMAIN values = Stores(program, Does(t))
    BY <1>5, <1>8, <2>1 DEF Stores
  <2> QED
    BY <1>1, <1>3, <1>5, <1>8, <1>9, <1>10, <2>2, LastStore
<1>11. CASE Sends(Does(t)) /\ pc' = [pc EXCEPT ![r] = "send"] /\ UNCHANGED <<running, done, blk>>
  <2>1. /\ program' = program /\ tokens' = tokens /\ calls' = calls /\ active' = active
        /\ window' = window /\ sig' = sig /\ WindowCells' = WindowCells
    BY <1>3, Rigid DEF hostVars, winVars
  <2>2. PlaceInv'
    <3>1. StepFits(program, Does(t), "send")
      BY <1>5, <1>11 DEF StepFits
    <3>2. blk' \in [Ranks -> Blocks]
      BY <1>11 DEF PlaceInv, TypePlace
    <3> QED
      BY <1>1, <1>3, <1>11, <3>1, <3>2, PlaceStay
  <2>3. /\ \A u \in Tasks : \A n, k : Wrote(u, n, k)' =>
              \/ Wrote(u, n, k)
              \/ u = t /\ k = b /\ pc[r] = "receive" /\ n \in StoresFirst(program, Does(t))
        /\ \A u \in Tasks : \A k : Past(u, k) /\ pc[r] \notin {"await", "reduce"} => Past(u, k)'
    BY <1>1, <1>5, <1>11, <2>1, WroteStay
  <2>4. InvTensors' /\ InvContents' /\ DOMAIN tensors' = Keys'
    <3>1. \A u \in Tasks : \A n \in Stores(program, Does(u)) : \A k \in Blocks : Wrote(u, n, k)' =>
            Wrote(u, n, k) \/ (u = t /\ k = b /\ n \in DOMAIN values)
      BY <1>8, <2>3
    <3>2. DOMAIN values \subseteq Stores(program, Does(t))
      BY <1>5, <1>8 DEF Stores
    <3>3. UNCHANGED hostVars
      BY <1>3
    <3> QED
      BY <1>1, <1>4, <1>5, <1>8, <3>1, <3>2, <3>3, ContentsStore DEF DataInv
  <2>5. pc'[r] = "send" /\ OthersStay(r)
    BY <1>9, <1>11 DEF OthersStay, PlaceInv, TypePlace
  <2>6. InvTile'
    <3>1. tile'[r] = Got(program, calls, Does(running'[r]), r, blk'[r])
      BY <1>1, <1>6, <1>9, <1>11
    <3> QED
      BY <1>3, <1>9, <2>5, <3>1, TileStep
  <2>7. InvSignals' /\ SignalMeansDelivered'
    <3>1. PastStays
      BY <1>3, <2>3 DEF PastStays
    <3> QED
      BY <1>3, <2>2, <2>5, <3>1, SignalsStep
  <2>8. DataInv'
    BY <2>1, <2>4 DEF DataInv, TypeData
  <2> QED
    BY <2>2, <2>6, <2>7, <2>8
<1> QED
  BY <1>3, <1>10, <1>11

LEMMA AwaitStep ==
  ASSUME Inv, NEW r \in Ranks, Await(r)
  PROVE  Inv'
<1> USE DEF Inv
<1>1. PICK t \in Tasks, b \in Blocks : t = running[r] /\ b = blk[r] /\ running[r] # Nobody
  BY Busy DEF PlaceInv, InvPlaces, Await
<1>2. program \in Programs /\ t \in TasksOf[program] /\ t[2] = r /\ b \in BlocksOf[program]
  BY <1>1, HostIs, Busy DEF PlaceInv, Tasks, Blocks
<1>3. Touches(Does(t)) /\ Does(t).op = "send_then_wait"
  BY <1>1 DEF PlaceInv, InvSteps, StepFits, Await
<1>4. /\ program = "fusedcomm" /\ Does(t).wait = "reverse" /\ Does(t).into = "Rb"
      /\ StoresLater(program, Does(t)) = {"Rb"}
  BY <1>2, <1>3, Later DEF Does
<1>5. window[InCell(t)] = Owed(program, calls, "reverse", r, b)
  BY <1>1, <1>4, WaitsFor DEF Await, None, DataInv
<1>6. PICK values : values = [n \in {Does(t).into} |-> window[InCell(t)]]
  OBVIOUS
<1>7. DOMAIN values = {"Rb"} /\ values["Rb"] = Owed(program, calls, "reverse", r, b)
  BY <1>4, <1>5, <1>6
<1>8. Holds(program, "Rb", calls, r)[b] = Owed(program, calls, "reverse", r, b)
  <2>1. program \in Probes /\ Into("reverse") = "Rb"
    BY <1>4 DEF Probes, Into
  <2>2. Holds(program, Into("reverse"), calls, r)[b] = Owed(program, calls, "reverse", r, b)
    BY <1>2, <2>1, ProbeValue
  <2> QED
    BY <2>1, <2>2
<1>9. /\ StoreBlock(t, values) /\ NextBlock(r) /\ pc[r] # "receive"
      /\ UNCHANGED <<hostVars, winVars, submitted, fifo>> /\ UNCHANGED tile
  BY <1>1, <1>6 DEF Await
<1>10. DOMAIN tile' = Ranks /\ \A q \in Ranks : q # r => tile'[q] = tile[q]
  BY <1>9 DEF InvTile
<1>11. /\ Touches(Does(t))
       /\ \A n \in DOMAIN values : Tracked(n) => values[n] = Holds(program, n, calls, r)[b]
  BY <1>3, <1>7, <1>8
<1>12. DOMAIN values = StoresLater(program, Does(t))
  BY <1>4, <1>7
<1> HIDE DEF Inv
<1> QED
  BY <1>1, <1>9, <1>10, <1>11, <1>12, LastStore

LEMMA ReduceStep ==
  ASSUME Inv, NEW r \in Ranks, Reduce(r)
  PROVE  Inv'
<1> USE DEF Inv
<1>1. PICK t \in Tasks, b \in Blocks : t = running[r] /\ b = blk[r] /\ running[r] # Nobody
  BY Busy DEF PlaceInv, InvPlaces, Reduce
<1>2. program \in Programs /\ t \in TasksOf[program]
  BY HostIs DEF PlaceInv, Tasks
<1>3. Touches(Does(t)) /\ Reduces(program, Does(t))
  BY <1>1 DEF PlaceInv, InvSteps, StepFits, Reduce
<1>4. StoresLater(program, Does(t)) = {"dgamma"}
  BY <1>2, <1>3, Later DEF Does
<1>5. tile[r] = Got(program, calls, Does(t), r, b)
  BY <1>1 DEF InvTile, Reduce
<1>6. PICK pairs : pairs = Adj(t, tile[r]) \X Own(IF Collective THEN "out_prev" ELSE Boundary(program, r), t)[b]
  OBVIOUS
<1>7. pairs = Holds(program, "dgamma", calls, r)[b]
  BY <1>1, <1>3, <1>5, <1>6, ReduceHolds
<1>8. PICK values : values = [n \in {"dgamma"} |-> pairs]
  OBVIOUS
<1>9. DOMAIN values = {"dgamma"} /\ values["dgamma"] = Holds(program, "dgamma", calls, r)[b]
  BY <1>7, <1>8
<1>10. /\ StoreBlock(t, values) /\ NextBlock(r) /\ pc[r] # "receive"
       /\ UNCHANGED <<hostVars, winVars, submitted, fifo>> /\ UNCHANGED tile
  BY <1>1, <1>6, <1>8 DEF Reduce
<1>11. DOMAIN tile' = Ranks /\ \A q \in Ranks : q # r => tile'[q] = tile[q]
  BY <1>10 DEF InvTile
<1>12. /\ \A n \in DOMAIN values : Tracked(n) => values[n] = Holds(program, n, calls, r)[b]
       /\ DOMAIN values = StoresLater(program, Does(t))
  BY <1>4, <1>9
<1> QED
  BY <1>1, <1>3, <1>10, <1>11, <1>12, LastStore

LEMMA SendKeeps ==
  ASSUME Inv, NEW r \in Ranks, Send(r)
  PROVE  Inv'
<1> USE DEF Inv
<1>1. PICK t \in Tasks, b \in Blocks : t = running[r] /\ b = blk[r] /\ running[r] # Nobody
  BY Busy DEF PlaceInv, InvPlaces, Send
<1>2. Touches(Does(t)) /\ Sends(Does(t)) /\ pc[r] = "send"
  BY <1>1 DEF PlaceInv, InvSteps, StepFits, Send, Sends, Touches
<1>3. /\ pc' = [pc EXCEPT ![r] = "notify"]
      /\ UNCHANGED <<hostVars, tensors, sig, submitted, done, fifo, running, blk, tile>>
  BY DEF Send
<1>4. PlaceInv'
  <2>1. StepFits(program, Does(t), "notify")
    BY <1>2 DEF StepFits
  <2>2. blk' \in [Ranks -> Blocks]
    BY <1>3 DEF PlaceInv, TypePlace
  <2> QED
    BY <1>1, <1>3, <2>1, <2>2, PlaceStay
<1>5. InvSignals' /\ SignalMeansDelivered' /\ DOMAIN window' = WindowCells'
  BY <1>4, SendStep
<1>6. pc'[r] = "notify" /\ OthersStay(r)
  BY <1>3 DEF OthersStay, PlaceInv, TypePlace
<1>7. InvTile'
  <2>1. tile'[r] = Got(program, calls, Does(running'[r]), r, blk'[r])
    BY <1>2, <1>3 DEF InvTile
  <2> QED
    BY <1>3, <1>6, <2>1, TileStep DEF InvTile
<1>8. InvTensors' /\ InvContents'
  <2>1. UNCHANGED <<program, tokens, done, running, blk>>
    BY <1>3 DEF hostVars
  <2>2. \A u \in Tasks : \A n, k : Wrote(u, n, k)' => Wrote(u, n, k)
    BY <1>1, <1>2, <1>3, <2>1, WroteStay
  <2> QED
    BY <1>3, <2>2, ContentsFrame DEF DataInv
<1>9. DataInv'
  <2>1. Keys' = Keys /\ WindowCells' = WindowCells
    BY <1>3, Rigid DEF hostVars
  <2> QED
    BY <1>3, <1>5, <1>8, <2>1 DEF DataInv, TypeData
<1> QED
  BY <1>4, <1>5, <1>7, <1>9

LEMMA NotifyKeeps ==
  ASSUME Inv, NEW r \in Ranks, Notify(r)
  PROVE  Inv'
<1> USE DEF Inv
<1>1. PICK t \in Tasks, b \in Blocks : t = running[r] /\ b = blk[r] /\ running[r] # Nobody
  BY Busy DEF PlaceInv, InvPlaces, Notify
<1>2. Touches(Does(t)) /\ pc[r] = "notify"
  BY <1>1 DEF PlaceInv, InvSteps, StepFits, Notify, Sends, Touches
<1>3. UNCHANGED <<hostVars, tensors, window, submitted, fifo, tile>>
  BY DEF Notify
<1>4. PlaceInv'
  <2>1. CASE /\ \E x \in {"await", "reduce"} : pc' = [pc EXCEPT ![r] = x] /\ StepFits(program, Does(t), x)
             /\ UNCHANGED <<running, done, blk>>
    <3>1. PICK x \in {"await", "reduce"} : pc' = [pc EXCEPT ![r] = x] /\ StepFits(program, Does(t), x)
      BY <2>1
    <3>2. blk' \in [Ranks -> Blocks]
      BY <2>1 DEF PlaceInv, TypePlace
    <3>3. x \in {"receive", "send", "notify", "await", "reduce"}
      OBVIOUS
    <3> QED
      BY <1>1, <1>3, <2>1, <3>1, <3>2, <3>3, PlaceStay
  <2>2. CASE NextBlock(r)
    BY <1>1, <1>2, <1>3, <2>2, PlaceNext
  <2> QED
    BY <1>1, <2>1, <2>2, NotifyMoves
<1>5. /\ InvSignals' /\ SignalMeansDelivered' /\ sig' \in [WindowCells -> Nat]
      /\ \A u \in Tasks : \A n \in Stores(program, Does(u)) : \A k \in Blocks :
           Wrote(u, n, k)' => Wrote(u, n, k)
      /\ OthersStay(r)
      /\ pc'[r] = "reduce" => UNCHANGED <<running, blk>>
  BY <1>4, NotifyStep DEF DataInv
<1>6. InvTile'
  <2>1. pc'[r] \in {"send", "notify", "reduce"} => pc'[r] = "reduce"
    <3>1. CASE \E x \in {"await", "reduce"} : pc' = [pc EXCEPT ![r] = x]
      BY <3>1 DEF PlaceInv, TypePlace
    <3>2. CASE NextBlock(r)
      BY <1>3, <3>2, NextMoves
    <3> QED
      BY <1>1, <3>1, <3>2, NotifyMoves
  <2>2. pc'[r] = "reduce" => tile'[r] = Got(program, calls, Does(running'[r]), r, blk'[r])
    BY <1>2, <1>3, <1>5 DEF InvTile
  <2> QED
    BY <1>3, <1>5, <2>1, <2>2, TileStep DEF InvTile
<1>7. InvTensors' /\ InvContents'
  BY <1>3, <1>5, ContentsFrame DEF DataInv
<1>8. DataInv'
  <2>1. Keys' = Keys /\ WindowCells' = WindowCells
    BY <1>3, Rigid DEF hostVars
  <2> QED
    BY <1>3, <1>5, <1>7, <2>1 DEF DataInv, TypeData
<1> QED
  BY <1>4, <1>5, <1>6, <1>8

\* A step that leaves every device and the windows alone.
LEMMA FrameInv ==
  ASSUME Inv, PlaceInv',
         UNCHANGED <<program, tokens, calls, tensors, winVars, done, running, pc, blk, tile>>,
         active' => active
  PROVE  Inv'
<1> USE DEF Inv
<1>1. /\ program' = program /\ tokens' = tokens /\ calls' = calls
      /\ window' = window /\ sig' = sig /\ tensors' = tensors
      /\ UNCHANGED <<done, running, pc, blk, tile>>
  BY DEF winVars
<1>2. Tasks' = Tasks /\ Blocks' = Blocks /\ Keys' = Keys /\ WindowCells' = WindowCells
  BY <1>1, Rigid
<1>3. InvTensors' /\ TypeData'
  BY <1>1, <1>2 DEF DataInv, InvTensors, TypeData
<1>4. InvContents'
  BY <1>1, <1>2 DEF DataInv, InvContents, Wrote, Does
<1>5. InvTile'
  BY <1>1 DEF InvTile, Does
<1>6. SignalMeansDelivered'
  BY <1>1, <1>2 DEF SignalMeansDelivered
<1>7. InvRaised' /\ InvSent'
  <2>1. InvRaised /\ InvSent
    BY SentIs
  <2>2. InvRaised'
    BY <1>1, <1>2, <2>1 DEF InvRaised, Past, Does
  <2>3. InvSent'
    BY <1>1, <1>2, <2>1 DEF InvSent, Does, SentTo
  <2> QED
    BY <2>2, <2>3
<1>8. InvSignals'
  BY <1>7, SentIs, PTL
<1> QED
  BY <1>3, <1>4, <1>5, <1>6, <1>8 DEF DataInv

LEMMA SubmitKeeps ==
  ASSUME Inv, NEW t \in Tasks \ submitted, Submit(t)
  PROVE  Inv'
<1> USE DEF Inv
<1>1. t \in Tasks /\ t \notin submitted
  OBVIOUS
<1>2. /\ active /\ submitted' = submitted \cup {t}
      /\ IF ReadyNow(t) THEN Append1(t) ELSE UNCHANGED fifo
      /\ UNCHANGED <<hostVars, tensors, winVars, done, running, pc, blk, tile>>
  BY DEF Submit
<1>3. t \notin Routed
  <2>1. t # Nobody
    BY <1>1, HostIs, TaskTyped DEF PlaceInv, Tasks
  <2> QED
    BY <1>1, <2>1 DEF Routed, PlaceInv, TypePlace
<1>4. PlaceInv'
  <2>1. CASE ReadyNow(t)
    BY <1>1, <1>2, <1>3, <2>1, PlaceAppend
  <2>2. CASE ~ReadyNow(t)
    BY <1>1, <1>2, <2>2, PlaceSubmit
  <2> QED
    BY <2>1, <2>2
<1> QED
  BY <1>2, <1>4, FrameInv DEF hostVars

LEMMA ReleaseKeeps ==
  ASSUME Inv, NEW t \in Pending, Release(t)
  PROVE  Inv'
<1> USE DEF Inv
<1>1. t \in submitted /\ t \notin Routed /\ t \notin done
  BY DEF Pending, Routed
<1>2. t \in Tasks /\ active /\ submitted = submitted \cup {t}
  BY <1>1 DEF PlaceInv, TypePlace, InvPlaces
<1>3. PlaceInv'
  BY <1>1, <1>2, PlaceAppend DEF Release
<1> QED
  BY <1>3, FrameInv DEF hostVars, Release

LEMMA ReturnKeeps ==
  ASSUME Inv, Return
  PROVE  Inv'
<1> USE DEF Inv
<1>1. PlaceInv'
  BY PlaceReturn
<1> QED
  BY <1>1, FrameInv DEF Return

LEMMA DispatchKeeps ==
  ASSUME Inv, NEW r \in Ranks, Dispatch(r)
  PROVE  Inv'
<1> USE DEF Inv
<1>1. PlaceInv' /\ active
  BY PlaceDispatch
<1>2. PICK t : t = Head(fifo[r])
  OBVIOUS
<1>3. /\ running[r] = Nobody /\ running' = [running EXCEPT ![r] = t]
      /\ pc' = [pc EXCEPT ![r] = IF Touches(Does(t)) THEN "receive" ELSE "compute"]
      /\ blk' = [blk EXCEPT ![r] = 0]
      /\ UNCHANGED <<hostVars, tensors, winVars, submitted, done, tile>>
  BY <1>2 DEF Dispatch
<1>4. /\ running'[r] = t /\ pc'[r] = (IF Touches(Does(t)) THEN "receive" ELSE "compute") /\ blk'[r] = 0
      /\ OthersStay(r)
  BY <1>3 DEF OthersStay, PlaceInv, TypePlace, InvPlaces
<1>5. program' = program /\ tokens' = tokens /\ Tasks' = Tasks /\ Blocks' = Blocks /\ Keys' = Keys
      /\ WindowCells' = WindowCells
  BY <1>3, Rigid DEF hostVars
<1>6. \A u \in Tasks : u[2] \in Ranks /\ u # Nobody
  BY HostIs, TaskTyped DEF PlaceInv, Tasks
<1>7. \A k \in Blocks : ~(k < 0)
  <2>1. PICK m \in Nat : Blocks = 0..m
    BY HostIs, BlocksAre DEF PlaceInv, Blocks
  <2> QED
    BY <2>1
<1>8. \A u \in Tasks : \A n \in Stores(program, Does(u)) : \A k \in Blocks :
        Wrote(u, n, k)' => Wrote(u, n, k)
  BY <1>3, <1>4, <1>5, <1>6, <1>7 DEF Wrote, Does, OthersStay
<1>9. PastStays
  BY <1>3, <1>4, <1>5, <1>6 DEF PastStays, Past, Does, OthersStay
<1>10. InvTensors' /\ InvContents'
  BY <1>3, <1>8, ContentsFrame DEF DataInv
<1>11. DataInv'
  BY <1>3, <1>5, <1>10 DEF DataInv, TypeData, winVars
<1>12. InvTile'
  BY <1>3, <1>4, TileStep DEF InvTile
<1>13. InvSignals' /\ SignalMeansDelivered'
  BY <1>1, <1>3, <1>4, <1>9, SignalsStep
<1> QED
  BY <1>1, <1>11, <1>12, <1>13

\* A compute dispatch makes its tensors whole, and completes.
LEMMA ComputeKeeps ==
  ASSUME Inv, NEW r \in Ranks, Compute(r)
  PROVE  Inv'
<1> USE DEF Inv
<1>1. PICK t \in Tasks : t = running[r] /\ running[r] # Nobody
  BY Busy DEF PlaceInv, InvPlaces, Compute
<1>2. PICK read : read = [n \in Does(t).reads |-> Own(n, t)]
  OBVIOUS
<1>3. /\ tensors' = [x \in Keys |-> IF x \in Named(t, Does(t).writes) THEN Made(program, x[1], calls, r, read)
                                    ELSE tensors[x]]
      /\ Idle(r) /\ pc[r] = "compute"
      /\ UNCHANGED <<hostVars, winVars, submitted, fifo, blk, tile>>
  BY <1>1, <1>2 DEF Compute
<1>4. /\ program \in Programs /\ t \in TasksOf[program] /\ t[2] = r /\ active
      /\ Producers[<<program, tokens>>][t] \subseteq done
  BY <1>1, HostIs, Busy DEF PlaceInv, Tasks
<1>5. ~Touches(Does(t))
  BY <1>1, <1>3 DEF PlaceInv, InvSteps, StepFits
<1>6. /\ program' = program /\ tokens' = tokens /\ calls' = calls /\ active' = active
      /\ window' = window /\ sig' = sig
      /\ Tasks' = Tasks /\ Blocks' = Blocks /\ Keys' = Keys /\ WindowCells' = WindowCells
  BY <1>3, Rigid DEF hostVars, winVars
<1>7. PlaceInv'
  BY <1>1, <1>3, PlaceFinish
<1>8. /\ done' = done \cup {t} /\ running'[r] = Nobody /\ pc'[r] = "idle"
      /\ OthersStay(r)
  BY <1>1, <1>3 DEF Idle, OthersStay, PlaceInv, TypePlace, InvPlaces
<1>9. \A n \in Does(t).writes : Tracked(n) => Made(program, n, calls, r, read) = Holds(program, n, calls, r)
  <2> SUFFICES ASSUME NEW n \in Does(t).writes, Tracked(n)
               PROVE  Made(program, n, calls, r, read) = Holds(program, n, calls, r)
    OBVIOUS
  <2>1. read = [m \in Does(t).reads |-> read[m]]
    BY <1>2
  <2>2. \A m \in Does(t).reads : Tracked(m) => read[m] = Holds(program, m, calls, r)
    BY <1>2, <1>4, ReadsHold
  <2> QED
    BY <1>4, <1>5, <2>1, <2>2, Computed DEF Does
<1>10. \A x \in Keys : ~(x \in Named(t, Does(t).writes)) => tensors'[x] = tensors[x]
  BY <1>3
<1>11. \A n \in Does(t).writes : <<n, t[1], t[2]>> \in Keys /\
         tensors'[<<n, t[1], t[2]>>] = Made(program, n, calls, r, read)
  <2> SUFFICES ASSUME NEW n \in Does(t).writes
               PROVE  /\ <<n, t[1], t[2]>> \in Keys
                      /\ tensors'[<<n, t[1], t[2]>>] = Made(program, n, calls, r, read)
    BY Zenon
  <2>1. n \in Names /\ t[1] \in Rings /\ t[2] \in Ranks
    BY <1>4, NamedIn, TaskTyped DEF Does, Names, Rings
  <2>a. PICK x : x = <<n, t[1], t[2]>>
    OBVIOUS
  <2>2. x \in Keys /\ x = <<n, t[1], t[2]>> /\ x[1] = n
    BY <2>1, <2>a DEF Keys
  <2>3. x \in Named(t, Does(t).writes)
    BY <2>2 DEF Named
  <2>4. tensors'[x] = Made(program, n, calls, r, read)
    BY <1>3, <2>2, <2>3
  <2> QED
    BY <2>2, <2>4
<1>12. \A x \in Keys : x \in Named(t, Does(t).writes) =>
         x[1] \in Does(t).writes /\ x = <<x[1], t[1], t[2]>> /\ x[3] = r
  BY <1>4 DEF Named
<1>13. \A n \in Does(t).writes : ~Given(program, n, r)
  <2>1. \A n : ~Tracked(n) => ~Given(program, n, r)
    BY <1>4 DEF Tracked, Given, StagedOf, Programs, Probes
  <2>2. \A n \in Does(t).writes : n \in Stores(program, Does(t))
    BY <1>5 DEF Stores
  <2>3. \A n \in Does(t).writes : Tracked(n) => ~Given(program, n, r)
    BY <1>4, <2>2, StoresIn DEF Does
  <2> QED
    BY <2>1, <2>3
<1>14. \A x \in Keys : Given(program, x[1], x[3]) => tensors'[x] = tensors[x]
  BY <1>10, <1>12, <1>13
<1>15. InvTensors'
  <2>1. \A x \in Keys : x[1] = "zero" => tensors'[x] = Blank(program)
    BY <1>14 DEF Given, DataInv, InvTensors
  <2>2. \A x \in Keys : tensors'[x] = [k \in Blocks |-> tensors'[x][k]]
    <3> SUFFICES ASSUME NEW x \in Keys PROVE tensors'[x] = [k \in Blocks |-> tensors'[x][k]]
      OBVIOUS
    <3>1. PICK f : f = tensors'[x]
      OBVIOUS
    <3>2. CASE x \in Named(t, Does(t).writes)
      <4>1. f = Made(program, x[1], calls, r, read)
        BY <1>3, <3>1, <3>2
      <4>2. Made(program, x[1], calls, r, read) = [k \in BlocksOf[program] |-> Made(program, x[1], calls, r, read)[k]]
        BY MadeShape
      <4>3. f = [k \in BlocksOf[program] |-> f[k]]
        BY <4>1, <4>2
      <4> QED
        BY <3>1, <4>3 DEF Blocks
    <3>3. CASE ~(x \in Named(t, Does(t).writes))
      BY <1>10, <3>3 DEF DataInv, InvTensors
    <3> QED
      BY <3>2, <3>3
  <2> QED
    BY <1>6, <2>1, <2>2 DEF InvTensors
<1>16. ASSUME NEW u \in Tasks, NEW n \in Stores(program, Does(u)), NEW k \in Blocks,
              Tracked(n), Wrote(u, n, k)'
       PROVE  tensors'[<<n, u[1], u[2]>>][k] = Holds(program, n, calls, u[2])[k]
  <2>1. CASE u = t
    <3>1. n \in Does(t).writes
      BY <1>5, <2>1, <1>16 DEF Stores
    <3>2. tensors'[<<n, t[1], t[2]>>] = Holds(program, n, calls, r)
      BY <1>9, <1>11, <1>16, <3>1
    <3> QED
      BY <1>4, <2>1, <3>2
  <2>2. CASE u # t
    <3>1. u[2] \in Ranks /\ u # Nobody /\ u[1] \in Rings /\ n \in Names /\ n \in Does(u).writes
      BY <1>4, HostIs, TaskTyped, StoresIn, NamedIn DEF Tasks, Does, Rings, Names
    <3>2. Wrote(u, n, k)
      BY <1>6, <1>8, <1>16, <2>2, <3>1 DEF Wrote, Does, OthersStay
    <3>a. PICK x : x = <<n, u[1], u[2]>>
      OBVIOUS
    <3>3. x \in Keys /\ x = <<n, u[1], u[2]>> /\ x[1] = n
      BY <3>1, <3>a DEF Keys
    <3>4. ~(x \in Named(t, Does(t).writes))
      <4> SUFFICES ASSUME x \in Named(t, Does(t).writes) PROVE FALSE
        OBVIOUS
      <4>1. n \in Does(t).writes /\ u[1] = t[1] /\ u[2] = t[2]
        BY <1>12, <3>3
      <4> QED
        BY <1>4, <1>16, <2>2, <3>1, <4>1, UniqueWriter DEF Does, Tasks
    <3>5. tensors[x][k] = Holds(program, n, calls, u[2])[k]
      BY <1>4, <1>16, <3>2, <3>3 DEF DataInv, InvContents
    <3> QED
      BY <1>10, <3>3, <3>4, <3>5
  <2> QED
    BY <2>1, <2>2
<1>17. \A x \in Keys : Given(program, x[1], x[3]) => tensors'[x] = Holds(program, x[1], calls, x[3])
  BY <1>4, <1>14 DEF DataInv, InvContents
<1>18. InvContents'
  BY <1>6, <1>16, <1>17 DEF InvContents, Does
<1>19. DataInv'
  BY <1>3, <1>6, <1>15, <1>18 DEF DataInv, TypeData
<1>20. InvTile'
  BY <1>3, <1>8, TileStep DEF InvTile
<1>21. InvSignals' /\ SignalMeansDelivered'
  <2>1. PastStays
    <3>1. \A u \in Tasks : u[2] \in Ranks
      BY <1>4, TaskTyped DEF Tasks
    <3> QED
      BY <1>1, <1>5, <1>6, <1>8, <3>1 DEF PastStays, Past, Does, OthersStay
  <2> QED
    BY <1>3, <1>7, <1>8, <2>1, SignalsStep
<1> QED
  BY <1>7, <1>19, <1>20, <1>21

\* A call begins: the inputs are staged, nothing is made yet.
LEMMA StartKeeps ==
  ASSUME Inv, StartCall
  PROVE  Inv'
<1> USE DEF Inv
<1>1. PlaceInv' /\ \A r \in Ranks : running[r] = Nobody /\ pc[r] = "idle"
  BY PlaceStart
<1>2. /\ program' = program /\ tokens' = tokens /\ calls' = calls + 1 /\ active' = TRUE
      /\ window' = [c \in WindowCells |-> Zero] /\ sig' = [c \in WindowCells |-> 0]
      /\ done' = {} /\ UNCHANGED <<running, pc, blk, tile>>
      /\ tensors' = [x \in Keys |->
           IF x[1] \in Outputs \/ (x[1] = "out_prev" /\ x[3] = 0) THEN Blank(program)
           ELSE IF x[1] \in Staged THEN Made(program, x[1], calls + 1, x[3], NothingRead)
           ELSE tensors[x]]
  BY DEF StartCall
<1>3. Tasks' = Tasks /\ Blocks' = Blocks /\ Keys' = Keys /\ WindowCells' = WindowCells
  BY <1>2, Rigid
<1>4. program \in Programs
  BY HostIs DEF PlaceInv
<1>5. \A u \in Tasks : u[2] \in Ranks /\ u # Nobody
  BY <1>4, TaskTyped DEF Tasks
<1>6. PICK c : c = calls + 1
  OBVIOUS
<1>7. ASSUME NEW x \in Keys, x[1] = "zero"
      PROVE  tensors'[x] = Blank(program)
  <2>1. x[1] \notin Outputs /\ x[1] \notin Staged
    BY <1>4, <1>7 DEF Outputs, Staged, OutputsOf, StagedOf, Programs, Probes
  <2> QED
    BY <1>2, <1>7, <2>1 DEF DataInv, InvTensors
<1>8. ASSUME NEW x \in Keys, Given(program, x[1], x[3])
      PROVE  tensors'[x] = Holds(program, x[1], c, x[3])
  <2>1. CASE x[1] = "zero"
    BY <1>4, <1>7, <2>1, HoldsIs
  <2>2. CASE x[1] \in Staged /\ ~(x[1] = "out_prev" /\ x[3] = 0)
    <3>1. x[1] \notin Outputs /\ x[1] \in {"S_local", "g_out", "out_prev", "X"}
      BY <1>4, <2>2 DEF Outputs, Staged, OutputsOf, StagedOf, Programs, Probes
    <3>2. tensors'[x] = Made(program, x[1], c, x[3], NothingRead)
      BY <1>2, <1>6, <2>2, <3>1
    <3>3. Holds(program, x[1], c, x[3]) = Made(program, x[1], c, x[3], NothingRead)
      BY <1>4, <2>2, <3>1, HoldsIs
    <3> QED
      BY <3>2, <3>3
  <2>3. CASE x[1] = "out_prev" /\ x[3] = 0
    <3>1. tensors'[x] = Blank(program)
      BY <1>2, <2>3
    <3> QED
      BY <1>4, <2>3, <3>1, HoldsIs
  <2>4. CASE program = "allscan_backward" /\ x[1] = "dgamma" /\ x[3] = 0
    <3>1. x[1] \in Outputs
      BY <2>4 DEF Outputs, OutputsOf, Probes
    <3>2. tensors'[x] = Blank(program)
      BY <1>2, <3>1
    <3>3. Holds(program, "dgamma", c, 0) = [k \in BlocksOf[program] |-> GammaGradOf(program, c, 0, k)]
      BY <1>4, HoldsIs
    <3>4. \A k \in BlocksOf[program] : GammaGradOf(program, c, 0, k) = Zero
      BY DEF GammaGradOf, Zero
    <3>5. Holds(program, "dgamma", c, 0) = Blank(program)
      BY <3>3, <3>4 DEF Blank
    <3> QED
      BY <2>4, <3>2, <3>5
  <2> QED
    BY <1>8, <2>1, <2>2, <2>3, <2>4 DEF Given, Staged
<1>9. InvTensors'
  <2>1. \A x \in Keys : tensors'[x] = [k \in Blocks |-> tensors'[x][k]]
    <3> SUFFICES ASSUME NEW x \in Keys PROVE tensors'[x] = [k \in Blocks |-> tensors'[x][k]]
      OBVIOUS
    <3>1. PICK f, m : f = tensors'[x] /\ m = Made(program, x[1], calls + 1, x[3], NothingRead)
      OBVIOUS
    <3>2. f = Blank(program) \/ f = m \/ f = tensors[x]
      BY <1>2, <3>1
    <3>3. Blank(program) = [k \in Blocks |-> Blank(program)[k]]
      BY DEF Blank, Blocks
    <3>4. m = [k \in Blocks |-> m[k]]
      BY <3>1, MadeShape DEF Blocks
    <3>5. tensors[x] = [k \in Blocks |-> tensors[x][k]]
      BY DEF DataInv, InvTensors
    <3> QED
      BY <3>1, <3>2, <3>3, <3>4, <3>5
  <2> QED
    BY <1>2, <1>3, <1>7, <2>1 DEF InvTensors
<1>10. \A u \in Tasks : \A n, k : ~Wrote(u, n, k)'
  BY <1>1, <1>2, <1>5 DEF Wrote
<1>11. InvContents'
  BY <1>2, <1>3, <1>6, <1>8, <1>10 DEF InvContents, Does
<1>12. DataInv'
  BY <1>2, <1>3, <1>9, <1>11 DEF DataInv, TypeData
<1>13. InvTile'
  BY <1>1, <1>2 DEF InvTile
<1>14. InvSignals' /\ SignalMeansDelivered'
  <2>1. \A x \in WindowCells : ~(sig'[x] >= 1)
    BY <1>2
  <2> QED
    BY <1>1, <1>2, <1>3, <2>1 DEF InvSignals, SignalMeansDelivered
<1> QED
  BY <1>1, <1>12, <1>13, <1>14

-----------------------------------------------------------------------------
(* The theorems *)

LEMMA InvIs == DispatchInv <=> Inv
  BY TypeParts DEF DispatchInv, Inv, PlaceInv, DataInv

LEMMA InitCase ==
  ASSUME Init
  PROVE  Inv
<1>1. PICK case \in Cases : program = case[1] /\ tokens = case[2]
  BY DEF Init
<1>2. PICK p \in Programs, s \in BOOLEAN : case = <<p, s>>
  BY DispatchAssumption
<1>3. <<program, tokens>> \in Cases /\ program \in Programs
  BY <1>1, <1>2
<1>4. /\ calls = 0 /\ active = FALSE
      /\ tensors = [x \in Keys |-> Blank(program)]
      /\ window = [c \in WindowCells |-> Zero]
      /\ sig = [c \in WindowCells |-> 0]
      /\ submitted = {} /\ done = {}
      /\ fifo = [r \in Ranks |-> <<>>]
      /\ running = [r \in Ranks |-> Nobody]
      /\ pc = [r \in Ranks |-> "idle"]
      /\ blk = [r \in Ranks |-> 0]
      /\ tile = [r \in Ranks |-> Zero]
  BY DEF Init
<1>5. TypeHost
  <2>1. active \in BOOLEAN
    BY <1>4, Zenon
  <2>2. calls \in 0..MaxCalls
    BY <1>4, DispatchAssumption
  <2> QED
    BY <1>3, <2>1, <2>2 DEF TypeHost
<1>6. 0 \in Blocks
  BY <1>3, BlocksAre DEF Blocks
<1>7. Elements(<<>>) = {} /\ Distinct(<<>>)
  BY DEF Elements, Distinct
<1>8. TypePlace
  BY <1>4, <1>6, <1>7 DEF TypePlace
<1>9. InvPlaces
  <2>1. fifo \in [Ranks -> Seq(Tasks)]
    BY <1>4
  <2>2. running \in [Ranks -> Tasks \cup {Nobody}]
    BY <1>4
  <2> QED
    BY <1>4, <1>7, <2>1, <2>2 DEF InvPlaces
<1>10. InvSteps
  BY <1>4 DEF InvSteps
<1>11. TypeData /\ InvTensors /\ InvContents
  BY <1>4 DEF TypeData, InvTensors, InvContents, Blank, Blocks
<1>12. InvTile
  BY <1>4 DEF InvTile
<1>13. InvSignals /\ SignalMeansDelivered
  BY <1>4 DEF InvSignals, SignalMeansDelivered
<1> QED
  BY <1>5, <1>8, <1>9, <1>10, <1>11, <1>12, <1>13 DEF Inv, PlaceInv, DataInv

LEMMA NextCase ==
  ASSUME Inv, [Next]_vars
  PROVE  Inv'
<1>1. CASE StartCall
  BY <1>1, StartKeeps
<1>2. ASSUME NEW t \in Tasks \ submitted, Submit(t) PROVE Inv'
  BY <1>2, SubmitKeeps
<1>3. ASSUME NEW t \in Pending, Release(t) PROVE Inv'
  BY <1>3, ReleaseKeeps
<1>4. CASE Return
  BY <1>4, ReturnKeeps
<1>5. ASSUME NEW r \in Ranks, Device(r) PROVE Inv'
  BY <1>5, DispatchKeeps, ComputeKeeps, ReceiveStep, SendKeeps, NotifyKeeps, AwaitStep, ReduceStep DEF Device
<1>6. CASE UNCHANGED vars
  <2>1. UNCHANGED <<hostVars, tensors, winVars, submitted, done, fifo, running, pc, blk, tile>>
    BY <1>6 DEF vars
  <2>2. PlaceInv'
    <3>1. Tasks' = Tasks /\ Blocks' = Blocks
      BY <2>1, Rigid DEF hostVars
    <3>2. TypeHost' /\ TypePlace' /\ InvPlaces' /\ InvSteps'
      BY <2>1, <3>1 DEF Inv, PlaceInv, TypeHost, TypePlace, InvPlaces, InvSteps, hostVars, Does
    <3> QED
      BY <3>2 DEF PlaceInv
  <2> QED
    BY <2>1, <2>2, FrameInv DEF hostVars
<1>7. Finished => UNCHANGED vars
  BY DEF Finished
<1> QED
  BY <1>1, <1>2, <1>3, <1>4, <1>5, <1>6, <1>7 DEF Next, Progress

\* The inductive invariant: where every dispatch is, what every tensor, block
\* and window holds, and who raised a signal, in every program and for any
\* number of ranks, blocks and rings.
THEOREM DispatchInvariant == Spec => []DispatchInv
<1>1. Init => Inv
  BY InitCase
<1>2. Inv /\ [Next]_vars => Inv'
  BY NextCase
<1>3. Spec => []Inv
  BY <1>1, <1>2, PTL DEF Spec
<1>4. Inv => DispatchInv
  BY InvIs
<1> QED
  BY <1>3, <1>4, PTL

\* Types: contents and positions keep their shapes, and no device runs past its
\* loop over the blocks.
THEOREM TypeCorrect == Spec => []TypeOK
<1>1. DispatchInv => TypeOK
  BY DEF DispatchInv
<1> QED
  BY <1>1, DispatchInvariant, PTL

\* A raised signal means that the block the neighbour owes is in the window,
\* whole and of this call, with tokens or without.
THEOREM Delivery == Spec => []SignalMeansDelivered
<1>1. DispatchInv => SignalMeansDelivered
  BY DEF DispatchInv
<1> QED
  BY <1>1, DispatchInvariant, PTL

\* The windows change only where a device sends, and there no signal is up.
LEMMA StableStep ==
  ASSUME Inv, [Next]_vars, active, NEW c \in WindowCells, sig[c] >= 1
  PROVE  window'[c] = window[c]
<1>1. ASSUME NEW r \in Ranks, Send(r) PROVE window'[c] = window[c]
  <2>1. PICK t \in Tasks, b \in Blocks : t = running[r] /\ b = blk[r]
    BY <1>1, Busy DEF Inv, PlaceInv, InvPlaces, Send
  <2>2. OutCell(t) = SentTo(program, t, b) /\ ~(sig[SentTo(program, t, b)] >= 1)
    BY <1>1, <2>1, SendFresh DEF Inv, Send
  <2>3. OutCell(t) # c
    BY <2>2
  <2>4. window' = [window EXCEPT ![OutCell(t)] = Message(t)]
    BY <1>1, <2>1 DEF Send
  <2>5. DOMAIN window = WindowCells
    BY DEF Inv, DataInv, TypeData
  <2> QED
    BY <2>3, <2>4, <2>5
<1>2. ASSUME NEW r \in Ranks, Device(r), ~Send(r) PROVE window' = window
  BY <1>2 DEF Device, Dispatch, Compute, Receive, Notify, Await, Reduce, winVars
<1>3. ASSUME NEW t, Submit(t) \/ Release(t) PROVE window' = window
  BY <1>3 DEF Submit, Release, winVars
<1>4. CASE Return \/ Finished \/ UNCHANGED vars
  BY <1>4 DEF Return, Finished, vars, winVars
<1>5. ~StartCall
  BY DEF StartCall
<1> QED
  BY <1>1, <1>2, <1>3, <1>4, <1>5 DEF Next, Progress

\* Nothing is stored over a block whose signal is up, by the other ring of the
\* program, by another ring of the batch, or twice by the same.
THEOREM Stability == Spec => RecvStable
<1>1. Inv /\ [Next]_vars => [\A c \in WindowCells : active /\ sig[c] >= 1 => window'[c] = window[c]]_vars
  BY StableStep
<1>2. DispatchInv => Inv
  BY InvIs
<1> QED
  BY <1>1, <1>2, DispatchInvariant, PTL DEF Spec, RecvStable

\* Who makes the outputs of a program.
LEMMA OutputMade ==
  ASSUME NEW p \in Programs, p \notin Probes, NEW n \in OutputsOf(p), NEW g \in RingsOf[p], NEW r \in Ranks
  PROVE  \/ p = "allscan_backward" /\ n = "dgamma" /\ r = 0
         \/ \E t \in TasksOf[p] : t[1] = g /\ t[2] = r /\ n \in Stores(p, In(p, t))
<1> DEFINE i == CASE p \in Collectives -> 1 [] p = "forward" -> 3 [] p = "backward" -> 5 [] OTHER -> 4
           d == Body[p][r][i]
<1>0. /\ p = "allscan" => OutputsOf(p) = {"S_out"}
      /\ p = "allscan_backward" => OutputsOf(p) = {"dS_total", "dgamma"}
      /\ p = "forward" => OutputsOf(p) = {"O"}
      /\ p \in {"backward", "stub_reverse", "stub_forward"} => OutputsOf(p) = {"grads"}
  BY DEF OutputsOf, Probes
<1>1. PICK j \in 1..5 : j = i /\ j <= LengthOf(p, r)
  BY DEF LengthOf, Programs, Probes, Collectives
<1>2. PICK t \in TasksOf[p] : t = <<g, r, j>>
  BY <1>1, IsTask
<1>3. Row(p, r, j, d) /\ In(p, t) = d
  BY <1>1, <1>2, RowIs DEF In
<1>4. CASE p = "allscan"
  BY <1>0, <1>1, <1>2, <1>3, <1>4, ForwardStores DEF Row, Collectives
<1>5. CASE p = "allscan_backward"
  <2>1. IsReverse(p, r, d)
    BY <1>3, <1>5 DEF Row
  <2>2. Stores(p, d) = IF d.op = "terminal" THEN {"dS_total"} ELSE {"dS_total", "dgamma"}
    BY <1>5, <2>1, ReverseStoresAre DEF Collectives
  <2>3. d.op = "terminal" => r = 0
    BY <2>1 DEF IsReverse, IsDispatch
  <2> QED
    BY <1>0, <1>2, <1>3, <1>5, <2>2, <2>3
<1>6. CASE p = "forward"
  <2>1. IsCalc(d, "stage2", {"snaps", Boundary(p, r)}, {"O"})
    BY <1>1, <1>3, <1>6 DEF Row, Collectives, StageRow
  <2>2. Stores(p, d) = {"O"}
    BY <2>1 DEF IsCalc, IsDispatch, Stores, Touches
  <2> QED
    BY <1>0, <1>2, <1>3, <1>6, <2>2
<1>7. CASE p \in {"backward", "stub_reverse", "stub_forward"}
  <2>1. GradHRow(d, Adjoints) \/ GradHRow(d, {"zero"})
    BY <1>1, <1>3, <1>7 DEF Row, Collectives, StageRow
  <2> HIDE DEF d, i
  <2>2. d.wait = None /\ d.send = None /\ d.writes = {"grads"}
    BY <2>1 DEF GradHRow, IsCalc, IsDispatch
  <2>3. ~Touches(d)
    BY <2>2 DEF Touches
  <2>4. Stores(p, d) = {"grads"}
    BY <2>2, <2>3 DEF Stores
  <2> QED
    BY <1>0, <1>2, <1>3, <1>7, <2>4
<1> QED
  BY <1>4, <1>5, <1>6, <1>7 DEF Programs


\* Where a probe keeps what it receives.
LEMMA KeptAt ==
  ASSUME NEW p \in Probes, NEW on \in {"forward", "reverse"},
         p = "rev" => on = "reverse", p \in {"fwd", "fwd5"} => on = "forward",
         NEW r, r = SendRank(p, on) + HopOf(p, on)
  PROVE  /\ r \in {0, 1} /\ KeepPos(p, on) \in 1..LengthOf(p, r)
         /\ LET d == Body[p][r][KeepPos(p, on)] IN
            /\ d.op \in {"recv", "send_then_wait", "wait_then_send"}
            /\ d.wait = on /\ d.into = Into(on) /\ Into(on) \in d.writes
<1> DEFINE i == KeepPos(p, on)
           d == Body[p][r][i]
           Good(x) == /\ x.op \in {"recv", "send_then_wait", "wait_then_send"}
                      /\ x.wait = on /\ x.into = Into(on) /\ Into(on) \in x.writes
<1> USE DEF SendRank, HopOf, KeepPos
<1>1. r \in {0, 1} /\ i \in 1..LengthOf(p, r)
  BY DEF LengthOf, Probes, Collectives
<1>2. Body[p][r] = ProbeBody(p, r)
  BY <1>1, BodyOf, ProgramAssumption DEF Programs, Ranks
<1>3. CASE on = "forward"
  <2>1. /\ Good(Recv("Rf", "forward"))
        /\ Good(RecvDep("Rf", "forward", "Echo")) /\ Good(RecvDep("Rf", "forward", "T0"))
        /\ Good(Joined("wait_then_send", SendBack("T0"), Recv("Rf", "forward")))
    BY <1>3, RecvIs, RecvDepIs, JoinedIs DEF IsDispatch, Into, SendBack
  <2>2. d \in {Recv("Rf", "forward"), RecvDep("Rf", "forward", "Echo"), RecvDep("Rf", "forward", "T0"),
               Joined("wait_then_send", SendBack("T0"), Recv("Rf", "forward"))}
    <3>1. CASE p \in {"fwd", "fwd5"}
      BY <1>2, <1>3, <3>1 DEF ProbeBody, OneRing
    <3>2. CASE p \in {"both", "sendfirst"}
      BY <1>2, <1>3, <3>2 DEF ProbeBody, TwoRings, Between
    <3>3. CASE p \in {"bothdep", "sendfirstdep"}
      BY <1>2, <1>3, <3>3 DEF ProbeBody, TwoRingsDep, Between
    <3>4. CASE p = "samedir"
      BY <1>2, <1>3, <3>4 DEF ProbeBody, SameDirection, Between
    <3>5. CASE p = "fusedcomm"
      BY <1>2, <1>3, <3>5 DEF ProbeBody, FusedComm
    <3> QED
      BY <1>3, <3>1, <3>2, <3>3, <3>4, <3>5 DEF Probes
  <2> HIDE DEF d, Good
  <2>3. Good(d)
    BY <2>1, <2>2
  <2> QED
    BY <1>1, <2>3 DEF Good, d
<1>4. CASE on = "reverse"
  <2>1. /\ Good(Recv("Rb", "reverse")) /\ Good(RecvDep("Rb", "reverse", "Echo"))
        /\ Good(Joined("send_then_wait", SendForward("T0"), Recv("Rb", "reverse")))
    BY <1>4, RecvIs, RecvDepIs, JoinedIs DEF IsDispatch, Into, SendForward
  <2>2. d \in {Recv("Rb", "reverse"), RecvDep("Rb", "reverse", "Echo"),
               Joined("send_then_wait", SendForward("T0"), Recv("Rb", "reverse"))}
    <3>1. CASE p = "rev"
      BY <1>2, <1>4, <3>1 DEF ProbeBody, OneRing
    <3>2. CASE p \in {"both", "sendfirst"}
      BY <1>2, <1>4, <3>2 DEF ProbeBody, TwoRings, Between
    <3>3. CASE p \in {"bothdep", "sendfirstdep"}
      BY <1>2, <1>4, <3>3 DEF ProbeBody, TwoRingsDep, Between
    <3>4. CASE p = "samedir"
      BY <1>2, <1>4, <3>4 DEF ProbeBody, SameDirection, Between
    <3>5. CASE p = "fusedcomm"
      BY <1>2, <1>4, <3>5 DEF ProbeBody, FusedComm
    <3> QED
      BY <1>4, <3>1, <3>2, <3>3, <3>4, <3>5 DEF Probes
  <2> HIDE DEF d, Good
  <2>3. Good(d)
    BY <2>1, <2>2
  <2> QED
    BY <1>1, <2>3 DEF Good, d
<1> QED
  BY <1>3, <1>4

\* A payload is the tensor received by the rank opposite the sender.
LEMMA PayloadMade ==
  ASSUME NEW p \in Probes, NEW w \in Payloads(p), NEW c
  PROVE  /\ \E t \in TasksOf[p] : t[1] = 0 /\ t[2] = w[2] /\ w[1] \in Stores(p, In(p, t))
         /\ w[1] \in {"Rf", "Rb"}
         /\ Holds(p, w[1], c, w[2]) = Doubled(p, w[3], c, w[4])
<1>1. p \in Programs /\ RingsOf[p] = {0}
  BY DEF Programs, RingsOf, Probes, Collectives
<1>2. ASSUME NEW on \in {"forward", "reverse"}, p = "rev" => on = "reverse", p \in {"fwd", "fwd5"} => on = "forward",
             NEW r, r = SendRank(p, on) + HopOf(p, on)
      PROVE  \E t \in TasksOf[p] : t[1] = 0 /\ t[2] = r /\ Into(on) \in Stores(p, In(p, t))
  <2> DEFINE i == KeepPos(p, on)
             d == Body[p][r][i]
  <2>1. /\ r \in {0, 1} /\ i \in 1..LengthOf(p, r)
        /\ d.op \in {"recv", "send_then_wait", "wait_then_send"}
        /\ d.wait = on /\ d.into = Into(on) /\ Into(on) \in d.writes
    BY <1>2, KeptAt
  <2>2. PICK j \in 1..5 : j = i /\ j <= LengthOf(p, r)
    BY <2>1 DEF LengthOf
  <2>3. r \in Ranks
    BY <2>1, ProgramAssumption DEF Ranks
  <2>4. PICK t \in TasksOf[p] : t = <<0, r, j>>
    BY <1>1, <2>2, <2>3, IsTask
  <2>5. In(p, t) = d
    BY <2>2, <2>4 DEF In
  <2> HIDE DEF d, i
  <2>6. Touches(d)
    BY <2>1 DEF Touches, None
  <2>7. d.op \in ProbeOps /\ ~Reduces(p, d)
    BY <1>1, <2>1 DEF ProbeOps, Reduces
  <2>8. Into(on) \in Stores(p, d)
    BY <2>1, <2>6, <2>7 DEF Stores, StoresFirst, StoresLater, ProbeStores
  <2> QED
    BY <2>4, <2>5, <2>8
<1>3. CASE w = <<"Rf", 1, "T0", 0>>
  <2>1. p # "rev"
    BY <1>3 DEF Payloads, BackPayload
  <2>2. Into("forward") = "Rf" /\ 1 = SendRank(p, "forward") + HopOf(p, "forward")
    BY DEF Into, SendRank, HopOf
  <2>3. \E t \in TasksOf[p] : t[1] = 0 /\ t[2] = 1 /\ "Rf" \in Stores(p, In(p, t))
    BY <1>2, <2>1, <2>2
  <2>4. Holds(p, "Rf", c, 1) = Doubled(p, "T0", c, 0)
    BY <1>1, HoldsIs
  <2> QED
    BY <1>3, <2>3, <2>4
<1>4. CASE w # <<"Rf", 1, "T0", 0>>
  <2>1. w = BackPayload(p) /\ p \notin {"fwd", "fwd5"}
    BY <1>4 DEF Payloads
  <2>2. w[1] = "Rb" /\ w[2] = SendRank(p, "reverse") + HopOf(p, "reverse")
    BY <2>1 DEF BackPayload, SendRank, HopOf
  <2>3. Into("reverse") = "Rb"
    BY DEF Into
  <2>4. \E t \in TasksOf[p] : t[1] = 0 /\ t[2] = w[2] /\ "Rb" \in Stores(p, In(p, t))
    BY <1>2, <2>1, <2>2, <2>3
  <2>5. Holds(p, "Rb", c, w[2]) = Doubled(p, BackPayload(p)[3], c, BackPayload(p)[4])
    BY <1>1, HoldsIs
  <2> QED
    BY <2>1, <2>2, <2>4, <2>5
<1> QED
  BY <1>3, <1>4

\* When everything is done, what was stored is what was owed.
LEMMA DoneHolds ==
  ASSUME Inv, active, done = Tasks, NEW t \in Tasks, NEW n \in Stores(program, Does(t)), Tracked(n)
  PROVE  tensors[<<n, t[1], t[2]>>] = Holds(program, n, calls, t[2])
<1>1. program \in Programs
  BY HostIs DEF Inv, PlaceInv
<1>2. <<n, t[1], t[2]>> \in Keys
  <2>1. t[1] \in Rings /\ t[2] \in Ranks
    BY <1>1, TaskTyped DEF Tasks, Rings
  <2>2. n \in Names
    BY <1>1, StoresIn, NamedIn DEF Tasks, Does, Names
  <2> QED
    BY <2>1, <2>2 DEF Keys
<1>3. \A k \in Blocks : tensors[<<n, t[1], t[2]>>][k] = Holds(program, n, calls, t[2])[k]
  BY DEF Inv, DataInv, InvContents, Wrote
<1>4. tensors[<<n, t[1], t[2]>>] = [k \in Blocks |-> tensors[<<n, t[1], t[2]>>][k]]
  BY <1>2 DEF Inv, DataInv, InvTensors
<1>5. Holds(program, n, calls, t[2]) = [k \in Blocks |-> Holds(program, n, calls, t[2])[k]]
  BY HoldsShape DEF Blocks
<1> QED
  BY <1>3, <1>4, <1>5

\* Only the end of a call makes it return, and only once everything is done.
LEMMA ReturnStep ==
  ASSUME Inv, [Next]_vars, active, ~active'
  PROVE  done = Tasks /\ tensors' = tensors
<1>1. ASSUME NEW t, Submit(t) \/ Release(t) PROVE active' = active
  BY <1>1 DEF Submit, Release, hostVars
<1>2. ASSUME NEW r \in Ranks, Device(r) PROVE active' = active
  BY <1>2 DEF Device, Dispatch, Compute, Receive, Send, Notify, Await, Reduce, hostVars
<1>3. ~StartCall /\ ~Finished
  BY DEF StartCall, Finished
<1>4. UNCHANGED vars => active' = active
  BY DEF vars, hostVars
<1>5. ~UNCHANGED vars /\ (active' = active => FALSE)
  BY <1>4, Zenon
<1>6. Return
  BY <1>1, <1>2, <1>3, <1>5 DEF Next, Progress
<1> QED
  BY <1>6 DEF Return

\* A call returns what its own inputs call for, whatever the last one left in
\* the intermediates; a probe delivers the payloads its main() checks.
THEOREM Returns == Spec => ReturnsPromised
<1> DEFINE Kept == IF program \in Probes
                   THEN \A w \in Payloads(program) :
                          tensors'[<<w[1], 0, w[2]>>] = Doubled(program, w[3], calls, w[4])
                   ELSE \A n \in Outputs, b \in Rings, r \in Ranks :
                          tensors'[<<n, b, r>>] = Promised(program, n, calls, r)
<1>1. ASSUME Inv, [Next]_vars, active, ~active' PROVE Kept
  <2>1. done = Tasks /\ tensors' = tensors
    BY <1>1, ReturnStep
  <2>2. program \in Programs
    BY <1>1, HostIs DEF Inv, PlaceInv
  <2>3. \A t \in Tasks : \A n \in Stores(program, Does(t)) :
           Tracked(n) => tensors[<<n, t[1], t[2]>>] = Holds(program, n, calls, t[2])
    BY <1>1, <2>1, DoneHolds
  <2>4. ASSUME program \in Probes, NEW w \in Payloads(program)
        PROVE  tensors[<<w[1], 0, w[2]>>] = Doubled(program, w[3], calls, w[4])
    <3>1. PICK t \in Tasks : t[1] = 0 /\ t[2] = w[2] /\ w[1] \in Stores(program, Does(t))
      BY <2>4, PayloadMade DEF Tasks, Does
    <3>2. w[1] \in {"Rf", "Rb"} /\ Holds(program, w[1], calls, w[2]) = Doubled(program, w[3], calls, w[4])
      BY <2>4, PayloadMade
    <3>3. Tracked(w[1])
      BY <3>2 DEF Tracked
    <3> QED
      BY <2>3, <3>1, <3>2, <3>3
  <2>5. ASSUME program \notin Probes, NEW n \in Outputs, NEW b \in Rings, NEW r \in Ranks
        PROVE  tensors[<<n, b, r>>] = Promised(program, n, calls, r)
    <3>1. n \in {"S_out", "dS_total", "dgamma", "O", "grads"}
      BY <2>5 DEF Outputs, OutputsOf
    <3>2. Tracked(n) /\ Holds(program, n, calls, r) = Promised(program, n, calls, r)
      BY <3>1 DEF Tracked, Holds
    <3>3. CASE program = "allscan_backward" /\ n = "dgamma" /\ r = 0
      <4>1. Given(program, n, r)
        BY <3>3 DEF Given
      <4>2. <<n, b, r>> \in Keys
        BY <2>2, <2>5 DEF Keys, Names, NamesOf, Outputs
      <4> QED
        BY <1>1, <3>2, <4>1, <4>2 DEF Inv, DataInv, InvContents
    <3>4. CASE ~(program = "allscan_backward" /\ n = "dgamma" /\ r = 0)
      <4>1. PICK t \in Tasks : t[1] = b /\ t[2] = r /\ n \in Stores(program, Does(t))
        BY <2>2, <2>5, <3>4, OutputMade DEF Tasks, Does, Outputs, Rings
      <4> QED
        BY <2>3, <3>2, <4>1
    <3> QED
      BY <3>3, <3>4
  <2> QED
    BY <2>1, <2>4, <2>5
<1>2. Inv /\ [Next]_vars => [active /\ ~active' => Kept]_vars
  BY <1>1, Zenon
<1>3. DispatchInv => Inv
  BY InvIs
<1> QED
  BY <1>2, <1>3, DispatchInvariant, PTL DEF Spec, ReturnsPromised

=============================================================================
