--------------------------- MODULE CoreInstructions -------------------------
(***************************************************************************)
(* The instructions of an AI core as the simpler kernels use them.  The    *)
(* core is hardware and is modelled from how the kernels of src/ use it:   *)
(* see SimplerCore for what an instruction does.                           *)
(*                                                                         *)
(* A cell is a whole tile of the unified buffer (Ub) or a whole block in   *)
(* global memory (Gm).  Values are tuples: the initial value of a cell is  *)
(* its own name, a computed one is an operation applied to values.         *)
(***************************************************************************)
EXTENDS Naturals, Sequences

Gm(name, k) == <<name, k>>
G(name)     == Gm(name, 0)
Ub(name)    == <<name, 0>>

\* An instruction reads the cells of src when it starts and writes those of
\* dst when it finishes: the result in the first, scratch in the others.
Instr(pipe, kind, op, dst, src, flag) ==
  [pipe |-> pipe, kind |-> kind, op |-> op, dst |-> dst, src |-> src, flag |-> flag]

NoFlag == <<"S", "S", 0>>

Op(pipe, op, dst, src) == Instr(pipe, "op", op, dst, src, NoFlag)
Load(dst, src)         == Op("MTE2", "copy", <<dst>>, <<src>>)
Store(dst, src)        == Op("MTE3", "copy", <<dst>>, <<src>>)
Vec(op, dst, src)      == Op("V", op, <<dst>>, src)

\* TCOLEXPAND is issued on V but runs on the copy engine: V goes on while it
\* is under way (notes/issues/tcolexpand-pipe-sync/ISSUE.md).
Expand(dst, src)   == Instr("V", "detached", "TCOLEXPAND", <<dst>>, src, NoFlag)

Scalar(op)         == Instr("S", "scalar", op, <<>>, <<>>, NoFlag)
Barrier            == Instr("S", "barrier", "pipe_barrier", <<>>, <<>>, NoFlag)
BarrierV           == Instr("V", "scalar", "pipe_barrier", <<>>, <<>>, NoFlag)
SetFlag(a, b, id)  == Instr(a, "set", "set_flag", <<>>, <<>>, <<a, b, id>>)
WaitFlag(a, b, id) == Instr(b, "wait", "wait_flag", <<>>, <<>>, <<a, b, id>>)
Sync(a, b, id)     == <<SetFlag(a, b, id), WaitFlag(a, b, id)>>

Result(instr, operands) ==
  IF instr.op = "copy" THEN operands[1] ELSE <<instr.op>> \o operands
Scratch == <<"scratch">>

Moves(instr) == instr.kind \in {"op", "detached"}
Cells(s)     == {s[i] : i \in DOMAIN s}
=============================================================================
