---------------------------- MODULE SimplerCore ----------------------------
(***************************************************************************)
(* One AI core running one kernel of the simpler backend.  The scalar unit *)
(* hands the instructions, in program order, to pipes that run on their    *)
(* own: MTE2 loads, V computes, MTE3 stores, MTE1 / M / FIX serve the      *)
(* Cube.  A pipe runs its instructions in order, one at a time.  Two pipes *)
(* are ordered by set_flag / wait_flag, by a wait of the scalar unit S, or *)
(* by pipe_barrier(PIPE_ALL), and by nothing else; pipe_barrier(PIPE_V)    *)
(* orders V after V, which an in-order pipe does anyway.                   *)
(*                                                                         *)
(* The signals an AllScan kernel waits for have arrived; AllScanRing and   *)
(* AllScanBackward are about when they do.                                 *)
(***************************************************************************)
EXTENDS SimplerKernels, FiniteSets

CONSTANT Kernels \* the kernels considered

\* The kernels there are: a rank is first, middle or last in the ring; the other
\* variants are what the orchestrations pass as mode or is_first.
KernelVariants ==
  ({"allscan", "allscan_backward"} \X {"first", "middle", "last"}) \cup
  ({"chunk_h_update"} \X {"first", "next"}) \cup
  ({"chunk_o_elt"} \X {"TMUL", "TADD"}) \cup
  ({"matmul"} \X {"NN", "TN", "NT"}) \cup
  ({"chunk_h_prep", "chunk_o_prep", "gate_cumsum"} \X {""})

ASSUME KernelAssumption == Kernels \subseteq KernelVariants

VARIABLES
  kernel, code,      \* the kernel run, and its instructions
  started, finished, \* indices of the instructions that have
  operand,           \* what a running instruction has read
  mem,               \* the cells
  flag               \* set_flags not yet waited for

vars == <<kernel, code, started, finished, operand, mem, flag>>

Running == started \ finished
Flags   == {code[i].flag : i \in DOMAIN code}
Memory  == UNION {Cells(code[i].dst) \cup Cells(code[i].src) : i \in DOMAIN code}

Init ==
  /\ kernel \in Kernels /\ code = Program(kernel)
  /\ started = {} /\ finished = {}
  /\ operand = [i \in DOMAIN code |-> <<>>]
  /\ mem = [c \in Memory |-> c]
  /\ flag = [f \in Flags |-> 0]

\* The scalar unit has reached i, and the pipe of i is free.
Issued(i) ==
  \A j \in 1..(i - 1) :
    /\ code[j].pipe = "S" => j \in finished
    /\ code[j].pipe = code[i].pipe =>
         j \in finished \/ (code[j].kind = "detached" /\ j \in started)

Start(i) ==
  /\ i \notin started /\ Moves(code[i]) /\ Issued(i)
  /\ started' = started \cup {i}
  /\ operand' = [operand EXCEPT ![i] = [k \in DOMAIN code[i].src |-> mem[code[i].src[k]]]]
  /\ UNCHANGED <<kernel, code, finished, mem, flag>>

Finish(i) ==
  /\ i \in Running
  /\ finished' = finished \cup {i}
  /\ mem' = [c \in DOMAIN mem |->
       IF c \notin Cells(code[i].dst) THEN mem[c]
       ELSE IF c = code[i].dst[1] THEN Result(code[i], operand[i]) ELSE Scratch]
  /\ operand' = [operand EXCEPT ![i] = <<>>]
  /\ UNCHANGED <<kernel, code, started, flag>>

Synchronise(i) ==
  /\ i \notin started /\ ~Moves(code[i]) /\ Issued(i)
  /\ code[i].kind = "barrier" => 1..(i - 1) \subseteq finished
  /\ code[i].kind = "wait" => flag[code[i].flag] > 0
  /\ flag' = CASE code[i].kind = "set"  -> [flag EXCEPT ![code[i].flag] = @ + 1]
               [] code[i].kind = "wait" -> [flag EXCEPT ![code[i].flag] = @ - 1]
               [] OTHER                 -> flag
  /\ started' = started \cup {i} /\ finished' = finished \cup {i}
  /\ UNCHANGED <<kernel, code, operand, mem>>

Ended == finished = DOMAIN code

Next == \E i \in DOMAIN code : Start(i) \/ Finish(i) \/ Synchronise(i)

Spec == Init /\ [][Next]_vars

\* A pipe never stops of itself: what it can do, it does.
FairSpec == Spec /\ WF_vars(Next)
-----------------------------------------------------------------------------
(* Properties *)

\* No tile or block is written by one instruction while another one uses it.
RaceFree ==
  \A i, j \in Running :
    i # j => Cells(code[i].dst) \cap (Cells(code[j].dst) \cup Cells(code[j].src)) = {}

\* Whatever the pipes' timing, a finished kernel has stored in every output
\* block the value its header promises.
StoresPromised == Ended => \A r \in Promised(kernel) : mem[r[1]] = r[2]

\* A finished kernel leaves no flag set: a leftover would release the first
\* wait on that flag in the next kernel of the core.
FlagsConsumed == Ended => \A f \in DOMAIN flag : flag[f] = 0

\* Every kernel ends: no pipe waits for a flag that is never set.
KernelEnds == <>Ended

-----------------------------------------------------------------------------
(* The inductive invariant *)

Writers(s, c) == {i \in DOMAIN s : c \in Cells(s[i].dst)}
Latest(W)     == CHOOSE j \in W : \A l \in W : l <= j

\* What cell c holds once the instructions W have written it, when v[j] is the
\* result of instruction j.
Contents(s, v, c, W) ==
  IF W = {} THEN c ELSE IF c = s[Latest(W)].dst[1] THEN v[Latest(W)] ELSE Scratch

\* The operands of i when the instructions before it have run, and what it makes.
Operands(s, v, i) ==
  [k \in DOMAIN s[i].src |->
     Contents(s, v, s[i].src[k], {j \in Writers(s, s[i].src[k]) : j < i})]
Made(s, v, i) == IF Moves(s[i]) THEN Result(s[i], Operands(s, v, i)) ELSE Scratch

\* The results of a program run one instruction at a time.
InOrder(s) == LET val[i \in DOMAIN s] == Made(s, val, i) IN val

InvIssue ==
  /\ finished \subseteq started /\ started \subseteq DOMAIN code
  /\ \A i \in started :
       /\ Issued(i)
       /\ code[i].kind = "barrier" => 1..(i - 1) \subseteq finished
       /\ Moves(code[i]) \/ i \in finished

Signalled(kind, f) == {i \in finished : code[i].kind = kind /\ code[i].flag = f}

\* A flag counts the sets not yet waited for; a wait is over only after the set
\* it is written behind.
InvFlags ==
  /\ DOMAIN flag = Flags
  /\ \A f \in Flags : flag[f] = Cardinality(Signalled("set", f)) - Cardinality(Signalled("wait", f))
  /\ \A i \in DOMAIN code : code[i].kind = "set" /\ i + 1 \in started => i \in finished

\* Whatever has overtaken what, operands and cells are those of the program run
\* one instruction at a time.
InvValues ==
  /\ DOMAIN mem = Memory /\ DOMAIN operand = DOMAIN code
  /\ \A i \in Running : operand[i] = Operands(code, InOrder(code), i)
  /\ \A c \in Memory : mem[c] = Contents(code, InOrder(code), c, Writers(code, c) \cap finished)

CoreInv ==
  /\ kernel \in Kernels /\ code = Program(kernel)
  /\ InvIssue /\ InvFlags
  /\ kernel[1] # "chunk_h_prep" => RaceFree /\ InvValues
=============================================================================
