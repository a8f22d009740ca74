----------------------------- MODULE GlaBackends -----------------------------
(***************************************************************************)
(* One call of either backend of ZeCO: "simpler", stage by stage under the *)
(* control of the host (SimplerGla), or "pypto", one fused program         *)
(* (PyptoGla).  The tests and the benchmark exchange one for the other, so *)
(* both must implement the same abstract call (Gla).                       *)
(***************************************************************************)
EXTENDS PyptoGla

CONSTANTS Ops,   \* the calls of the simpler backend
          Window \* tasks in flight in an orchestration (SimplerGla)

ASSUME CallAssumption ==
  /\ Ops \subseteq {"forward", "backward"} /\ Window \in Nat \ {0}
  /\ \A in \in Inputs :
       /\ {in.q, in.k, in.g} \subseteq [Tokens -> [Keys -> Int]]
       /\ {in.v, in.dO} \subseteq [Tokens -> [Values -> Int]]

VARIABLES backend, op, place, done

simplerVars == <<op, place, done>>
pyptoVars   == <<program, plan, at, blk, window, signal>>
callVars    == <<backend, input, heap, simplerVars, pyptoVars>>

Unused == <<>>

Simpler == INSTANCE SimplerGla WITH at <- place

InitCall ==
  \/ /\ backend = "simpler" /\ Simpler!Init
     /\ program = Unused /\ plan = Unused /\ at = Unused /\ blk = Unused
     /\ window = Unused /\ signal = Unused
  \/ /\ backend = "pypto" /\ Init
     /\ op = Unused /\ place = Unused /\ done = Unused

SimplerCall == backend = "simpler" /\ Simpler!Next /\ UNCHANGED <<backend, pyptoVars>>
PyptoCall   == backend = "pypto" /\ Next /\ UNCHANGED <<backend, simplerVars>>

NextCall == SimplerCall \/ PyptoCall

\* The runtimes run what is ready, and the hosts go on when a run returns.
CallSpec == InitCall /\ [][NextCall]_callVars /\ WF_callVars(NextCall)

-----------------------------------------------------------------------------
(* The call as its caller sees it *)

Called ==
  IF backend = "simpler" THEN op
  ELSE IF program.op = "forward" THEN "forward" ELSE "backward"

Returned == IF backend = "simpler" THEN Simpler!Ended ELSE Ended

\* The tensor of that name, by token: gathered rank by rank from the chunks, or
\* the shared output tensor [P, L, d].
Collected(name) ==
  IF backend = "simpler"
    THEN [t \in Tokens |-> heap[<<name, t \div L, (t % L) \div C>>][t % C]]
    ELSE [t \in Tokens |->
            heap[<<name, t \div (PerRank * C)>>][(t % (PerRank * C)) \div C][t % C]]

Result ==
  IF ~Returned THEN <<>>
  ELSE IF Called = "forward"
    THEN [o |-> Collected(IF backend = "simpler" THEN "o" ELSE "O")]
    ELSE IF backend = "simpler"
      THEN [dq |-> Collected("dq"), dk |-> Collected("dk"), dv |-> Collected("dv"),
            dA |-> Collected("dA")]
      ELSE [dq |-> Collected("dQ"), dk |-> Collected("dK"), dv |-> Collected("dV"),
            dA |-> Collected("dA")]

Abstract == INSTANCE Gla WITH op <- Called, result <- Result

-----------------------------------------------------------------------------
(* Properties *)

\* Either backend, in any order of its tasks, at any speed of its ranks and
\* under every blocking, returns the output or the four gradients of
\* sequential GLA, and never changes them afterwards.
ImplementsGla == Abstract!Spec

\* simpler: what the boundary exchange gives a rank is the state sequential
\* GLA has at the start of its tokens, and backward the gradient with respect
\* to the state at their end.
BoundaryIsState == backend = "simpler" => Simpler!BoundaryIsState

\* simpler: a folded snapshot is the state sequential GLA has before its chunk.
SnapshotsAreStates == backend = "simpler" => Simpler!SnapshotsAreStates

\* pypto: what the first kernel recorded from a zero state and the boundary
\* that arrives later rebuild the state before every chunk.
RecordsRebuildStates == backend = "pypto" => RebuiltIsState

\* pypto: a message of the reverse ring is the gradient of the state its
\* receiver ends with, and the recorded reverse walk that of the states
\* between chunks.
ReverseStatesAreAdjoints == backend = "pypto" => WalkIsAdjoint

\* No task waits for itself and no wait of a ring stays unanswered.
CallEnds == <>Returned
=============================================================================
