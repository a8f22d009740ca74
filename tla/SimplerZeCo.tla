---------------------------- MODULE SimplerZeCo ----------------------------
(***************************************************************************)
(* Who holds a device, and when: the "simpler" ZeCO backend               *)
(* (gla/implementations/simpler/impl.py).  Rank p's kernels run on device  *)
(* p, in a fresh worker per kernel (_ComputeRunner) or in one held worker  *)
(* (_PersistentComputeRunner); the boundary AllScan needs a worker of its  *)
(* own on every device.  A device hosts one worker at a time.              *)
(*                                                                         *)
(* The host is one thread.  A public call is unfolded into the sequence of *)
(* steps it performs on the runners and the AllScan worker (the torch glue *)
(* between them is abstracted away); any step on a device may raise, and   *)
(* the exception runs the finally blocks it passes.                        *)
(***************************************************************************)
EXTENDS Naturals, FiniteSets, SequencesExt

CONSTANTS
  RankCounts,\* the numbers of ranks the backend is built for
  Sessions,  \* each a set of public calls: those made between a build and a close
  HeadCounts,\* head counts H of the tensors given to the multi-head calls
  Samples,   \* n_iters of a measurement
  MaxCalls   \* bound: public calls after build

Directions == {"forward", "backward"}

ASSUME ZeCoAssumption ==
  /\ RankCounts \subseteq Nat \ {0} /\ RankCounts # {} /\ Samples \in Nat \ {0} /\ MaxCalls \in Nat
  /\ HeadCounts \subseteq Nat \ {0}
  /\ UNION Sessions \subseteq {"forward", "backward", "forward_multihead",
                               "backward_multihead", "measure", "measure_backward"}

Devices == UNION {0..(n - 1) : n \in RankCounts}
Kernels == {"gate_cumsum", "chunk_h", "chunk_o", "grad_o", "grad_h"}

VARIABLE P   \* self.P, the number of ranks of the last build

-----------------------------------------------------------------------------
(* The steps of a call *)

Step(do, p, kernel, made, used) ==
  [do |-> do, dev |-> p, kernel |-> kernel, made |-> made, used |-> used]

Run(p, kernel)      == Step("run", p, kernel, 0, 0)
Do(what)            == Step(what, 0, "none", 0, 0)
Timer(dir)          == Step("timer", 0, dir, 0, 0)
Amortized(dir)      == Step("amortized", 0, dir, 0, 0)
\* One AllScan worker: built for `made` heads (0: no per-head buffers), then
\* one run over `used` heads (0: the single-head run), then closed.
AllScanOn(made, used) == Step("allscan", 0, "none", made, used)

PerRank(Steps(_)) == FlattenSeq([i \in 1..P |-> Steps(i - 1)])
Repeat(n, steps)  == FlattenSeq([i \in 1..n |-> steps])

Stage1(p)   == <<Run(p, "gate_cumsum"), Run(p, "chunk_h")>>
Stage2(p)   == <<Run(p, "chunk_o")>>
GradO(p)    == <<Run(p, "grad_o")>>
GradH(p)    == <<Run(p, "grad_h"), Run(p, "gate_cumsum")>>

Boundary == IF P = 1 THEN <<>> ELSE <<Do("release"), AllScanOn(0, 0)>>

\* Mutant: the worker is built without per-head buffers.
BoundaryUnsized(H) == IF P = 1 THEN <<>> ELSE <<AllScanOn(0, H)>>
MultiBoundary(H)   == IF P = 1 THEN <<>> ELSE <<AllScanOn(H, H)>>

Forward  == PerRank(Stage1) \o Boundary \o PerRank(Stage2)
Backward == PerRank(Stage1) \o Boundary \o PerRank(GradO)
              \o Boundary \o PerRank(GradH)

ForwardMultihead(H) ==
  Repeat(H, PerRank(Stage1)) \o MultiBoundary(H) \o Repeat(H, PerRank(Stage2))

BackwardMultihead(H) ==
  Repeat(H, PerRank(Stage1)) \o MultiBoundary(H) \o Repeat(H, PerRank(GradO))
    \o MultiBoundary(H) \o Repeat(H, PerRank(GradH))

\* Mutant: no reference pass, which is what closes the runners held before.
GateOverHeld(call)   == <<Do("persistent")>> \o call \o <<Do("compare")>>

\* _gate_persistent: a reference pass on per-kernel workers, a pass on held
\* workers, then the comparison that raises on a mismatch.
GatePersistent(call) ==
  <<Do("plain")>> \o call \o <<Do("persistent")>> \o call \o <<Do("compare")>>

TimeOnPersistent(dir, call) ==
  <<Timer(dir)>> \o Repeat(Samples, call) \o <<Timer("off"), Do("release")>>

Measure(dir, call) ==
  GatePersistent(call) \o TimeOnPersistent(dir, call) \o <<Amortized(dir)>>

Script(op, H) ==
  CASE op = "forward"            -> Forward
    [] op = "backward"           -> Backward
    [] op = "forward_multihead"  -> ForwardMultihead(H)
    [] op = "backward_multihead" -> BackwardMultihead(H)
    [] op = "measure"            -> Measure("forward", Forward)
    [] op = "measure_backward"   -> Measure("backward", Backward)

-----------------------------------------------------------------------------
VARIABLES
  built,     \* between build and close
  session,   \* the public calls made on what was built last
  calls,     \* public calls made
  runners,   \* the class of the objects in self._runners
  staged,    \* the kernels whose buffers the persistent runners prepared
  held,      \* per device: the worker of its persistent runner
  orphans,   \* devices whose held worker no runner refers to any more
  fresh,     \* devices with a per-kernel worker up
  ring,      \* heads + 1 the AllScan worker was built for; 0: no worker
  script,    \* the steps the call has still to perform
  raised,    \* the last call ended in an exception
  timing,    \* the direction being timed, or "off"
  setup,     \* per direction: the last timed loop stood a worker up
  amortized, \* amortized_timing, amortized_timing_backward
  refused    \* a check of the backend itself has fired

vars == <<P, built, session, calls, runners, staged, held, orphans, fresh, ring, script,
          raised, timing, setup, amortized, refused>>

Init ==
  /\ P \in RankCounts /\ built = FALSE /\ refused = FALSE
  /\ session = {} /\ calls = 0
  /\ runners = "none" /\ staged = {}
  /\ held = [d \in Devices |-> "none"]
  /\ orphans = {} /\ fresh = {} /\ ring = 0
  /\ script = <<>> /\ raised = FALSE
  /\ timing = "off"
  /\ setup = [dir \in Directions |-> FALSE]
  /\ amortized = [dir \in Directions |-> FALSE]

NoneHeld == [d \in Devices |-> "none"]
Up       == {d \in Devices : held[d] = "up"}

\* The workers alive on device d.
Hosted(d) ==
  (IF held[d] = "up" THEN {"held"} ELSE {}) \cup
  (IF d \in orphans THEN {"orphan"} ELSE {}) \cup
  (IF d \in fresh THEN {"fresh"} ELSE {}) \cup
  (IF ring > 0 /\ d < P THEN {"allscan"} ELSE {})

Idle     == script = <<>>
At(what) == script # <<>> /\ Head(script).do = what
Done     == script' = Tail(script) /\ UNCHANGED <<timing, raised>>

\* An exception leaves the call; inside the timed loop it passes the finally
\* block of _time_on_persistent.
Raise == /\ script' = IF timing = "off" THEN <<>> ELSE <<Do("release")>>
         /\ timing' = "off" /\ raised' = TRUE

\* A worker is stood up: the fixed cost that steady-state timing excludes.
StandsUp == setup' = IF timing = "off" THEN setup ELSE [setup EXCEPT ![timing] = TRUE]

-----------------------------------------------------------------------------
(* Build, call, close *)

Build ==
  /\ ~built /\ Idle
  /\ built' = TRUE
  /\ P' \in RankCounts /\ session' \in Sessions
  /\ runners' = "plain" /\ staged' = {}
  /\ calls' = 0 /\ raised' = FALSE
  /\ UNCHANGED <<held, orphans, fresh, ring, script, timing, setup, amortized, refused>>

Call(op, H) ==
  /\ built /\ Idle /\ op \in session /\ calls < MaxCalls
  /\ calls' = calls + 1
  /\ script' = Script(op, H) /\ raised' = FALSE
  /\ UNCHANGED <<P, built, session, runners, staged, held, orphans, fresh, ring, timing, setup, amortized, refused>>

\* r.close() on the runners in turn: all let go of their workers, or that of
\* device d raises, which keeps its worker and leaves the later ones theirs.
HeldAfter(d) ==
  {[e \in Devices |-> IF e < d THEN "none" ELSE IF e = d THEN s ELSE held[e]] :
     s \in {held[d], "broken"}}

AllClose    == held' = NoneHeld
CloseRaises == \E d \in Devices : held[d] # "none" /\ held' \in HeldAfter(d)

Close ==
  /\ built /\ Idle
  /\ \/ /\ AllClose /\ built' = FALSE /\ session' = {}
        /\ runners' = "none" /\ staged' = {} /\ raised' = FALSE
     \/ CloseRaises /\ raised' = TRUE /\ UNCHANGED <<built, session, runners, staged>>
  /\ UNCHANGED <<P, calls, orphans, fresh, ring, script, timing, setup, amortized, refused>>

-----------------------------------------------------------------------------
(* The runners *)

\* _ComputeRunner.run up to worker.init()
StandUpKernel ==
  /\ At("run") /\ runners = "plain"
  /\ LET d == Head(script).dev IN d \notin fresh /\ fresh' = fresh \cup {d}
  /\ StandsUp
  /\ UNCHANGED <<P, built, session, calls, runners, staged, held, orphans, ring, script, raised, timing, amortized, refused>>

\* worker.run, and worker.close() in the finally block whether it raised or not
RunKernel ==
  /\ At("run") /\ runners = "plain"
  /\ LET d == Head(script).dev IN d \in fresh /\ fresh' = fresh \ {d}
  /\ Done \/ Raise
  /\ UNCHANGED <<P, built, session, calls, runners, staged, held, orphans, ring, setup, amortized, refused>>

\* open(): the worker object is kept even when its init() raises.
OpenHeld ==
  LET d == Head(script).dev IN
  /\ At("run") /\ runners = "persistent"
  /\ Head(script).kernel \in staged
  /\ held[d] = "none"
  /\ \/ held' = [held EXCEPT ![d] = "up"] /\ UNCHANGED <<script, raised, timing>>
     \/ held' = [held EXCEPT ![d] = "broken"] /\ Raise
  /\ StandsUp
  /\ UNCHANGED <<P, built, session, calls, runners, staged, orphans, fresh, ring, amortized, refused>>

\* A kernel missing from _persistent_dispatches hits the assert of run.
DispatchHeld ==
  LET d        == Head(script).dev
      prepared == Head(script).kernel \in staged
  IN
  /\ At("run") /\ runners = "persistent"
  /\ held[d] # "none" \/ ~prepared
  /\ refused' = (refused \/ ~prepared)
  /\ (prepared /\ held[d] = "up" /\ Done) \/ Raise
  /\ UNCHANGED <<P, built, session, calls, runners, staged, held, orphans, fresh, ring, setup, amortized>>

ReleaseDevices ==
  /\ At("release")
  /\ (AllClose /\ Done) \/ (CloseRaises /\ Raise)
  /\ UNCHANGED <<P, built, session, calls, runners, staged, orphans, fresh, ring, setup, amortized, refused>>

UsePlainRunners ==
  /\ At("plain")
  /\ \/ AllClose /\ runners' = "plain" /\ staged' = {} /\ Done
     \/ CloseRaises /\ Raise /\ UNCHANGED <<runners, staged>>
  /\ UNCHANGED <<P, built, session, calls, orphans, fresh, ring, setup, amortized, refused>>

\* _persistent_dispatches; a backward pass re-dispatches gate_cumsum's slot.
PersistentDispatches == {"gate_cumsum", "chunk_h", "chunk_o", "grad_o", "grad_h"}

\* The runners replaced are not closed: a worker one of them holds is leaked.
UsePersistentRunners ==
  /\ At("persistent")
  /\ orphans' = orphans \cup Up
  /\ held' = NoneHeld
  /\ runners' = "persistent" /\ staged' = PersistentDispatches
  /\ Done
  /\ UNCHANGED <<P, built, session, calls, fresh, ring, setup, amortized, refused>>

\* The held-worker results agree with the reference, or they do not.
CompareGate ==
  /\ At("compare")
  /\ Done \/ Raise
  /\ UNCHANGED <<P, built, session, calls, runners, staged, held, orphans, fresh, ring, setup, amortized, refused>>

SetTimer ==
  /\ At("timer")
  /\ LET dir == Head(script).kernel IN
       /\ timing' = dir
       /\ setup' = IF dir = "off" THEN setup ELSE [setup EXCEPT ![dir] = FALSE]
  /\ script' = Tail(script)
  /\ UNCHANGED <<P, built, session, calls, runners, staged, held, orphans, fresh, ring, raised, amortized, refused>>

SetAmortized ==
  /\ At("amortized")
  /\ amortized' = [amortized EXCEPT ![Head(script).kernel] = TRUE]
  /\ Done
  /\ UNCHANGED <<P, built, session, calls, runners, staged, held, orphans, fresh, ring, setup, refused>>

-----------------------------------------------------------------------------
(* The boundary *)

\* _make_allscan: a worker on every device of the collective.  init() is all
\* or nothing: a build that raises leaves no chip process behind, and no
\* reference either.
BuildAllScan ==
  /\ At("allscan") /\ ring = 0
  /\ \/ ring' = Head(script).made + 1 /\ UNCHANGED <<script, raised, timing>>
     \/ Raise /\ UNCHANGED ring
  /\ StandsUp
  /\ UNCHANGED <<P, built, session, calls, runners, staged, held, orphans, fresh, amortized, refused>>

\* The run, refused when its per-head buffers were not made before the fork
\* (_ensure_multi_bufs), and close() in the finally block.
RunAllScan ==
  LET fits == Head(script).used \in {0, ring - 1} IN
  /\ At("allscan") /\ ring > 0
  /\ ring' = 0
  /\ refused' = (refused \/ ~fits)
  /\ (fits /\ Done) \/ Raise
  /\ UNCHANGED <<P, built, session, calls, runners, staged, held, orphans, fresh, setup, amortized>>

Next ==
  \/ Build \/ Close
  \/ \E op \in UNION Sessions, H \in HeadCounts : Call(op, H)
  \/ StandUpKernel \/ RunKernel
  \/ OpenHeld \/ DispatchHeld
  \/ ReleaseDevices \/ UsePlainRunners \/ UsePersistentRunners
  \/ CompareGate \/ SetTimer \/ SetAmortized
  \/ BuildAllScan \/ RunAllScan

Spec == Init /\ [][Next]_vars
-----------------------------------------------------------------------------
(* Properties *)

\* A device never hosts two workers, whatever calls preceded and whatever
\* raised: the per-kernel, held and AllScan workers exclude each other.
OneWorkerPerDevice == \A d \in Devices : Cardinality(Hosted(d)) <= 1

\* After a close() that returned no device hosts a worker: no runner swap and no
\* exception on the way loses the last reference to a live worker.
NothingHeldWhenClosed == ~built => \A d \in Devices : Hosted(d) = {}

\* The backend's own refusals never fire: every kernel a pass dispatches was
\* prepared (assert in _PersistentComputeRunner.run), and every multi-head run
\* finds its per-head buffers (RuntimeError in _ensure_multi_bufs).
OwnChecksNeverFire == ~refused

\* amortized_timing claims steady-state samples: no worker was stood up inside
\* the timed loop whose direction carries the flag.
AmortizedMeansNoSetup == \A dir \in Directions : amortized[dir] => ~setup[dir]

-----------------------------------------------------------------------------
(* The inductive invariant *)

Ops == {"forward", "backward", "forward_multihead", "backward_multihead", "measure", "measure_backward"}

ScriptSteps ==
  {s \in [do : {"run", "release", "allscan", "plain", "persistent", "compare", "timer", "amortized"},
          dev : Devices, kernel : Kernels \cup Directions \cup {"none", "off"}, made : Nat, used : Nat] :
     /\ s.do = "run" => s.kernel \in Kernels
     /\ s.do = "allscan" => s.used \in {0, s.made}
     /\ s.do = "timer" => s.kernel \in Directions \cup {"off"}}

\* A pass on held workers comes once.
Once(s) ==
  \A i, j \in DOMAIN s : s[i].do = "persistent" /\ s[j].do = "persistent" => i = j

\* Held workers are released before the AllScan worker is built.
Released(s) ==
  \A i \in DOMAIN s : i > 1 /\ s[i].do = "allscan" => s[i - 1].do = "release"

Measuring == session \cap {"measure", "measure_backward"} # {}

\* No client mixes multi-head calls with measurements: a measurement that
\* raises leaves held workers, and a multi-head call does not release them.
Separated ==
  \A s \in Sessions :
    \/ s \cap {"measure", "measure_backward"} = {}
    \/ s \cap {"forward_multihead", "backward_multihead"} = {}

\* A pass on held workers comes after one on per-kernel workers.
InvScript ==
  /\ script \in Seq(ScriptSteps) /\ Once(script)
  /\ script # <<>> => built
  /\ session \subseteq Ops
  /\ built => P \in RankCounts /\ session \in Sessions
  /\ \A i \in DOMAIN script : script[i].do = "persistent" =>
       Measuring /\ (runners = "plain" \/ Head(script).do = "plain")

\* Which runners there are, and which workers of theirs.
InvRunners ==
  /\ runners \in {"none", "plain", "persistent"} /\ (built <=> runners # "none")
  /\ runners = "persistent" => Measuring /\ staged = PersistentDispatches
  /\ held \in [Devices -> {"none", "up", "broken"}] /\ orphans = {}
  /\ runners # "persistent" => held = NoneHeld

\* A per-kernel worker and the AllScan worker live inside one step.
InvSteps ==
  /\ fresh # {} => At("run") /\ runners = "plain" /\ fresh = {Head(script).dev}
  /\ ring \in Nat
  /\ ring > 0 => At("allscan") /\ ring = Head(script).made + 1

InvRelease ==
  /\ ring > 0 => held = NoneHeld
  /\ Measuring => Released(script) /\ (At("allscan") => held = NoneHeld)

ZeCoInv ==
  /\ InvScript /\ InvRunners /\ InvSteps
  /\ OwnChecksNeverFire
  /\ Separated => InvRelease
=============================================================================
