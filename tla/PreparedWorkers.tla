-------------------------- MODULE PreparedWorkers --------------------------
(***************************************************************************)
(* The backends that prepare a worker once and dispatch on it many times:  *)
(* PyPtoZeCo (gla/implementations/pypto/impl.py), PyPtoAllscan and         *)
(* PyPtoAllscanBackward (allscan/implementations/pypto/impl.py) and        *)
(* SimplerAllscan (allscan/implementations/simpler/impl.py).  Standing a   *)
(* worker up forks one chip process per device, which sees only the shared *)
(* buffers that exist by then, and takes the devices' communication        *)
(* domain, so two workers on a device collide.                             *)
(*                                                                         *)
(* A public call unfolds into the steps it performs; any step that leaves  *)
(* the host program may raise, which ends the call.                        *)
(***************************************************************************)
EXTENDS BlockingSearch

CONSTANTS
  Configs,  \* the shapes a backend is built for: [P, C, dk, dv]
  Timed,    \* n_iters of a measurement
  Heads     \* head count of the multi-head calls

Request(c) == [C |-> c.C, dk |-> c.dk, dv |-> c.dv, distributed |-> c.P > 1]

ASSUME ConfigAssumption ==
  /\ \A c \in Configs : c.P \in Nat \ {0} /\ Request(c) \in Requests
  /\ Timed \in Nat \ {0} /\ Heads \in Nat \ {0}

Classes == {"PyPtoZeCo", "PyPtoAllscan", "PyPtoAllscanBackward", "SimplerAllscan"}

VARIABLES
  class,   \* the class of the object in use
  self,    \* its fields; a set of at most one element where Python has an Optional
  live,    \* the workers whose chip processes exist
  job,     \* the steps the call in progress has still to perform
  fault    \* how the last call ended: "none", or the kind of exception it raised

workerVars == <<class, self, live, job, fault>>

NewObject ==
  [shape     |-> {},     \* self.P, self.L, ...: the last build's arguments
   compiled  |-> {},     \* the shape _compiled was compiled for
   bcompiled |-> {},
   bufs      |-> {},     \* the shape of the shared IO buffers
   rt        |-> {},     \* _rt, or SimplerAllscan's worker
   backward  |-> FALSE,  \* _rt_backward
   lent      |-> {},     \* the worker of one call of run_fused_forward
   ready     |-> FALSE]  \* the last build returned

\* A worker: what it runs, for which shape, and the buffers its fork inherited.
Worker(dir, compiled) ==
  [dir |-> dir, shape |-> compiled, bufs |-> self.bufs]

Ranks(w) == UNION {0..(c.P - 1) : c \in w.shape}

-----------------------------------------------------------------------------
(* What a call unfolds into *)

Do1(do)      == [do |-> do, dir |-> "none"]
Do2(do, dir) == [do |-> do, dir |-> dir]
Times(n, steps) == FlattenSeq([i \in 1..n |-> steps])

PyPtoZeCoBuild ==
  <<Do1("close"), Do2("seek", "forward"), Do2("search", "forward"), Do1("alloc"),
    Do2("prepare", "forward"), Do1("built")>>

PyPtoAllscanBuild ==
  <<Do1("close"), Do2("compile", "forward"), Do1("alloc"), Do2("prepare", "forward"), Do1("built")>>

PyPtoAllscanBackwardBuild ==
  <<Do1("close"), Do2("compile", "backward"), Do1("alloc"), Do2("prepare", "backward"), Do1("built")>>

\* One Worker object hosts both directions; it is made before the buffers and
\* forks after them.
SimplerAllscanBuild ==
  <<Do1("close"), Do2("compile", "both"), Do2("construct", "both"), Do1("alloc"),
    Do1("init"), Do1("built")>>

BuildSteps ==
  CASE class = "PyPtoZeCo"            -> PyPtoZeCoBuild
    [] class = "PyPtoAllscan"         -> PyPtoAllscanBuild
    [] class = "PyPtoAllscanBackward" -> PyPtoAllscanBackwardBuild
    [] class = "SimplerAllscan"       -> SimplerAllscanBuild

\* The worker to run `dir` on: the one that is up if it is of that direction, or
\* a new one.  The backward is compiled on first use.
Selected(dir) == self.rt # {} /\ self.backward = (dir = "backward")
Compiled(dir) == dir = "forward" \/ self.bcompiled # {}

\* Mutant: any prepared worker will do.
SelectAny(dir) == IF self.rt # {} THEN <<>> ELSE <<Do2("prepare", dir)>>

\* Mutant: the other direction's worker is left up.
SelectBoth(dir) ==
  IF Selected(dir) THEN <<>>
  ELSE IF Compiled(dir) THEN <<Do2("prepare", dir)>>
  ELSE <<Do2("seek", dir), Do2("search", dir), Do2("prepare", dir)>>

Select(dir) ==
  IF Selected(dir) THEN <<>>
  ELSE IF Compiled(dir) THEN <<Do1("close"), Do2("prepare", dir)>>
  ELSE <<Do1("close"), Do2("seek", dir), Do2("search", dir), Do2("prepare", dir)>>

\* run_fused_forward: a worker of its own for one call.
RunFusedForward == <<Do1("borrow"), Do1("percall"), Do1("return")>>

\* PyPtoZeCo
Forward1 ==
  IF self.rt # {} THEN Append(Select("forward"), Do2("dispatch", "forward")) ELSE RunFusedForward
Backward1 == Append(Select("backward"), Do2("dispatch", "backward"))
Measure1 ==
  Times(IF self.rt = {} THEN Timed ELSE Timed + 1, <<Do1("forward")>>)
MeasureBackward1 == Times(Timed + 1, <<Do1("backward")>>)

\* The AllScan backends: a sample is one dispatch of a whole batch.
RunRing          == <<Do2("dispatch", "forward")>>
RunRingBackward  == <<Do2("dispatch", "backward")>>
Measure2         == Times(Timed, RunRing)
MeasureBackward2 == Times(Timed, RunRingBackward)

\* MultiHeadZeCo over a backend without multi-head calls of its own.
MultiHead(op) == Times(Heads, <<Do1(op)>>)

\* ZeCoModule: the forward, and the backward autograd calls for its gradient.
TrainStep == <<Do1("forward"), Do1("backward")>>

OfZeCo == class = "PyPtoZeCo"

Unfolded(op) ==
  CASE op = "forward"  -> IF OfZeCo THEN Forward1 ELSE RunRing
    [] op = "backward" -> IF OfZeCo THEN Backward1 ELSE RunRingBackward

CallSteps(op) ==
  CASE op = "build"                  -> BuildSteps
    [] op = "close"                  -> <<Do1("close"), Do1("closed")>>
    [] op \in {"forward", "backward"} -> <<Do1(op)>>
    [] op = "forward_multihead"      -> MultiHead("forward")
    [] op = "backward_multihead"     -> MultiHead("backward")
    [] op = "train"                  -> TrainStep
    [] op = "measure"                -> IF OfZeCo THEN Measure1 ELSE Measure2
    [] op = "measure_backward"       -> IF OfZeCo THEN MeasureBackward1 ELSE MeasureBackward2

-----------------------------------------------------------------------------
(* Starting a call, and how its steps end *)

Waiting  == job = <<>>
Next1(d) == job # <<>> /\ Head(job).do = d
Dir      == Head(job).dir

StartBuild(c) ==
  /\ Waiting
  /\ self' = [self EXCEPT !.shape = {c}, !.ready = FALSE]
  /\ job' = BuildSteps /\ fault' = "none"
  /\ UNCHANGED <<class, live>> /\ UNCHANGED searchVars

StartCall(op) ==
  /\ Waiting
  /\ job' = CallSteps(op) /\ fault' = "none"
  /\ UNCHANGED <<class, self, live>> /\ UNCHANGED searchVars

Proceed     == job' = Tail(job) /\ UNCHANGED fault
RaiseAs(k)  == job' = <<>> /\ fault' = k

\* A step that runs on the devices ends, drains out (507018) or fails.
DeviceFaults == {"drain", "other"}

-----------------------------------------------------------------------------
(* The steps *)

\* close(): the reference is dropped only after the worker closed.
CloseRt ==
  /\ Next1("close")
  /\ \/ /\ self.rt = {}
        /\ Proceed /\ UNCHANGED <<self, live>>
     \/ /\ self.rt # {}
        /\ live' = live \ self.rt /\ self' = [self EXCEPT !.rt = {}]
        /\ Proceed
     \/ /\ self.rt # {}
        /\ live' \in {live, live \ self.rt}
        /\ RaiseAs("other") /\ UNCHANGED self
  /\ UNCHANGED class /\ UNCHANGED searchVars

\* compile_fused_forward, compile_fused_backward: a search of its own each.
SeekPlan ==
  /\ Next1("seek")
  /\ \E c \in self.shape : Seek(Request(c))
  /\ Proceed /\ UNCHANGED <<class, self, live>>

SearchStep ==
  /\ Next1("search") /\ SearchNext
  /\ UNCHANGED workerVars

Forget == /\ seen' = <<>> /\ stage' = "idle" /\ group' = 1 /\ index' = 1
          /\ UNCHANGED goal

\* Compiling the forward anew forgets the backward program.
KeepProgram ==
  /\ Next1("search") /\ stage = "found"
  /\ self' = IF Dir = "forward"
             THEN [self EXCEPT !.compiled = self.shape, !.bcompiled = {}]
             ELSE [self EXCEPT !.bcompiled = self.shape]
  /\ Forget /\ Proceed /\ UNCHANGED <<class, live>>

\* The ValueError lists the rejections: it reads as a shape ceiling when one
\* of them is an overflow of the vector buffer (is_shape_ceiling).
SearchFails ==
  /\ Next1("search")
  /\ \/ /\ stage = "unfit"
        /\ \E k \in {"ceiling", "other"} :
             /\ k = "ceiling" => "buffer" \in Range(seen)
             /\ RaiseAs(k)
     \/ stage = "raised" /\ RaiseAs("other")
  /\ Forget /\ UNCHANGED <<class, self, live>>

\* ir.compile, or the kernel compiler; no search
Compile ==
  /\ Next1("compile")
  /\ \/ self' = [self EXCEPT !.compiled = self.shape] /\ Proceed
     \/ UNCHANGED self /\ RaiseAs("other")
  /\ UNCHANGED <<class, live>> /\ UNCHANGED searchVars

AllocBuffers ==
  /\ Next1("alloc")
  /\ self' = [self EXCEPT !.bufs = self.shape]
  /\ Proceed /\ UNCHANGED <<class, live>> /\ UNCHANGED searchVars

\* prepare(): forks the chip processes and forms the communication domain.
Prepare ==
  LET program == IF Dir = "backward" /\ class = "PyPtoZeCo" THEN self.bcompiled ELSE self.compiled
      w       == Worker(Dir, program)
  IN
  /\ Next1("prepare")
  /\ \/ /\ live' = live \cup {w}
        /\ self' = [self EXCEPT !.rt = {w}, !.backward = (Dir = "backward")]
        /\ Proceed
     \/ \E k \in DeviceFaults : RaiseAs(k) /\ UNCHANGED <<self, live>>
  /\ UNCHANGED class /\ UNCHANGED searchVars

\* Worker(...): the object alone, nothing forked yet.
Construct ==
  /\ Next1("construct")
  /\ self' = [self EXCEPT !.rt = {Worker(Dir, self.compiled)}]
  /\ Proceed /\ UNCHANGED <<class, live>> /\ UNCHANGED searchVars

\* worker.init(): all chip processes, or none and an exception.
InitWorker ==
  /\ Next1("init")
  /\ \/ /\ \E w \in self.rt : live' = live \cup {[w EXCEPT !.bufs = self.bufs]}
        /\ self' = [self EXCEPT !.rt = {[w EXCEPT !.bufs = self.bufs] : w \in self.rt}]
        /\ Proceed
     \/ \E k \in DeviceFaults : RaiseAs(k) /\ UNCHANGED <<self, live>>
  /\ UNCHANGED class /\ UNCHANGED searchVars

Built ==
  /\ Next1("built")
  /\ self' = [self EXCEPT !.ready = TRUE]
  /\ Proceed /\ UNCHANGED <<class, live>> /\ UNCHANGED searchVars

Closed ==
  /\ Next1("closed")
  /\ self' = [self EXCEPT !.ready = FALSE]
  /\ Proceed /\ UNCHANGED <<class, live>> /\ UNCHANGED searchVars

\* forward(), backward(): what they do depends on the worker that is up.  A
\* PyPtoZeCo without one answers a backward with NotImplementedError.
Unfold ==
  /\ Next1("forward") \/ Next1("backward")
  /\ IF class = "PyPtoZeCo" /\ Head(job).do = "backward" /\ self.rt = {}
     THEN RaiseAs("other")
     ELSE job' = Unfolded(Head(job).do) \o Tail(job) /\ UNCHANGED fault
  /\ UNCHANGED <<class, self, live>> /\ UNCHANGED searchVars

\* One dispatch on the prepared worker; on one that is gone it can only raise.
Dispatch ==
  /\ Next1("dispatch")
  /\ \/ self.rt # {} /\ self.rt \subseteq live /\ Proceed
     \/ \E k \in DeviceFaults : RaiseAs(k)
  /\ UNCHANGED <<class, self, live>> /\ UNCHANGED searchVars

Borrow ==
  LET w == [Worker("forward", self.compiled) EXCEPT !.bufs = self.shape] IN
  /\ Next1("borrow")
  /\ \/ live' = live \cup {w} /\ self' = [self EXCEPT !.lent = {w}] /\ Proceed
     \/ \E k \in DeviceFaults : RaiseAs(k) /\ UNCHANGED <<self, live>>
  /\ UNCHANGED class /\ UNCHANGED searchVars

\* The dispatch on it; an exception passes the finally block first.
PerCall ==
  /\ Next1("percall")
  /\ \/ Proceed
     \/ \E k \in DeviceFaults : job' = <<Do1("return")>> /\ fault' = k
  /\ UNCHANGED <<class, self, live>> /\ UNCHANGED searchVars

\* rt.close() in the finally block: its exception replaces the one it passes.
GiveBack ==
  /\ Next1("return")
  /\ live' = live \ self.lent /\ self' = [self EXCEPT !.lent = {}]
  /\ Proceed \/ RaiseAs("other")
  /\ UNCHANGED class /\ UNCHANGED searchVars

WorkerStep ==
  \/ CloseRt \/ SeekPlan \/ SearchStep \/ KeepProgram \/ SearchFails
  \/ Compile \/ AllocBuffers \/ Prepare \/ Construct \/ InitWorker
  \/ Built \/ Closed \/ Unfold \/ Dispatch \/ Borrow \/ PerCall \/ GiveBack

WorkersInit ==
  /\ class \in Classes /\ self = NewObject /\ live = {} /\ job = <<>> /\ fault = "none"
  /\ goal \in Requests /\ seen = <<>> /\ stage = "idle" /\ group = 1 /\ index = 1

-----------------------------------------------------------------------------
(* Properties *)

\* A dispatch runs the program of the direction asked for, compiled for the
\* shape of the object, in processes forked after the buffers it reads and
\* writes were made, whatever swaps and failures came before.
DispatchFits ==
  /\ Next1("dispatch") =>
       \A w \in self.rt : /\ w.dir \in {Dir, "both"}
                          /\ w.shape = self.shape /\ w.bufs = self.shape
  /\ Next1("percall") => \A w \in self.lent : w.shape = self.shape

\* A worker that is up can still be closed: the object refers to it.
Reachable == live \subseteq self.rt \cup self.lent

-----------------------------------------------------------------------------
(* The inductive invariant *)

DirsOf ==
  CASE class = "PyPtoAllscan"         -> {"forward"}
    [] class = "PyPtoAllscanBackward" -> {"backward"}
    [] OTHER                          -> {"forward", "backward"}

\* What a worker of the object runs: one program for one direction, or both.
WorkerDirs == IF class = "SimplerAllscan" THEN {"both"} ELSE DirsOf

BuildOnly == {"compile", "construct", "alloc", "init", "built"}
CallOnly  == {"forward", "backward", "dispatch", "borrow", "percall", "return"}

\* A step of a build comes before anything is ready, a step of a call after it;
\* PyPtoZeCo alone searches, and only the backward's search comes late.
JobSteps ==
  {s \in [do : BuildOnly \cup CallOnly \cup {"seek", "search", "prepare", "close", "closed"},
          dir : {"none", "forward", "backward", "both"}] :
     /\ s.do \in BuildOnly => ~self.ready
     /\ s.do \in CallOnly => self.ready
     /\ s.do \in {"forward", "backward"} => s.do \in DirsOf
     /\ s.do = "dispatch" => s.dir \in DirsOf
     /\ s.do \in {"prepare", "construct"} => s.dir \in WorkerDirs
     /\ s.do \in {"seek", "search"} =>
          /\ class = "PyPtoZeCo"
          /\ s.dir = IF self.ready THEN "backward" ELSE "forward"
     /\ s.do = "compile" => class # "PyPtoZeCo"
     /\ s.do \in {"construct", "init"} => class = "SimplerAllscan"
     /\ s.do = "borrow" => class = "PyPtoZeCo"}

\* The step after a close: that of close() itself, of a build, or of a swap.
AfterClose(b) ==
  \/ b.do = "closed"
  \/ ~self.ready /\ b.do \in {"seek", "compile"}
  \/ self.ready /\ b.do = "seek"
  \/ self.ready /\ class = "PyPtoZeCo" /\ b.do = "prepare" /\ Compiled(b.dir)

\* What comes after step a: of a build, of a call on what was built, of close.
Follows(a, b) ==
  /\ a.do = "close" => AfterClose(b)
  /\ a.do = "seek" => b = Do2("search", a.dir)
  /\ a.do = "search" => b = IF self.ready THEN Do2("prepare", "backward") ELSE Do1("alloc")
  /\ a.do = "compile" => b = IF class = "SimplerAllscan" THEN Do2("construct", "both") ELSE Do1("alloc")
  /\ a.do = "construct" => b = Do1("alloc")
  /\ a.do = "alloc" =>
       b = IF class = "SimplerAllscan" THEN Do1("init")
           ELSE Do2("prepare", IF class = "PyPtoAllscanBackward" THEN "backward" ELSE "forward")
  /\ a.do = "prepare" => b = IF self.ready THEN Do2("dispatch", a.dir) ELSE Do1("built")
  /\ a.do = "init" => b = Do1("built")
  /\ a.do = "borrow" => b = Do1("percall")
  /\ a.do = "percall" => b = Do1("return")
  /\ a.do \notin {"built", "closed"}
  /\ a.do \in {"dispatch", "return", "forward", "backward"} =>
       b.do \in {"forward", "backward"} \/ (b.do = "dispatch" /\ class # "PyPtoZeCo")

\* A rest of what a call unfolds into, which does not end halfway.
Chained(s) ==
  /\ s \in Seq(JobSteps)
  /\ \A i \in 1..(Len(s) - 1) : Follows(s[i], s[i + 1])
  /\ s # <<>> => s[Len(s)].do \in {"built", "closed", "dispatch", "return", "forward", "backward"}

Workers ==
  [dir : {"forward", "backward", "both"}, shape : SUBSET Configs, bufs : SUBSET Configs]

Objects ==
  [shape : SUBSET Configs, compiled : SUBSET Configs, bcompiled : SUBSET Configs,
   bufs : SUBSET Configs, rt : SUBSET Workers, backward : BOOLEAN,
   lent : SUBSET Workers, ready : BOOLEAN]

InvObject ==
  /\ class \in Classes /\ self \in Objects
  /\ class # "PyPtoZeCo" => self.bcompiled = {}

\* A worker that is up is the one the object refers to, and there is one.
InvLive ==
  /\ Reachable
  /\ self.rt = {} \/ self.lent = {}
  /\ \A v, w \in self.rt \cup self.lent : v = w
  /\ self.lent # {} => Next1("percall") \/ Next1("return")

\* The programs are those of the object's shape.
Fresh == self.compiled = self.shape /\ self.bcompiled \in {{}, self.shape}

Fits(w) ==
  /\ w.shape = self.shape /\ w.bufs = self.shape /\ w.dir \in WorkerDirs
  /\ class = "PyPtoZeCo" => (w.dir = "backward" <=> self.backward)

\* What was built is for the shape of the object.
InvReady == self.ready => Fresh /\ self.bufs = self.shape /\ \A w \in self.rt : Fits(w)

NothingUp == self.rt = {} /\ live = {}

\* What step s finds when its turn comes.
Finds(s) ==
  /\ s.do \in {"seek", "search", "compile", "construct", "prepare", "closed", "borrow"} => NothingUp
  /\ s.do \in {"construct", "alloc", "init", "prepare", "built"} => Fresh
  /\ s.do \in {"alloc", "init"} =>
       /\ live = {}
       /\ \A w \in self.rt : w.shape = self.shape /\ w.dir = "both"
       /\ self.rt = {} <=> class # "SimplerAllscan"
  /\ s.do \in {"init", "prepare", "built"} => self.bufs = self.shape
  /\ s.do = "prepare" /\ class = "PyPtoZeCo" /\ s.dir = "backward" => self.bcompiled = self.shape
  /\ s.do = "built" => \A w \in self.rt : Fits(w)
  /\ s.do = "dispatch" => \A w \in self.rt : w.dir \in {s.dir, "both"}
  /\ s.do \in {"percall", "return"} => \A w \in self.lent : w.shape = self.shape

InvHead == job # <<>> => Finds(Head(job))

WorkersInv == InvObject /\ Chained(job) /\ InvLive /\ InvReady /\ InvHead
=============================================================================
