------------------------------- MODULE Sweeps -------------------------------
(***************************************************************************)
(* Who uses the backends, and what a failure of one use does to the next:  *)
(* the benchmark sweeps (gla/bench.py, allscan/bench.py,                   *)
(* allscan/bench_backward.py), which drive one object per backend over     *)
(* many configurations and go on after a row that failed, and clients that *)
(* build one backend and call it in any order.  Composes SimplerZeCo with  *)
(* PreparedWorkers: all of them share the devices.                         *)
(***************************************************************************)
EXTENDS SimplerZeCo, PreparedWorkers

CONSTANTS
  Programs,   \* the programs that may be running
  ConfigList, \* the configurations of a sweep, in order
  Warmups     \* calls between the cold call and the measurement

ASSUME SweepAssumption ==
  /\ Programs \subseteq {"simpler_client", "pypto_client", "gla", "allscan", "allscan_backward"}
  /\ ConfigList \in Seq(Configs) /\ Warmups \in Nat
  /\ {c.P : c \in Configs} \subseteq RankCounts

VARIABLES
  program,  \* the one that runs
  row,      \* position in its rows
  phase,    \* "client"; of a sweep: "rows", "calls", "closing", "ended", "aborted"
  made,     \* calls of bench_one made in this row
  suspect,  \* devices the sweep has marked suspect
  wedged,   \* devices a drain timeout (507018) has wedged
  leaked    \* stale rendezvous files of a failed run lie in /tmp

sweepVars   == <<program, row, phase, made, suspect, wedged, leaked>>
simplerVars == vars
allVars     == <<sweepVars, simplerVars, workerVars, searchVars>>

Quiet1 == UNCHANGED workerVars /\ UNCHANGED searchVars  \* the prepared workers
Quiet2 == UNCHANGED simplerVars                         \* the per-kernel ones

-----------------------------------------------------------------------------
(* The rows of each sweep, in order *)

Row(impl, dir, c) == [impl |-> impl, dir |-> dir, config |-> c]

Block(impl, dir) == [i \in DOMAIN ConfigList |-> Row(impl, dir, ConfigList[i])]

\* Direction is the outer loop over configs.
GlaRows ==
  Block("PyPtoZeCo", "forward") \o Block("PyPtoZeCo", "backward")
    \o Block("SimplerZeCo", "forward") \o Block("SimplerZeCo", "backward")

AllscanRows         == Block("PyPtoAllscan", "forward") \o Block("SimplerAllscan", "forward")
AllscanBackwardRows == Block("SimplerAllscan", "backward") \o Block("PyPtoAllscanBackward", "backward")

Rows ==
  CASE program = "gla"              -> GlaRows
    [] program = "allscan"          -> AllscanRows
    [] program = "allscan_backward" -> AllscanBackwardRows
    [] OTHER                        -> <<>>

This    == Rows[row]
Used(r) == 0..(r.config.P - 1)

\* The calls of one row after its build: verification, the cold call, the
\* warm-up and the measurement.
GlaCalls(dir) ==
  Times(2 + Warmups, <<dir>>) \o <<IF dir = "forward" THEN "measure" ELSE "measure_backward">>

\* allscan/bench.py and bench_backward.py count the cold call as a warm-up.
AllscanCalls         == Times(1 + Warmups, <<"forward">>) \o <<"measure">>
AllscanBackwardCalls == Times(1 + Warmups, <<"backward">>) \o <<"measure_backward">>

RowCalls(r) ==
  <<"build">> \o CASE program = "gla"              -> GlaCalls(r.dir)
                   [] program = "allscan"          -> AllscanCalls
                   [] program = "allscan_backward" -> AllscanBackwardCalls

OnSimpler    == row \in DOMAIN Rows /\ This.impl = "SimplerZeCo"
CallOver     == IF OnSimpler THEN Idle ELSE Waiting
CallFailed   == IF OnSimpler THEN raised ELSE fault # "none"

\* What the exception says; the per-kernel workers' model does not tell.
Failures == IF OnSimpler THEN {"drain", "other"} ELSE {fault}

-----------------------------------------------------------------------------
(* The sweeps *)

\* Mutant: only a row whose devices are all suspect is skipped.
SkipsSubset(r) == Used(r) \subseteq suspect
Skips(r)       == suspect \cap Used(r) # {}

\* A row is skipped, or started with no stale rendezvous.
NextRow ==
  /\ phase = "rows" /\ row <= Len(Rows)
  /\ IF program = "gla" /\ Skips(This)
     THEN row' = row + 1 /\ UNCHANGED <<phase, made, leaked>>
     ELSE /\ phase' = "calls" /\ made' = 0 /\ UNCHANGED row
          /\ leaked' = (program # "gla" /\ leaked)
  /\ UNCHANGED <<program, suspect, wedged, live, job, fault>>
  \* the first row of another backend uses another object
  /\ IF phase' = "calls" /\ This.impl \in Classes /\ This.impl # class
     THEN class' = This.impl /\ self' = NewObject
     ELSE UNCHANGED <<class, self>>
  /\ UNCHANGED searchVars /\ Quiet2

Ends ==
  /\ phase = "rows" /\ row > Len(Rows)
  /\ phase' = "ended"
  /\ UNCHANGED <<program, row, made, suspect, wedged, leaked>> /\ Quiet1 /\ Quiet2

\* bench_one's next call
BenchCall ==
  LET op == RowCalls(This)[made + 1] IN
  /\ phase = "calls" /\ CallOver /\ made < Len(RowCalls(This))
  /\ made > 0 => ~CallFailed
  /\ made' = made + 1
  /\ UNCHANGED <<program, row, phase, suspect, wedged, leaked>>
  /\ IF OnSimpler
     THEN /\ IF op = "build"
             THEN Build /\ P' = This.config.P /\ session' = {"forward", "backward", "measure", "measure_backward"}
             ELSE \E H \in HeadCounts : H = 1 /\ Call(op, H)
          /\ Quiet1
     ELSE /\ IF op = "build" THEN StartBuild(This.config) ELSE StartCall(op)
          /\ Quiet2

\* Mutant: the sweep stays at the row.
AfterRowAgain == phase' = "rows" /\ UNCHANGED row

\* allscan/bench.py keeps the object between configurations and closes it
\* after the last one; gla/bench.py closes it after every row.
AfterRow ==
  IF program = "gla" \/ row = Len(Rows) \/ Rows[row + 1].impl # This.impl
  THEN phase' = "closing" /\ UNCHANGED row
  ELSE phase' = "rows" /\ row' = row + 1

RowDone ==
  /\ phase = "calls" /\ CallOver /\ made = Len(RowCalls(This)) /\ ~CallFailed
  /\ AfterRow /\ made' = 0
  /\ UNCHANGED <<program, suspect, wedged, leaked>> /\ Quiet1 /\ Quiet2

\* The handler of main: a shape ceiling is a skip, anything else a failure; a
\* drain timeout has wedged devices it ran on, and all it used are marked.  The
\* timeout is taken to reach main: no close on its way raises another exception.
RowFails ==
  /\ phase = "calls" /\ CallOver /\ made > 0 /\ CallFailed
  /\ \E k \in Failures :
       /\ suspect' = IF program = "gla" /\ k = "drain" THEN suspect \cup Used(This) ELSE suspect
       /\ IF k = "drain"
          THEN \E hit \in SUBSET Used(This) : hit # {} /\ wedged' = wedged \cup hit
          ELSE UNCHANGED wedged
       /\ leaked' \in IF k = "ceiling" THEN {leaked} ELSE {leaked, TRUE}
  /\ AfterRow /\ made' = 0
  /\ UNCHANGED program /\ Quiet1 /\ Quiet2

\* impl_obj.close(); `made` tells the call from its return.
StartClose ==
  /\ phase = "closing" /\ made = 0
  /\ made' = 1
  /\ UNCHANGED <<program, row, phase, suspect, wedged, leaked>>
  /\ IF OnSimpler
     THEN Close /\ Quiet1
     ELSE StartCall("close") /\ Quiet2

\* An exception of close() is not caught: the sweep ends there.
EndClose ==
  /\ phase = "closing" /\ made = 1 /\ CallOver
  /\ made' = 0
  /\ IF CallFailed
     THEN phase' = "aborted" /\ UNCHANGED <<row, leaked>>
     ELSE phase' = "rows" /\ row' = row + 1 /\ leaked' = (program # "gla" /\ leaked)
  /\ UNCHANGED <<program, suspect, wedged>> /\ Quiet1 /\ Quiet2

-----------------------------------------------------------------------------
(* Clients *)

ClientOps == {"forward", "backward", "forward_multihead", "backward_multihead",
              "measure", "measure_backward"}

\* A client calls what it has built, also after a call that raised; it builds
\* again, or closes, when it likes.
PyptoClient ==
  /\ program = "pypto_client"
  /\ \/ WorkerStep
     \/ \E c \in Configs : StartBuild(c)
     \/ \E op \in ClientOps \cup {"train", "close"} : self.ready /\ StartCall(op)
  /\ UNCHANGED sweepVars /\ Quiet2

SimplerClient ==
  /\ program = "simpler_client" /\ Next
  /\ UNCHANGED sweepVars /\ Quiet1

-----------------------------------------------------------------------------

SimplerStep ==
  \/ StandUpKernel \/ RunKernel \/ OpenHeld \/ DispatchHeld
  \/ ReleaseDevices \/ UsePlainRunners \/ UsePersistentRunners
  \/ CompareGate \/ SetTimer \/ SetAmortized \/ BuildAllScan \/ RunAllScan

Backend ==
  /\ phase \in {"calls", "closing"}
  /\ \/ WorkerStep /\ Quiet2
     \/ SimplerStep /\ Quiet1
  /\ UNCHANGED sweepVars

Sweep == NextRow \/ Ends \/ BenchCall \/ RowDone \/ RowFails \/ StartClose \/ EndClose

SweepInit ==
  /\ Init /\ WorkersInit
  /\ program \in Programs
  /\ class = "PyPtoZeCo"
  /\ goal = CHOOSE r \in Requests : TRUE
  /\ phase = IF program \in {"simpler_client", "pypto_client"} THEN "client" ELSE "rows"
  /\ row = 1 /\ made = 0 /\ suspect = {} /\ wedged = {} /\ leaked = FALSE

SweepNext == Sweep \/ Backend \/ PyptoClient \/ SimplerClient

SweepSpec == /\ SweepInit /\ [][SweepNext]_allVars
             /\ WF_allVars(Sweep) /\ WF_allVars(Backend)
-----------------------------------------------------------------------------
(* Properties *)

\* A device hosts one worker at a time, whichever backends took turns on it:
\* prepared, held, per-kernel and AllScan workers exclude each other.
DevicesNotShared ==
  \A d \in Devices :
    Cardinality(Hosted(d)) + Cardinality({w \in live : d \in Ranks(w)}) <= 1

\* A sweep that reaches its end, and a backend that was closed, leave no chip
\* process behind; until then every worker is one its object can close.
NoWorkerLeft ==
  /\ Reachable
  /\ ~built => \A d \in Devices : Hosted(d) = {}
  /\ phase = "ended" => live = {} /\ \A d \in Devices : Hosted(d) = {}

\* gla/bench.py's promise that "a failed config can't poison the next one": no
\* row uses a device an earlier drain timeout wedged, and none starts while a
\* stale rendezvous file or another row's worker is there.
RowsAreIsolated ==
  program = "gla" /\ phase = "calls" =>
    /\ Used(This) \cap wedged = {} /\ ~leaked
    /\ made = 0 => live = {} /\ \A d \in Devices : Hosted(d) = {}

\* A sweep goes through its rows whatever fails in them, and ends.
SweepEnds == <>(phase \in {"client", "ended", "aborted"})

-----------------------------------------------------------------------------
(* The inductive invariant *)

\* In a row of the per-kernel workers, or stopped in one.
SimplerRow == phase \in {"calls", "closing", "aborted"} /\ OnSimpler

\* Who may have something up: the per-kernel workers, for their client and from
\* the build to the close of a row of theirs; the prepared workers, never while
\* those are used, and between rows only if the next one goes on with the object.
InvTurns ==
  /\ built => \/ program = "simpler_client"
              \/ /\ SimplerRow
                 /\ phase = "calls" => made > 0
                 /\ phase = "closing" /\ made > 0 => raised
  /\ program = "simpler_client" \/ SimplerRow => live = {} /\ job = <<>>
  /\ phase = "rows" =>
       /\ job = <<>>
       /\ live = {} \/ (program # "gla" /\ row \in DOMAIN Rows /\ This.impl = class)
  /\ phase = "ended" => live = {}

\* Where a sweep is.
InvPhase ==
  /\ program \in Programs /\ made \in Nat
  /\ row \in 1..(Len(Rows) + 1)
  /\ phase \in {"client", "rows", "calls", "closing", "ended", "aborted"}
  /\ phase = "client" <=> program \in {"simpler_client", "pypto_client"}
  /\ phase = "client" => class = "PyPtoZeCo"
  /\ phase \in {"calls", "closing"} =>
       /\ row \in DOMAIN Rows /\ (OnSimpler \/ This.impl = class)
       /\ made = 0 => job = <<>>

\* A call is only made on what was built, and not after one that failed; a close
\* that returned has left nothing up.
InvCalls ==
  phase = "calls" /\ ~OnSimpler /\ made > 0 =>
    /\ job # <<>> => job[Len(job)].do # "closed"
    /\ \/ self.ready
       \/ job = <<>> /\ fault # "none"
       \/ job # <<>> /\ job[Len(job)].do = "built"

InvClosing ==
  phase = "closing" /\ ~OnSimpler /\ made > 0 =>
    \/ job = CallSteps("close")
    \/ job = <<Do1("closed")>> /\ live = {}
    \/ job = <<>> /\ (fault = "none" => live = {})

\* gla/bench.py knows which devices are wedged, and starts no row on them.
InvSuspects ==
  program = "gla" =>
    /\ wedged \subseteq suspect
    /\ phase = "calls" => /\ Used(This) \cap suspect = {} /\ ~leaked
                          /\ made = 0 => live = {}

SweepInv ==
  /\ ZeCoInv /\ WorkersInv
  /\ InvTurns /\ InvPhase /\ InvCalls /\ InvClosing /\ InvSuspects
=============================================================================
