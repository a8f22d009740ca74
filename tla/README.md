# TLA+ models of pto-zeco

pto-zeco runs gated linear attention (GLA) over a sequence split across `P`
devices (ZeCO sequence parallelism).  Each rank scans its own tokens in chunks
of `C`; one collective, **AllScan**, hands every rank the state its predecessors
built up (a decayed prefix sum), and its adjoint runs the other way for the
gradients.  The repository has three implementations of both: `torch`
references, the hand-written `simpler` backend (C++ kernels, host orchestration
in Python), and the `pypto` backend (programs compiled and scheduled as a
dispatch graph).

This directory models that code in TLA+, checks the models with TLC and proves
most of its safety properties with TLAPS.  Paths below are relative to `src/`.

## 1. Inventory

| component | state | operations | talks to | what is hard |
|---|---|---|---|---|
| **AllScan forward ring** (`allscan/implementations/simpler`: `allscan_kernel.cpp`, `allscan_orch.cpp`, `impl.py`) | per rank: receive blocks and signal words of a symmetric window, tile, loop index; host: shared input and output buffers | `run`, `run_batch`, `run_multi`; in the kernel wait, fuse, publish, remote store, flush, notify | rank p stores into and notifies rank p+1; host submits P tasks per slot | ordering of store and notify, ranks at different blocks and slots, reuse of buffers and windows by the next call |
| **AllScan reverse ring** (`allscan_backward_kernel.cpp`, `impl.py`) | the same, other direction | `run_backward`, `run_batch_backward`, `run_multi_backward` | rank p stores into rank p-1 | the same, and a tile reused after it was sent |
| **AllScan reference** (`allscan/common.py`) | none | `expected_allscan`, `expected_allscan_backward`, `AllscanImpl` | — | closed form of the decayed sums |
| **SimplerAllscan lifecycle** (`impl.py`) | worker, forked children, shared buffers | `build`, `close`, `_ensure_multi_bufs` | the runs above | buffers made after the fork are invisible; failures between steps |
| **SimplerZeCo lifecycle** (`gla/implementations/simpler/impl.py`) | runners, held workers, AllScan worker, amortized flags | `forward`, `backward`, their multi-head forms, `measure`, `measure_backward`, `close` | compute runners and SimplerAllscan compete for the devices | one worker per device, over every sequence of calls and exceptions |
| **GLA kernels** (`gla/implementations/simpler/kernels`) | tiles of an AI core, pipe flags | loads, vector and cube operations, stores | pipes, ordered by flags and barriers only | a tile reloaded or stored while another pipe uses it |
| **GLA orchestrations and host glue** (`kernels/orchestration`, `gla/.../simpler/impl.py`) | tensors per rank and chunk | `gate_cumsum`, `chunk_h`, `chunk_o`, `grad_o`, `grad_h`; shift of snapshots, gate gradients, reverse recurrence | task graphs ordered by tensor tags; AllScan between stages | in-place state threaded through tasks; off-by-one of prefixes, exclusive products |
| **GLA reference and chunk maths** (`gla/common.py`) | none | `expected_gla`, `gla_chunk_scan`, `gla_reconstruct`, `gla_chunk_backward` | — | chunked = sequential |
| **torch.distributed baselines** (`*/torch_ref.py`) | processes, gloo links, result queue | four programs | blocking send/recv between neighbours, queue to the parent | order of blocking operations, untagged messages, a worker that raises |
| **PyPtoZeCo** (`gla/implementations/pypto/impl.py`) | one prepared worker and the flag of its direction, two compiled programs, shared buffers | `build`, `forward`, `backward`, `measure`, `measure_backward`, `close` | blocking search, compiled programs | the worker is swapped between directions; a swap, a compilation or a build fails half way |
| **Blocking search** (`fused_program.py`: `blocking_plans`, `compile_blocked`) | memo of attempts | walk the plans cheapest first, skip a group whose floor overflows | compiler | skipping a plan that would have built |
| **pypto fused programs** (`fused_program.py`, `fused_backward_program.py`) | tensors per rank, windows | `stage1`, `stage2`, `recompute`, `grad_o`, `grad_h`, two rings, and their P = 1 forms | scheduler that orders dispatches by tensor tags only | blocked reductions, states rebuilt instead of carried; a waiting dispatch that takes the device ahead of the send it waits for |
| **pypto AllScan** (`allscan/implementations/pypto`) | prepared worker; a batch of rings in one comm domain | `build`, `run`, `measure`, `close`, `host_orch` | the same scheduler | rings of a batch in flight together |
| **Ordering probes and predecessor programs** (`notes/devtools`, `notes/issues/pypto-comm-dispatch-ordering`) | dispatch graphs | two-rank send/wait probes, the fused backward without one ring, the fused backward before it was blocked | the same scheduler | which edge between a rank's wait and its send is enough |
| **ZeCoImpl, MultiHeadZeCo, ZeCoFunction, ZeCoModule** (`gla/common.py`) | — | timing defaults, per-head fallback, autograd glue | every backend | sequences of calls on one backend |
| **Benchmark sweeps** (`gla/bench.py`, `allscan/bench.py`, `allscan/bench_backward.py`) | suspect devices, rendezvous files, one backend object | rows of configurations: build, verify, cold call, warm-up, measure, close | every backend, one after the other on the same devices | a failed row must not poison the next |
| **TorchAllscan, TorchZeCo, `common/harness.py`, tests, other notes** | — | in-process baselines, parsing, reporting | — | nothing concurrent |

What makes each correct: AllScan returns exactly the scan of *this* call's
inputs whatever the interleaving, and returns at all; the device is never shared
by two workers and nothing survives `close()`; a dispatch runs the program, shape
and buffers it was asked for; no tile is raced on and a kernel stores what its
header promises; every backend computes the sequential recurrence and its
gradients, however it blocks and distributes them; the search keeps the cheapest
plan that builds; the baselines collect the reference and end; a sweep isolates
its rows.

`PROJECT.json` lists the hazards, each at its line with the properties that
would catch it going wrong.

## 2. Modules

```
ScanAlgebra ── AllScan                       abstract AllScan: what a call promises
   │             ▲ refined by
   ├── AllScanRing (+ AllScanCalls) ── MCAllScanRing
   │      └── AllScanRingProofs
   ├── AllScanBackward (+ AllScanCalls) ── MCAllScanBackward
   │      └── AllScanBackwardProofs
   └── PyptoDispatch (+ PyptoPrograms) ── MCPyptoDispatch
          └── PyptoDispatchProofs
CoreInstructions ── SimplerKernels ── SimplerCore ── MCSimplerCore
                                          └── SimplerCoreProofs
GlaAlgebra ─┬─ Gla                           abstract GLA: what a backend promises
            │   ▲ refined by
            ├── GlaBackends = SimplerGla or PyptoGla ── MCGlaBackends   (+ SampleInputs)
            │      └── GlaBackendsProofs (+ GlaAlgebraProofs)
            └── GlaChunk ── TorchDistributed ── MCTorchDistributed      (+ SampleInputs)
                               └── TorchDistributedProofs (+ GlaAlgebraProofs)
BlockingSearch ── PreparedWorkers ─┐
SimplerZeCo ───────────────────────┴─ Sweeps ── MCSweeps
   │                                    └── SweepsProofs
   └── MCSimplerZeCo
```

The system is cut at the seams the code has.  SimplerGla treats the boundary
exchange as one step that returns the scan: AllScanRing and AllScanBackward show
that it does.  They treat a kernel's local work as one step each: SimplerCore
looks inside.  PyptoGla runs the fused programs' dispatches in program order;
PyptoDispatch says under which scheduling they get to run at all, with
uninterpreted values.  SimplerZeCo, PreparedWorkers and Sweeps are about who
holds a device while all this happens.

* **ScanAlgebra.**  A tensor block is a symbolic linear combination: a set of
  terms `<<input block, blocks whose gamma multiplied it>>`.  Input blocks are
  named by call, buffer, rank and block, so a value left over from another call,
  head or block is never equal to the right one.  `Scan` is the closed form of
  `expected_allscan`.
* **AllScan.**  The abstract collective: a call computes its blocks in any order
  and, on return, the caller's tensors hold the scan of the call's own inputs.
  `run_batch` computes and hands nothing back, as in the code.
* **AllScanCalls.**  The three kinds of host call, their slots and buffers,
  shared by both rings.
* **AllScanRing.**  One action per kernel step: `StartTask` (the runtime picks
  any submitted slot), `Wait` (TWAIT), `Combine` (TLOAD, TROWEXPANDMUL, TADD),
  `Publish` (TSTORE to the output), `Push` (the remote TSTORE is *posted*),
  `Land` (it becomes visible), `Flush` (flag, dcci, dsb, barrier), `Notify`
  (TNOTIFY).  Host: `StartRun` copies the inputs, clears the outputs, allocates
  a zeroed window and submits the tasks; `Return` drains and copies back.
* **AllScanBackward.**  The reverse ring in the same style, with the gradient of
  gamma computed after the message was sent.
* **CoreInstructions, SimplerKernels, SimplerCore.**  A kernel is its sequence
  of instructions.  A pipe executes its own in order; pipes are ordered by
  set_flag/wait_flag, scalar waits and PIPE_ALL barriers only.  A cell is a whole
  tile or GM block and its value is symbolic.  `Promised` gives what a kernel's
  header promises for each block it stores.  The core is hardware and is marked
  external: `CoreInstructions` says what the kernels rely on it to do.
  `KernelVariants` are the kernels there are, `Kernels` those an instance runs.
* **GlaAlgebra, GlaChunk.**  GLA over a prime field; a gate is a power of a
  generator and is given by its logarithm, so exp, log and cumulative sums are
  meaningful and every identity over the reals holds exactly.  `ExpectedGla` is
  the token-by-token recurrence, `ExpectedGlaBackward` its gradients.
* **Gla.**  The abstract backend: a call returns, once, what sequential gated
  linear attention gives for its own input.
* **SimplerGla.**  The five orchestrations as task graphs (a task runs when the
  producers of its operands are done, in any such order), the incore kernels as
  matrix functions, and the host code between the stages.
* **PyptoGla.**  The arithmetic of the fused programs, kernel by kernel:
  `Stage1`, the forward ring (`First`, `Middle`, `Last`), `Stage2`; `Recompute`,
  `GradO`, the reverse ring (`Source`, `BwdMiddle`, `Terminal`), `GradH`.
  Reductions are folded block after block as the plan splits them (`Blocked`),
  states are rebuilt from a recorded walk (`Rebuilt`) rather than carried, and
  the rings go block by block, ranks at their own speed.  `carried` is the
  backward of `b4_pad_program.py`, which carries its states; `ranks = 1` are the
  P = 1 programs.
* **GlaBackends.**  One call of either backend, on the same inputs, implements
  Gla.  `CallSpec` composes SimplerGla (by `INSTANCE ... WITH`) and PyptoGla; the
  mapping reads the result off the tensors each hands back when its call ends.
* **TorchDistributed.**  Four programs as scripts of blocking receives and
  sends, a queue to the parent, workers that may raise.
* **PyptoPrograms, PyptoDispatch.**  `PyptoPrograms` tabulates what each
  program's `host_orch` (or each probe's) submits for a rank: the dispatches in
  program order, the tensors each reads and writes, the windows it waits on and
  sends into.  `PyptoDispatch` is the scheduler: `Submit` in program order,
  `Release` when the last producer of a tensor it names completed, one FIFO and
  one running dispatch per device (`Dispatch`).  Ring kernels run block by block
  (`Receive`, `Send`, `Notify`, `Reduce`, `Await`); a compute kernel is one step
  that makes an uninterpreted value of everything it read, so an output tells
  which inputs, of which call, went into it.  `tokens` is the code generator's
  per-rank ordering token, present or not.  The scheduler is external; what it
  does is taken from `notes/issues/pypto-comm-dispatch-ordering` and
  `ROADMAP.md`.
* **SimplerZeCo.**  A public call is unfolded into the list of steps it performs
  on runners and AllScan workers; each step is an action and any step on a
  device may raise, which runs the `finally` blocks it passes.  Closing the
  runners may raise too, and then keeps the workers of the runner that raised and
  of those after it (`CloseRaises`).  `Sessions` says which calls a user makes
  between a `build` and a `close`, `RankCounts` for how many ranks it builds; it
  builds again only after a `close` that returned.
* **BlockingSearch.**  `blocking_plans` as the list of plans in groups, and
  `compile_blocked` as a walk of it against a compiler that answers as it likes,
  with one restriction the code itself relies on: inside a group, a plan of
  smaller footprint does not overflow where a larger one builds (`Agrees`).
* **PreparedWorkers.**  PyPtoZeCo, the two pypto AllScans and SimplerAllscan,
  which prepare a worker once and dispatch on it many times.  A worker carries
  the direction, shape and buffers it was forked with; a call is the list of its
  steps (`CallSteps`), any of which may raise, and the search of BlockingSearch
  is one of them.
* **Sweeps.**  The three bench programs, row by row, and clients that call one
  backend in any order.  It composes SimplerZeCo with PreparedWorkers: `gla/bench.py`
  runs both on the same devices in one process.  A drain timeout (507018) wedges
  some of the devices of the row that had it.  An exception of a row's `close()`
  is not caught and ends the sweep.
* **SampleInputs.**  Pseudo-random inputs for the runs that compute in the field.

An operator preceded by "Mutant:" is a broken variant of the definition after
it, named in `PROJECT.json` against the property that must catch it; no
specification uses it.

## 3. Runs

| run | question | instance | states |
|---|---|---|---|
| `ring` | safety, refinement of AllScan and termination of the forward ring | P=3, K=2, 2 heads, batch 2, 2 calls of any kind | 54 281 |
| `backward` | the reverse ring: delivery, results, termination | P=3, K=2, 2 heads, batch 2, 2 calls | 84 187 |
| `sweeps` | a dispatch fits its worker, devices are not shared, no worker is left, rows are isolated, the search keeps the first fit, sweeps end | 2 devices; sweeps over a P=2, a P=1 and a P=2 configuration; clients of 4 calls (simpler) and of any number (pypto) | 274 471 |
| `zeco_heads` | *finding*: a multi-head call after a measurement overlaps workers | P=2, 2 calls | — |
| `zeco_timing` | *finding*: amortized flag set by a loop that stood workers up | P=2, 1 call | — |
| `core` | kernels: no race, promised values, flags consumed, they end | K=3, every kernel and role but one | 942 |
| `core_prep` | *finding*: chunk_h_prep reloads a tile still being read | one kernel | — |
| `gla` | a call of either backend implements sequential GLA | P=3 and P=1, N=3, C=2, dk=4, dv=2, modulo 13; three blockings of the pypto programs | 3 034 |
| `torch` | the baselines: messages in step, results, everybody ends | P=3, N=2, C=2, dk=dv=2, modulo 13, 2 inputs, 1 raise | 5 780 |
| `torch_hang` | *finding*: the parent waits for a worker that raised | 1 raise | — |
| `pypto` | dispatch graphs: windows, results, termination, and who needs tokens | 3 devices, K=2, 2 rings per batch, 2 calls; six programs and nine probes | 146 126 |
| `pypto_hang` | *finding*: without tokens the fused backward does not return | P=2, K=1, 1 call | — |

**Why the bounds are enough.**  Three ranks give a source, a middle and a last
rank, the three roles of every ring kernel; two blocks give a loop boundary and
two signal words that can be confused; two slots give tasks that may start in
different orders on different ranks; two calls give a call that reuses buffers
the other one filled, with every pair of kinds.  The kernels have no
data-dependent control, so K=3 is one interior block more than needed.

In `sweeps` the shapes (C=16, dk=32, dv=16, tile unit 16) give the search two
groups of six plans when P=2 (two ring splits) and one when P=1, so that a group
can be left at its floor, walked to its end, or be the last; the sequence P=2, P=1,
P=2 has rows that share one device, both or none with a row that failed, in both
directions and for both backends; the simpler client's four calls are a
measurement after a measurement after a call, over a close and a rebuild.
Sessions keep measurements and multi-head calls apart because of the finding of
`zeco_heads` and for no other reason.

In `gla` three chunks distinguish inclusive and exclusive products and three
ranks an off-by-one from a wrong end.  The three blockings run from none to one
that blocks keys, values, rows and rings at once, with a block of more than one
key in between, so that blocks placed by number and by size differ.  `Window`
(7) bounds how many tasks run ahead of the oldest unfinished one, enough for
tasks of three `chunk_h` chunks to overlap.  Arithmetic modulo 13 with
pseudo-random inputs: a wrong formula agrees with the right one on all entries
only by a coincidence of many independent residues.

In `pypto` two rings are enough to confuse their windows and three devices to
have a middle rank in both directions; the probes run on two of them, as written.

**Deadlock** is checked in the rings and in `pypto` (`Finished` marks the end of
the calls explored).  It is off in `sweeps`, `core`, `gla` and `torch`, where a
finished program has no next step; the liveness properties say that it finishes.

**Types.**  `ring`, `backward` and `pypto` check a type invariant; in the other
runs the values are pinned by stronger properties.

**Fairness.**  `AllScanRing`/`AllScanBackward`: weak fairness of each rank's
kernel (the runtime runs every submitted task, and a kernel that can step does),
of posted stores becoming visible, and of the host's return; calls themselves
are never forced.  A rank that spins on a signal is disabled, not unfair.
`PyptoDispatch`: weak fairness of `Progress` as a whole (host, scheduler or some
device), which suffices because a call takes finitely many steps.
`Sweeps`: the bench program is one thread that does not stop of itself (weak
fairness of `Sweep`, its own steps, and of `Backend`, the steps of the call it
is in); clients are not forced to call.  A step on a device ends or raises: that
the drain has a timeout is the runtime's.
`SimplerCore`, `GlaBackends`: weak fairness of the next-state relation (pipes,
ready tasks and dispatches do not stop of themselves).  `TorchDistributed`: each
process runs, but a blocking send is only *obliged* to return once its message
was received; it may return earlier (gloo buffers) and nothing relies on that.

## 4. Findings

* `core_prep`: `chunk_h_prep.cpp:76` loads `k` into the tile of the gates on MTE2
  with no flag from the vector pipe, whose TSUB reads it (line 70).
  `chunk_o_prep.cpp:71-73` does guard the same reuse.
* `zeco_heads`: `forward_multihead`/`backward_multihead` do not release the
  devices before building the AllScan worker; after `measure()` the persistent
  runners hold them.
* `torch_hang`: the parent's `output_queue.get()` has no end when a worker raised.
* `zeco_timing`: for P > 1 `amortized_timing` is set although workers are stood
  up inside the timed loop.
* `pypto_hang`: rank 0's `chip_bwd_terminal` (`fused_backward_program.py:1460`)
  has no producer, so nothing orders it after `chip_orch_first` of the same rank:
  it may occupy device 0 while the send that rank 1 waits for is queued behind
  it.  The docstring of `host_orch` (lines 1391-1394) concludes from
  `program_backward.py` that submission order does not matter; `pypto` shows why
  that program is no evidence (no rank waits and sends in different dispatches)
  and that per-rank tokens repair this one.  One token shared by all ranks does
  not (the mutant of `EveryCallReturns`).

Read on the way, and not runs:

* `allscan_kernel.cpp:32-35` asks the caller for the 1-based run index as `epoch`
  on a persistent window; `_submit_iter` passes 1 on a window zeroed for each
  call.  Both schemes work on their own.  A growing epoch with a zeroed window
  never returns (the mutant of `EveryCallReturns` in `ring`).
* `gla/bench.py:247` says the cold call "absorbs the one-time forward->backward
  worker swap"; with verification on, the verifying backward before it has
  already swapped.
* After a swap that failed, PyPtoZeCo has no worker: a forward silently takes a
  worker per call, a measurement times their preparation, and a backward answers
  that "this config compiled the forward without one", which is not the reason.
* A `build()` for a new shape whose compilation fails leaves the previous shape's
  program and the new shape's fields; a forward would run the one for the other.
  The clients of `sweeps` call an object only after a build that returned.
* `compile_blocked`'s docstring has it that only a vector-buffer overflow advances
  to the next plan; a placement rejection does too, as a comment in it explains.
* `is_shape_ceiling` looks for the buffer overflow message: a search whose plans
  were all rejected for placement is reported as a failure, not as a ceiling.
* `allscan/bench.py` and `bench_backward.py` neither clean rendezvous files nor
  track devices a drain timeout wedged; `RowsAreIsolated` is `gla/bench.py`'s
  promise alone.
* `b4_stub_fwd.py:5` says grad_h gets zeros; the code passes `dst_r, dgam_r`.
* `repro.py:14-18` of the ordering issue says the program cannot deadlock for
  any ordering reason; without tokens the model of its scheduler finds that it
  can, which is what the issue is about.

## 5. Proofs

Eight modules hold the proofs.  Each theorem is for every value of the constants
that the named assumptions allow; the assumptions say that the ring has at least
two ranks and one block, that the gates' generator generates the field, that
plans come in groups with a floor, and the like, and TLC evaluates each of them
in a run.  No theorem has another hypothesis than its specification, with four
exceptions, stated below: `NoDeviceShared` and `AllScanReference`, and the two
about kernels that leave out the one of the finding `core_prep`.

| module | theorem | property |
|---|---|---|
| `AllScanRingProofs` | `RingInvariant` | `TypeOK /\ RingInv` is an invariant |
| | `TypeCorrect`, `Delivery`, `SingleNotify`, `WindowQuiet` | `TypeOK`, `SignalMeansDelivered`, `NotifiedOnce`, `NoStoreOutlivesWindow` |
| | `Stability` | `RecvStable` |
| | `Refinement` | `ImplementsAllScan`: every step of the ring is a step of AllScan or a stutter |
| `AllScanBackwardProofs` | `ReverseInvariant` | `TypeOK /\ ReverseInv` is an invariant |
| | `TypeCorrect`, `Delivery`, `Stability` | `TypeOK`, `MessageDelivered`, `RecvStable` |
| | `Gradients` | `ReturnsGradients`: a call hands back the adjoints of its own inputs |
| `PyptoDispatchProofs` | `DispatchInvariant` | `DispatchInv` is an invariant, for every program and probe, with tokens or without |
| | `TypeCorrect`, `Delivery`, `Stability` | `TypeOK`, `SignalMeansDelivered`, `RecvStable` |
| | `Returns` | `ReturnsPromised` |
| `TorchDistributedProofs` | `TorchInvariant` | `TorchInv` is an invariant, for every input of integers, whoever raises |
| | `InStep` | `MessagesInStep` |
| | `AllScanReference` | `CollectedIsReference`, for the two AllScan programs |
| `SimplerCoreProofs` | `CoreInvariant` | `CoreInv` is an invariant, for every kernel and number of blocks |
| | `FlagsAllConsumed` | `FlagsConsumed`, for every kernel |
| | `NoPipeRaces`, `KernelsStorePromised` | `RaceFree`, `StoresPromised`, for every kernel but `chunk_h_prep` |
| `GlaBackendsProofs` | `CallInvariant` | `CallInv` is an invariant of a call of either backend, for every field, shape, blocking and integer input |
| | `RecordsRebuild`, `ReverseIsAdjoint` | `RecordsRebuildStates`, `ReverseStatesAreAdjoints` |
| | `BoundariesAreStates`, `FoldedSnapshots` | `BoundaryIsState`, `SnapshotsAreStates` |
| `SweepsProofs` | `SearchInvariant` | `SearchInv` is an invariant of a search on its own |
| | `SearchKeepsFirstFit` | `FirstFit`: the plan kept builds and no earlier one does; giving up means that none does |
| | `SweepInvariant` | `SweepInv` is an invariant |
| | `ChecksNeverFire`, `EveryDispatchFits`, `NothingIsLeft`, `RowsStayIsolated`, `EverySearchFirstFit` | `OwnChecksNeverFire`, `DispatchFits`, `NoWorkerLeft`, `RowsAreIsolated`, `FirstFit` |
| | `NoDeviceShared` | `DevicesNotShared`, where no client of SimplerZeCo mixes measurements and multi-head calls |

`GlaAlgebraProofs` holds the lemmas about sums, products and recurrences in the
field that the others use.

The properties are not inductive, and each invariant says what is missing.
`RingInv` and `ReverseInv` are properties of their runs.  The others were
checked with TLC on the instances of `sweeps`, `torch`, `pypto`, `gla`, `core` and
`core_prep` while the proofs were made, and are left out of those runs: the
theorems state the properties that are in them.

**The rings.**  A signal is truthful only because of where its sender is, and
that a sender has flushed only because of what may still be in flight.
`RingInv` says how the position of every rank determines everything else: which
signals are up (`InvSignals`: exactly those of blocks the predecessor has
*passed*), which stores may be under way (`InvStores`: at most one per rank, of
a rank that is flushing), what tiles and outputs hold (`InvData`, `InvOut`),
which tasks are left (`InvTasks`), and what the host buffers hold between calls
(`InvHost`, `HostOutDated`).  The proof has one lemma per action (`InvStartRun`
… `InvNotify`), with one step per conjunct the action disturbs; the arithmetic
of the scan is at the head of `AllScanRingProofs` (`ScanBase`, `ScanStep`: fusing a rank's
block with its predecessor's scan is its scan).  `Refinement` needs one fact
more: scans of different calls, ranks or blocks are different values
(`ScanDistinct`), which is what makes `DoneBlocks` a refinement mapping.
`ReverseInv` has the same shape.  The differences are the code's: a message is
not the tile but its decayed form, a rank has *sent* a block before it has
*passed* it (the gradient of gamma comes after the notify), and no kernel writes
the `dgamma` of rank 0, which is right only because the host zeroed it.

**The dispatch graphs.**  `ReturnsPromised` is about the end of a call;
`DispatchInv` says what holds in between: every dispatch is in one place, and
one that is routed has its producers behind it (`InvPlaces`); a tensor holds
what the call calls for *from the moment its dispatch wrote it* (`InvContents`,
with `Wrote` per block for the ring kernels, which finish a block at a time); a
signal that is up was raised by a dispatch that is past that block
(`InvSignals`).  `Holds` gives every tensor's right contents, intermediates
included, and the proof shows for each row of the program tables that what the
dispatch reads is what `Holds` says, given its producers.  That uses the tables
themselves and not only their shape: a tensor with a second writer, or one read
by name without an edge to its producer, would break the case of its row.  The
tokens play no part: what they decide is whether a call returns, not what.

**The baselines.**  A message is untagged, so that a receive gets the right one
is a fact about counting.  `InvPlaces` puts each worker in its script, `InvMail`
says that a link holds exactly the exchanges posted by one end and not yet taken
by the other, in their order, and `InvGot` that what was taken is what the
neighbour computed for it.  This holds with workers that raise at any point,
because a raised worker is one that stays where it is.  `AllScanReference` then
needs that sending block by block around a ring computes the prefix, which is an
induction over ranks.  tlapm cannot cite an induction rule here, but it can cite
`WFMin` of WellFoundedInduction for a *set* of numbers; `SetInduction` is
derived from it, and the recurrences of the field's sums and products
(`RunExists`), of the reference's scan (`ScanExists`, `OutScan`) and of the
concatenations that unfold calls (`PartialSums`) are proved with it.

**The fused programs.**  Sequential GLA is one recurrence over all tokens; the
fused programs cut it into chunks, keep a record per chunk (its decay and what
it adds), fold the records of a shard into what the ring carries, and walk them
again, forwards for the states and backwards for the adjoints.  The first half
of `GlaBackendsProofs` is about the recurrence: `StateAt` and `IntoAt` are the
state before, and the adjoint after, any chunk, and `LocalRebuilds` and
`AdjointComposes` take them over many of them; what the records of a walk add up to (`WalkRecords`,
`DecayRecords`, `AdjointRecords`) is then the same recurrence over fewer steps.
The second half is `PyptoInv`: the inputs are those chosen, each device's tensors
hold what its place in the script and the block its ring is at call for
(`DeviceInv`), and a window holds exactly what the ring owes its neighbour
(`WindowInv`, `Due`).  `RecordsRebuild` and `ReverseIsAdjoint` read it at the end
of the passes.  Exponentials are powers of the base in the field, so that a chunk
may be rescaled by its total decay only because that power has an inverse there.

**The simpler orchestrations.**  Here the state is a heap of tensors that many
tasks write, some of them in any order, so `SimplerInv` says what a tensor *is*
and not when it was written.  `Means` gives every name its value in terms of
sequential GLA: `S_total` is the local state of a shard, `S_recv` the state
before its first token, `snap` the state before a chunk, `dH` what a chunk adds
to the adjoint, `dS_recv` what all the chunks of a rank add to it.
`Holding` says that whatever is in the heap has its meaning (`Good`) and that
what the host's place in its script calls for is there (`Present`); a stage may
start once the one before has ended, and the tensors it reads are then among
these.  Two things happen inside a stage.  The tasks of one run may end in any
order, and `RunKept` says what those that are done leave for the others.
`chunk_h` is the exception: its updates write one accumulator, `S`, in place, so
an update reads what the previous one wrote, and `Updating` says that for some m
exactly the first m chunks have been updated and that `S` is what they add up to.  `BoundariesHold` and `SnapshotsHold` then are `Means` at
`S_recv`, `dS_total` and `snap`.

**The kernels.**  `RaceFree` and `StoresPromised` are about every order in which
six pipes may run a program of any length.  The proof separates what the core
does from what the kernels ask of it.

* On any program.  `Before(s, a, b)` holds when pipes, flags, scalar waits and
  barriers force instruction a to have finished when b starts: it is the least
  relation with these edges (`Closed`).  A program is *ordered* if any two
  instructions that use a cell, one of them writing it, are so related.  `CoreInv`
  says of a running core that what has started was its turn (`InvIssue`); that a
  flag counts its sets not yet waited for, and that a wait that is over comes
  after the set it is written behind (`InvFlags`), so that `Before` tells the
  truth (`BeforeDone`); and that operands and cells are those of the program run
  one instruction at a time, cut down to what has finished (`InvValues`).  The
  last is inductive on ordered programs only: all that a starting instruction
  reads has been written, and nothing later has written it.
* Loops.  `Then` puts two programs together; the result is ordered if a barrier
  ends the moves of the first or starts those of the second (`Tailed`,
  `Headed`), and makes what both make if the second reads nothing the first
  left behind (`Fresh`) and overwrites none of its results.  `LoopMakes` is the
  induction over blocks.
* The kernels.  For each block of the two AllScan kernels in each role, and for
  each kernel of GLA, the proof derives the list of its instructions, a chain of
  edges for every pair that meets in a cell, and the value each instruction
  makes.  A flag dropped or put one instruction early breaks a chain.
  For `chunk_h_prep` there is none from the TSUB that reads the gates to the load
  of `k` over them (§4); its flags are all waited for, and that is proved.

**The search.**  `FirstFit` speaks of the end of the walk only.  `SearchInv`
adds what the walk has ruled out behind it at every moment (`NothingBehind`: all
plans of earlier groups and the earlier plans of this one) and that at the floor
the group's first plan has been tried.  A plan ruled out stays so, because the
memo only grows (`RuledOutStays`); a group left early is ruled out because its
floor overflowed and has the smallest footprint (`LeaveGroup`), which is where
monotony is used.

**The device lifecycles.**  The hard part is that a call is unfolded when it is
made, and its steps come later, each of them with the chance to raise.
`SweepInv` therefore says something about the *rest of the call*:

* SimplerZeCo (`ZeCoInv`).  A pass on held workers occurs once in what is left
  and comes after one on per-kernel workers (`InvScript`), runners and the
  workers they hold agree (`InvRunners`), a per-kernel or AllScan worker exists
  inside its step only (`InvSteps`), and held workers are released before the
  AllScan worker is built (`InvRelease`).  The last one is claimed under
  `Separated` alone: a measurement that raises leaves held workers up and a
  multi-head call does not release them, which is the finding of `zeco_heads`.
  `DevicesNotShared` is therefore proved for clients that keep the two apart,
  with any calls inside each kind; the bench programs are of this kind, and so
  are the sessions of `sweeps`.  The other theorems do not need it.
* The prepared workers (`WorkersInv`).  `Chained` says which step may follow
  which in what is left of a build, a call or a close; `Finds` says what each
  step finds when its turn comes: `prepare` finds nothing up and the compiled
  program of its direction, `dispatch` a worker of its direction, `closed`
  nothing.  A step that succeeds establishes what the next one finds, for every
  step `Chained` allows after it; one that raises leaves what `InvLive` and
  `InvReady` say an object may be left with.
* The sweeps add whose turn it is (`InvTurns`: the two kinds of backend are never
  up together, and a closing row that still has its object is one whose close
  raised), where a row is and what its calls may assume (`InvPhase`,
  `InvCalls`, `InvClosing`), and that `gla/bench.py` knows every wedged device
  (`InvSuspects`).

**Model-checked only.**

* Liveness (`EveryCallReturns`, `KernelEnds`, `CallEnds`, `WorkersStop`,
  `ReturnsUnlessRaised`, `SweepEnds`): it rests on fairness and ENABLED.
* `CollectedIsReference` of the two ZeCO programs: that chunked attention equals
  the token recurrence, an identity of matrices over sums within sums.  The
  theorem covers the two programs whose result is the scan itself.
* GlaBackends: `ImplementsGla`, which is the same identity for what a call hands
  back; the states and adjoints it starts from are proved for both backends.

## 6. Not modelled, and why

* Floating point: values are symbolic or residues, so rounding, overflow and NaN
  are out of sight (a NaN gradient passes `max_diff > 1e-4`,
  `gla/implementations/torch_ref.py:384`).
* pypto's compiler and runtime beyond the scheduling rules above: memory spaces,
  the split of a kernel over cube and vector pipes, footprints (any monotone
  answer is possible), and persistent comm domains (what the runtime resets
  between calls is not in the repository).  The reproducers of their defects
  under `notes/issues` and `notes/devtools` exercise code that is not here.
* Windows nothing consumes, such as those `host_orch` of `b4_stub_fwd.py`
  allocates at P = 1.
* Shape dispatch, template instantiation and tile sizes of the simpler kernels,
  and buffer capacities.
* A vector pipe that overlaps its own instructions: `allscan_kernel.cpp:154-155`
  has no PIPE_V barrier where other kernels do.  The model takes a pipe to
  execute in order.
* A worker's `close()` that raises and leaves its processes up although only a
  local variable refers to it (`run_fused_forward`, `_ComputeRunner.run`, the
  AllScan worker of a boundary): the exception is modelled, the device is taken to
  be free after it.  Where the object keeps its reference, both are possible.
* An exception of such a close that takes the place of a drain timeout and so
  hides it from `gla/bench.py`, which looks at the text of the last one only.
* `MASTER_PORT` of the baselines: the rendezvous is inside torch.distributed.
* `TorchAllscan`/`TorchZeCo` in one process: the maths of the distributed
  programs without the processes.
* Input generation, tables, JSON, device-list parsing, percentiles, tests: I/O
  and pure functions a unit test reaches.

## 7. Plan

1. Proofs: the chunk identity over the field (`gla_chunk_scan` is the token
   recurrence), on which `ImplementsGla` and the rest of `CollectedIsReference`
   wait.  `CallInv` gives the states and adjoints it would start from.
2. An abstract reverse scan, so that AllScanBackward and the reverse ring of
   PyptoGla refine the same specification.

The conventions hold for them too: constants with named assumptions, one action
per operation, invariants as conjunctions of named parts, recursion as recursive
functions in what is to be proved about.
