# LatchMoE in TLA+

LatchMoE (`src/vllm_moe_offload_ascend`) is a vLLM plugin that serves
mixture-of-experts models whose expert weights do not fit the HBM of one NPU.
The weights stay in host memory.  Each offloaded layer owns a small bank of HBM
*slots*, into which the experts that a forward needs are copied, and a table
`log2phy` from logical experts to slots.  Captured graphs read slots and table
at fixed addresses, so a decision of the host reaches a replayed graph only
through the *contents* of the two.  Prompts that need more experts than there
are slots are executed in *waves* over a few stage buffers.

What can go wrong is silent: a kernel that reads a slot too early, too late, or
through a stale table entry computes with the weights of another expert, and
nothing raises.  These modules say when that cannot happen, and where it can.

- [The system](#the-system): components, state, interaction, hazards
- [The modules](#the-modules): what models what
- [The runs](#the-runs): what TLC checks, bounds, fairness
- [The proofs](#the-proofs): what TLAPS proves, from what, how
- [Where code and documentation disagree](#where-code-and-documentation-disagree)
- [Not modelled](#not-modelled), [Plan](#plan)

`PROJECT.json` lists components, runs, mutants (for each checked property a
plausible slip of the code that breaks it), the source lines of every
definition, hazards and theorems.  Run TLC with
`tlc -config <run>.cfg <module>.tla`, the prover with `tlapm <module>.tla`.

## The system

### Components

Paths are below `src/vllm_moe_offload_ascend`.

| component | state it keeps | operations | what makes it correct |
|---|---|---|---|
| Slot bank (`moe_offload/slot_bank.py`) | per slot: state (EMPTY, LOADING, READY, COMPUTING), key, version, last-used step; index of resident experts | allocate (empty slot, else LRU victim), assign, lookup, clear, mark states | index and slots agree; the LRU never takes a slot of the plan in hand; versions tell leases apart |
| Fixed-slot runtime (`moe_offload/runtime.py`) | `log2phy` and its host mirror, active slots, completion events, step counter | stage a plan (drain, place, load, publish), begin/end of a compute, capture hand-over, full-residency staging | a kernel reads its experts' weights; a lease outlives its kernel; failures give reservations back |
| Transfer engine (`moe_offload/transfer_engine.py`) | H2D stream, pending and ready events | load_many_sync, load_many_async, make a stream wait | nobody reads a slot before its copy; no copy overtakes a reader |
| B2 wave executor (`patches/patch_fused_moe.py`, `_run_b2_wave_prefill`; stage banks in `runtime.py`) | wave position, prefetch cursor, staged records, release events of the forward and of the pool shared by layers | prime, prefetch, demand staging, consume, launch, refill, fall back to the full-layer bank | a wave reads its own weights across waves, forwards and layers; no wave skipped or staged twice; no self-made lack of buffers |
| B2 wave planner (`moe_offload/phase_split.py`) | none across calls | pack experts, order the waves, cut the pairs, order rows, native combine, full-token reference | each routed pair computed once, in a wave that holds its expert; results go home; waves are staged in the order they are computed in |
| Seam dispatch (`ops/fused_moe/moe_offload_stage_op.py`, `_maybe_run_b2_wave_prefill`, route stats in `runtime.py`) | a decision per forward, route-stats cache, phase compiled into the graph, captured sizes | stage, defer, refuse; take waves or slots; replay | stage op and executor, deciding separately, agree; every active expert is computed |
| Host store, CPU-first load, weight release (`host_store.py`, `cpu_first_loader.py`, `expert_weight_release.py`) | host copies, signatures, markers on the layer, released layers | create, process, register, validate, release | originals go only after a complete host copy and with slots in place |
| Graph address lock, registration, memory ledger (`runtime.py`) | address fingerprints, registered banks, cached ledger | register, lock at capture, assert at staging | a captured address stays valid; a cached ledger is the current one |
| Seam runner: hooks, capability guards, router and MLP operators, injected top-k registry (`patches/patch_fused_moe.py`, `capabilities.py`, `moe_router_op.py`, `moe_mlp_op.py`, `moe_seam_inject.py`) | markers of installed hooks, per-layer verdicts, one registry entry per layer, the forward context's layer index, the dispatcher's width, state of the overlapped shared expert | install, retry, qualify or refuse, route, inject, select, compute, split off fused shared columns, overlap the shared expert | a kernel computes with the routing that its own layer's router made in this forward; a layer the seam cannot serve is refused; the shared output is complete when used |
| Configuration and AutoConfig (`moe_offload/autoconfig.py`, `config.py`, `prefill_residency.py`, `launcher.py`) | environment variables of the engine and of each worker, the plan | derive resident layers and slots, twice; exchange layers by measured cost; refuse contradictions; spawn and load | all processes agree; slot banks fit the budget they were planned with |
| Layered strategy, placement plans, tracing, benchmarks, tools | none that evolves while serving | | |

### How they interact

One host thread runs the forwards of a worker.  A forward of an offloaded layer
passes three pieces: the router op writes `topk_ids`; the stage op, host code
between two graph pieces, reads them back and either stages the active experts
into slots or defers; the MLP piece computes, as a replayed graph, or eagerly
through `fused_experts`, which may enter the wave executor.  Nothing hands the
decision of the stage op to the MLP piece: each decides from what it sees.

What runs concurrently with the host are two device streams.  The H2D stream
executes copies in the order of their batches, the compute stream kernels in
the order of their launch.  They are ordered relative to each other by events
only: the compute stream is told to wait for a batch (`_wait_transfer_event`),
the host waits for a kernel (`_drain_slot_bank_inflight_work`), a batch waits
for the last reader of a stage buffer (`prefill_stage_buffer_release_event`).

Between the layers of a forward there is shared state of another kind: the
routing crosses from the router op to the MLP in a registry keyed by layer id, a
layer is found by an index that the forward context counts up, and all layers
share the dispatcher and its `top_k`.  A shared expert may run on a third
stream, which is ordered by three events.

Before the first forward, the configuration goes from the user's environment
through two derivations to the workers, and each layer from its creation through
formatting, registration and release to capture.

### What is hard

- *Two streams and a host that runs ahead of both.*  Slots are called READY
  while their copies are still queued, and are evicted under kernels that are
  still running, unless the right event is waited for.
- *Leases by event.*  The only record that a slot is in use by a kernel is a
  completion event keyed by slot and generation; capture and the fused shared
  path treat it in ways of their own.
- *Pool shared by layers.*  A forward of one layer reuses stage buffers whose
  last reader is a kernel of another layer.
- *Partial failure.*  A store read or a copy raises half way through a plan or
  a wave loop, a registration between host copy and slots, a kernel while the
  dispatcher is narrowed; what was reserved, staged or injected remains.
- *Decisions taken twice.*  The stage op decides from a phase that is a constant
  of the compiled graph, the executor from the current forward; a replayed
  graph decides nothing.  The layout is derived once before the model is known
  and once after.
- *Index arithmetic over permutations* in the planner and the combine.

`PROJECT.json` lists these at the lines where they bite, with the properties
that would catch them going wrong.

## The modules

| module | models | composes |
|---|---|---|
| `MoeLayer` | the promise: kernels are issued, executed in order, and each uses the weights of its own experts | |
| `SlotBank` | the bank: state, eviction order, the effect of each operation | |
| `FixedSlots` | host staging, the leases, capture and replay, both streams, failures | extends `SlotBank`; implements `MoeLayer` |
| `WaveExecutor` | the wave loop, stage buffers, release events, the full-layer fallback, both streams, failures | implements `MoeLayer` |
| `WavePlanner` | packing, order of the waves, pair planning, payload order, combine, the reference | |
| `SeamDispatch` | profile run, warm-up, capture and serving forwards through stage op and MLP piece | |
| `SeamRunner` | boot, qualification, and the layers of a forward: registry, index, dispatcher, shared stream | |
| `WeightLifecycle` | a layer from creation to captured graphs, and the memory ledger | |
| `AutoConfig` | the settings of engine and workers | |
| `MC...` | for TLC: symmetry, deployments, models of layers | extend the module they are named after |
| `FixedSlotsProofs`, `WaveExecutorProofs`, `WavePlannerProofs`, `SeamDispatchProofs`, `SeamRunnerProofs`, `WeightLifecycleProofs`, `AutoConfigProofs` | the proofs | extend the module they are named after |

The modules cut the system where one part sees of another only a promise.
`FixedSlots` and `WaveExecutor` both implement `MoeLayer`, the first for active
sets that fit the slots, the second for those that do not; `SeamDispatch` says
which of them a forward goes to, `SeamRunner` which routing reaches it, and
`WeightLifecycle` that the bank, the table and the host rows it relies on are
there.

### SlotBank and FixedSlots

The bank belongs to one layer, so a key is an expert, and the two dictionaries
of the code are one function `resident`.  The index by expert id alone is
dropped: it always changes together with the one by key.

A plan goes through the stages of `prepare_fixed_slot_plan_into_log2phy`, and
`pc` says in which one the host is: `RequestPlan`, `Drain`, one `PlaceHit` or
`PlaceMiss` per expert (in any order; the code's order is that of `topk_ids`),
`LoadSync` or `LoadAsync`, `InstallWait`, `Publish`.  Then a forward computes:
`EagerCompute` is begin_slot_compute, the launch and end_slot_compute; `Replay`
launches without host bookkeeping; `Capture` turns leases over to the capture
stream; `SharedSuffixCompute` is the fused shared path.  `CopyDone` and
`MlpDone` are the streams.  `DrainRaises`, `HostStoreRaises`, `LoadRaises` and
`BeginRaises` are the error paths, with what they leave behind.

`content` is what is physically in a slot, as opposed to `slotKey`, what the
host believes; `result` is a history of what the last kernel found.  Events are
numbers: an event on the compute stream is the kernel it follows, one on the
H2D stream is the batch.  A captured event is modelled by the kernels launched
so far.  The eager drain is not held back by the D2H read of `topk_ids`, which
in the code blocks the host until the router has run; the model allows more.
In graph mode that read is a guard of `Drain`, since replays record no events
and only this read orders the next staging behind them.

### WaveExecutor

A wave is a number, its place in `compute_order`; which experts it has is the
planner's business.  A buffer is staged and read as a whole (slot 0 is always
assigned first and the tail is cleared), so one state per buffer is exact.
`config`, chosen at the start, is the deployment: asynchronous or not, the
prefetch depth, and whether overflows run in waves or through the full layer.
`Prefetch` and `StageOnDemand` are the two ways to stage;
`Consume` makes the compute stream wait and takes the buffer; `Launch` queues
the wave's kernel and records the release event for this forward and for the
pool.  Every exception abandons the forward (`Abandon`): the records of waves
staged ahead are local variables and are lost, their slots stay LOADING, and a
later forward is refused at `_require_reassignable`.  A batch is copied at one
moment, its last; the copies before that one have the same guards.  The output
of a forward that raised is discarded, so `WaveRaises` launches nothing.

`FallBack` is `B2WaveFallback`, which the code raises only while planning, before
anything is staged, and while combining, after all waves.  `StageFullLayer` then
fills the one bank that layers of a geometry share, with blocking copies on the
compute stream's order (`FullBank`), and one kernel computes all of the layer.

### SeamDispatch

`life` is the course of a worker (profile run, capture, serving), `forward` the
forward in hand.  `compiledPhase` is the phase argument of the stage op, which
is a constant under compilation, traced at the profile run.  `Defers` and
`TakesWaves` are the two halves of the decision, written from two different
files.  The route-stats key names the address and the shape of `topk_ids` and
not its contents, so `StatsKey` is a pool or heap address and a size.  A
replayed forward computes what `mapped`, the table, has entries for.

### WavePlanner

`Place` is one round of the greedy packing.  `PlanPairs` chooses a mode and lays
all pairs end to end, wave by wave, cut by token counts: in ascending order when
planned on the device, expert after expert when planned from the host's index.
It also computes the schedule, `issue` for the staging and `order` for the
computing, which with transfer awareness sorts by misses and size, whatever
experts are on the device already.  `ComputeWave` is the gather and the
expert-sorted order of one wave, `Combine` the permuted tensor with the unpermute
index over all waves.  The reference (`Accumulate`) computes every wave on all
tokens, with foreign pairs sent to slot 0 with weight zero.  A row of a tensor is
the pair of the token and the expert that made it.

Every `sorted(...)` of the code is the one operator `Sorted`, which puts an
element at the position that the number of elements before it says; and the
cursor `LayerPairStart` and the row base `RowsBefore`, which the code adds up
wave by wave, are cardinalities of tagged unions.  Both say what the loops
compute, and can be reasoned about without induction.

### SeamRunner

`Boot` is the plugin's registration, which may come before the Ascend device
module can be imported and is then tried again in `adapt_patch`; layers built
before the hooks are native layers.  A seam layer is resolved at the profile run
(`Finalize`) or at its first entry: `SupportBlockers`, `LaneBlockers` and
`KernelBlockers` are the reasons to refuse it.  A layer then goes through
`Enter`, `Route`, `Stage`, `Mlp`, `Select` and a kernel.  A routing is a record of
whose it is, `[layer, forward, by, suffix]`, so that a leak shows.  `injected` is
the registry; layers without an id share an entry.  `width` is `top_k` of the
dispatcher, which `SplitKernel` narrows for the routed columns of a fused layer and
`RoutedWaves`, `FallBack` and `Raise` widen again.  `queue` holds what is queued
on the main and the shared stream; `device` the events recorded and the one
buffer that each layer's shared expert uses again.

A layer whose shared expert is overlapped goes through `shared_forward_impl` in
the steps the code takes: `BeginOverlap` makes the state, `LaunchShared` queues
the first projection at any point from then on (before the kernel, in a wave,
between two grouped matmuls, or in `finish`), a kernel returns, `FinishShared`
queues the second projection, `Leave` joins the streams and returns the tuple.
`Raise` may come between any two of them, so a forward can be given up with
one or both projections queued, which then run while the next forward is already
being issued; `RaiseEarly` is an exception of the router or the stage op.

Both seam ABIs are modelled: in ABI 1 the plugin's adapter reads the registry, in
ABI 2 the wrapped routers of resolved layers.  Models whose experts are fused or
overlapped are restricted to ABI 1, which is the only one with those paths.

### WeightLifecycle

A bank is its address, a number that each allocation increases; `table` says which
layers have a `log2phy`, and `mapped` which logical ids it sends to a row of the
present bank with their weights.  `ProcessNative` and `ProcessCpuFirst` are the two
branches of `process_weights_after_loading`, `RegisterAgain` a registration after
that; each can end in four ways.  The host copy raises (the old rows are gone, the
signature, the bank and the table stay); the bank does not fit; the bank is there,
new and empty, but its lanes or the table cannot be made (`LanesRaise`); or all is
done, with the release and the full-residency staging that the caller adds.
`ProcessAgain` is the processed marker at work.  Serving is in graph-compatible mode: `ForwardThroughSlots`,
`ForwardNatively`, `CompareBoundary` (the layer run twice), `Capture`, `Replay`.
`ledger` is the cached ledger and `Ledger` what computing it again would give;
each action that the code lets invalidate the cache does, and no other.  `cut` is a
history variable: a registration has raised since the cache was last set.

### AutoConfig

`env` is the environment as far as one setting depends on another: the target,
the slots and their preliminary mark, the fan-out, the resident layers, and the
two switches with defaults.  A setting that may be absent is a set with at most
one element.  `Bootstrapped` is the first derivation (for the default model),
`Configured` the second; both use the same operators for groups, profile-guided
exchange and slot budget, down to Python's rounding of halves.  Free memory is
whatever `Readings` says at each call, since `mem_get_info` changes.  Workers get a
copy of the environment and register again before they load it.  The reserve for
KV cache, activations and the system is a number of the model served, and the
order of events in the engine is vLLM's: `create_engine_config` runs before the
workers are spawned.

## The runs

All passing runs explore their state space completely.

| run | states | instance | the question |
|---|---|---|---|
| `async` | 131 143 | 3 experts, 2 slots, 3 plans, 3 kernels | asynchronous loads, eager forwards, and faults interleaved in every way: is the cache transparent, do leases hold, are failures contained, is every plan settled? |
| `sync` | 65 642 | 3 experts, 2 slots, 4 plans, 4 kernels | the default path: synchronous loads, capture, replays, faults, fused shared suffix together |
| `waves` | 324 885 | 2 buffers, up to 3 waves, 3 forwards, depths 0 to 2, both load modes, both overflow modes, faults | do waves read their weights across forwards and layers, and does every forward end? |
| `seam` | 8 789 | 3 experts, 2 slots, 3 tokens; eager with every phase, and graphs whose sizes fit | do the two deciders agree through profile run, warm-up, capture and replay? |
| `planner` | 328 560 | 5 experts, 2 slots, 3 tokens, top-2 | all routings, all planning modes, all sets of experts already on the device |
| `runner` | 1 145 958 | 2 layers, 2 forwards; 2 ABIs, 4 sorts of layers and 14 defects | does a kernel ever compute with a routing that is not its own? |
| `lifecycle` | 1 238 364 | 2 layers, 2 experts, 1 shared, 10 deployments, 2 registrations | are weights, banks, mappings and ledger in place whenever they are used? |
| `regime_a_eager`, `shared_lease`, `seam_replay`, `lifecycle_cpu_first`, `config` | | | counterexamples, see below |

What the properties say, run by run (their full statements are the comments above
their definitions):

| run | properties |
|---|---|
| `async` | `KernelsReadTheirExperts`, `NoCopyUnderAReader`, `LeasesOutliveKernels`: a kernel's slots hold its experts, under one lease, until it is done. `PlansAreSound`: the LRU never takes a slot of the plan in hand, and what is published is READY and owned. `IndexCoherent`, `LeasesAreAccounted`: index and owners, events and generations agree. `FailuresAreContained`: a batch that raises gives everything back; only a store failure leaves something for the drain to trip over. `AbstractSpec`: it implements `MoeLayer`. `PlansSettle`: each plan asked for ends, prepared or refused. `TypeOK`. |
| `sync` | `KernelsReadTheirExperts`, `LeasesOutliveKernels` when all modes of the default load path meet. `EventsMatchLeases`: no event outlives its lease, also after a capture took slots over and after a drain that raised half way. |
| `waves` | `WavesReadTheirWeights`, `CopiesAndKernelsAreOrdered`: a wave reads its own weights, and every copy and reader of a buffer are ordered, also across layers. `BuffersAreHandedOver`, `PrefetchedWavesAreNext`: no buffer shared, none lacking, no wave skipped or staged twice. `AssignNeedsAFailure`: only after an abandoned forward are slots refused. `AbstractSpec` (`MoeLayer`), `EverythingFinishes`: no copy and kernel wait for each other. `TypeOK`. |
| `seam` | `ActiveExpertsAreComputed`: no active expert is silently left out. `HandoffsAreTaken`: what the stage op defers the executor takes, and nothing else. `RouteStatsAreFresh`: a cache hit is about the forward in hand. `TypeOK`. |
| `planner` | `WavesFitTheSlots`, `WavesAreBalanced`: the packing. `PairsArePlannedOnce`, `OutputsAreAtHome`: each routed pair is computed once, and its result, or the reference's, is found at its place. `WavesAreStagedInOrder`: the executor's prefetch cursor runs through `issue` and assumes the next wave of `order`. `TypeOK`. |
| `runner` | `KernelsUseTheirRouting`: routings do not leak through registry, index or dispatcher, and every column is computed once. `OnlyQualifiedLayersServe`: what the seam serves is what it can. `SharedOutputsAreComplete`: the shared output used is that of this layer and forward, also when the forward before it was given up with its projections queued. `TypeOK`, which here also says that the hooks are installed once. |
| `lifecycle` | `KernelsHaveWeights`: every kernel finds the experts it was routed to. `ReleasesAreSafe`: nothing is given up that is not stored. `CapturedAddressesStay`, `LedgerIsFresh`. `TypeOK`. |
| `regime_a_eager`, `shared_lease`, `seam_replay`, `lifecycle_cpu_first`, `config` | `BeginNeverRaises`, `LeasesHaveEvents`, `ActiveExpertsAreComputed`, `StaticMappingsAreFilled`, `SlotBanksFitTheBudget`, each violated. |

*Bounds.*  In `FixedSlots` an overwrite takes a kernel that reads a slot, a plan
that evicts it, and a plan that evicts the evictor; that is three plans and two
kernels, on any bank with one expert more than slots.  Two slots are enough for
a victim beside a hit of the same plan.  The bounds `MaxPlans` and `MaxMlps` are
guards on counters that only label plans and kernels.  For every larger instance
there are the proofs.  In `WaveExecutor` two buffers are the default, three waves
let a buffer be reused within a forward, and three forwards put a wave behind a
forward that failed behind one that did not.  In `SeamDispatch` three tokens give
a size below, at and above the captured ones.  In `WavePlanner` five experts give
three waves, with uneven loads, and three tokens a wave with several pairs of one
expert.  In `SeamRunner` a leak needs a layer that leaves something and one that
finds it, in the same forward or the next.  In `WeightLifecycle` a second
registration is what a captured address could be lost to; layers interact only
through pools and ledger, for which two are enough; the proofs cover every other
number.  In `AutoConfig` there are three models to serve, and one setting at a
time differs from the plain deployment.  Symmetry of experts is used in `sync`, `lifecycle`
and the two counterexamples of `FixedSlots`, where no refinement or liveness is
checked; nothing in `FixedSlots` or `WeightLifecycle` compares experts.

*Deadlock* is not checked: each model stops when its bounds are used up, and
`FixedSlots` also when the bank is wedged after a store failure, as the code
is.  That nothing waits forever is stated as liveness instead.

*Fairness.*  The host is weakly fair in the steps of a plan or a forward it has
begun, since they are straight-line code, and the device in its next copy or
kernel, since streams execute what is queued.  Whether another plan or forward
is asked for is up to the caller and is not fair, nor are exceptions.

## The proofs

Every invariant and every safety property that a passing run checks is proved
for all values of the constants; what is left to TLC is liveness.  TLC has
checked each inductive invariant on the instance of the run before it was proved.

### FixedSlots

`FixedSlotsProofs` proves, for every number of experts and slots, every bound
and every mode, with and without faults:

| theorem | says |
|---|---|
| `TypeCorrect`, `IndexIsCoherent` | types; index and owners agree |
| `PlansAreServed` | a plan that fits is always placed, and published in full |
| `EventsBelongToLeases` | in all modes, an event is of the current lease of a COMPUTING slot |
| `LeasesAndEvents`, `LeasesAreReturned` | without the fused shared path, leases and events are one to one |
| `KernelsAreServed`, `NoOverwrite`, `LeasesHold` | kernels read their experts' weights, no copy and no eviction under a reader |
| `CacheIsTransparent` | `FixedSlots` implements `MoeLayer` |
| `FailedLoadsAreContained` | without the fused shared path, only a store failure leaves a reservation behind or makes the drain fail |

The invariant is built in four layers, each inductive given those before it,
with one step per action in each.

1. `HostInv`, what the host can know: types, the coherent index, placed experts
   resident in slots of the right state, the recency order, published entries.
   `PlansAreServed` needs a count: with fewer placed experts than slots some
   slot is not the plan's, and one that was not touched in this step is older
   than all that were, so the LRU takes it.
2. `DrainInv`, time: kernels, batches and waits are numbered in the order of
   issue; while a kernel is unfinished, some COMPUTING slot has an event behind
   the last kernel, or else the bank cannot be drained (in graph mode the D2H
   read takes the part of the event); so when a plan is past its drain no kernel
   is running.
3. `WeightInv`, data: each slot physically holds its owner's weights, or a
   queued copy will bring them; each kernel waits for the copies into what it
   reads.  `KernelsReadTheirExperts` is not inductive without this, because it
   says nothing of kernels that are not at the head of the stream yet.
4. `FaultInv`, what failures leave: which states a slot can have outside of
   staging, by what has been raised.

The refinement follows from `WeightInv`: a finishing kernel maps to an `Execute`
that used the right weights, a launch to an `Issue`, all else to a stutter.

Assumed are only the constants' types: the experts are finitely many, there is a
slot, and `None` is no expert.

### WaveExecutor

`WaveExecutorProofs` proves, for every number of buffers, waves and forwards,
every prefetch depth, both load modes and both overflow modes, with all faults:

| theorem | says |
|---|---|
| `TypeCorrect` | types |
| `PrefetchTheorem` | the staged waves are those from the current one to the cursor; with prefetching none is staged on demand |
| `HandoverTheorem` | a staged wave owns its buffer, and demand staging finds a free one |
| `AssignTheorem` | a buffer refuses to be assigned only after an abandoned forward |
| `OrderTheorem` | a copy into a buffer and a kernel that reads it are ordered by stream or event |
| `WavesTheorem` | a kernel that may run finds its own waves' weights |
| `WavesAreTransparent` | `WaveExecutor` implements `MoeLayer` |

`WaveInv` has four layers again.  `TypeInv` is the wave loop: bounds, what never
happens with synchronous loads, and which waves are staged at each place of the
loop; that a free buffer exists is a count of staged waves against buffers.
`SlotInv` is the handover of buffers: without a failure, a LOADING buffer has a
staged wave.  `OrderInv` is time: kernels and batches are numbered as they are
issued, the pool remembers for each buffer a release that is not before any
kernel that reads it, a release of this forward is the pool's, and a staged wave
has the last batch of its buffer.  `WeightInv` is data: after the copies up to a
ticket, a buffer will hold (`WillHold`) the wave staged with it, also the current
one, also what each queued kernel reads.  `CopiesAndKernelsAreOrdered` alone is
not inductive, since a new kernel is ordered only by what its wave's ticket and
the pool's release are known to be behind; and `WavesReadTheirWeights` is not,
since it says nothing of kernels that cannot run yet.

Assumed are the types of the constants, `BuffersAssumption` (there is a buffer)
and `BoundsAssumption` (the numbers of waves and forwards are any naturals).

### WavePlanner

`WavePlannerProofs` proves, for all numbers of experts, slots, tokens and experts
per token, every routing with more active experts than slots, every planning mode
and every set of experts that are ready:

| theorem | says |
|---|---|
| `TypeCorrect` | types |
| `FitTheorem` | waves fit, are disjoint, and are no more than needed |
| `BalanceTheorem` | a wave outweighs one that is not full by its lightest expert at most |
| `PlannedOnceTheorem` | each pair is in the plan of its expert's wave, once |
| `StagingTheorem` | each wave is computed once, and staged in that order |
| `OutputTheorem` | each pair gets its own expert's work on its own token, once, natively combined or by the reference |

These are computations, whose obvious proofs are inductions over lists, which
this prover has none of.  All of them are counted instead.  `Rank` is the number
of elements before an element of a finite ordered set; a smaller element has a
smaller rank, so ranks are a bijection onto the positions (`RankIsABijection`),
and `Sorted` is its inverse (`SortedIsABijection`).  From this:

- `PackInv`, the packing: waves are disjoint and hold the experts placed so far,
  each of which was packed before each of the others.  If no wave has room, all
  slots of all waves are taken by different placed experts, so every active
  expert is placed (`RoomIsLeft`).  Balance is inductive because a wave gets an
  expert when it is the lightest with room, and the experts already there are no
  lighter than the new one.
- No wave is empty, or the others would have to hold every active expert, more
  than they have slots for (`NoWaveIsEmpty`).  So no wave counts as a hit, and
  the two orders of the schedule are one (`StageInv`).
- The rank of a pair among all pairs is the number of pairs in earlier waves,
  which is the cursor, and the number of those before it in its wave, which is
  less than the wave's size (`PositionInCut`).  Since cuts are disjoint, what
  lies between two cursors is a list of the pairs of the wave, each once
  (`CutsListTheWaves`, `PlannedInv`).
- The expanded rows of a wave are ranks too, so the dispatcher's permutation is
  undone by the index it returns (`PayloadRows`).  The row bases are the cursors
  (`RowsAreTheCursor`), hence a row of the concatenation is of one wave only, and
  the global unpermute finds it (`CombineIsAtHome`).

Assumed is `PlannerSizesAssumption`: sizes are naturals, there is a slot, and a
token has no more experts than there are.

### SeamDispatch

`SeamDispatchProofs` proves, with no assumption on the deployment but its types:

| theorem | says |
|---|---|
| `TypeCorrect` | types |
| `FreshnessTheorem` | a hit in the route-stats cache is about the forward in hand |

The invariant, `DispatchInv`, says of an entry in the cache (`StatsHaveAReader`)
that it is under an address of the graph pool, which no executor looks up, or of
the forward between stage op and MLP piece, whose executor will consume it.  An
entry of the first sort does outlive its forward.

Two more theorems, `ActiveExpertsTheorem` (every active expert of a forward that
is not refused is computed) and `HandoffsTheorem` (the stage op defers exactly
what the executor takes over), follow from `SeamInv`: stats in the cache are
those of the forward between stage op and MLP piece, a staged set fits and is in
the table, a deferred one is wanted by the executor.  They hold under two
assumptions on the deployment, stated as operators of `SeamDispatch`:
`ReplaysFit`, a batch of a captured size cannot activate more experts than there
are slots, and `PhasesAgree`, the executor knows the phase of a compiled
forward.  The run `seam_replay` shows the first one to be needed.

### SeamRunner

`SeamRunnerProofs` proves, for every number of layers and forwards, every kind of
layer, both ABIs, and all exceptions and fallbacks:

| theorem | says |
|---|---|
| `TypeCorrect` | types, among them the widths and that the hooks are installed once |
| `RoutingTheorem` | a kernel computes with its own layer's routing of this forward, on as many columns as the dispatcher was told, and every column is computed once |
| `QualifiedTheorem` | only qualified layers compute through the seam |
| `SharedOutputsTheorem` | the shared output that is used is complete and this layer's, also after layers that raised with projections queued |

The invariant has two parts.  `HostInv`: a layer between router and MLP is one
that the seam accepted; the registry has at most one entry, that of the layer
whose MLP runs, with the routing of this forward; the index of the forward
context names the layer whose turn it is; the width is that of the model's
layers, and narrow only while routed waves run.  `StreamInv`: forward and layer,
and within a layer the place in the course of the hooks, order all that is ever
queued (`Precedes`).  Both queues are ordered; the host is ahead of the streams;
an event that was recorded is behind everything queued; each wait is queued
before what it protects; and what a queued reader will read (the hidden states,
the first projection, the output buffer) is there or has a writer in front of it
and none between.  How much of the current layer has been queued is what the flags
`launched` and `finished` of the overlap state say; a layer that raised stops there,
and its projections only read what is never used, since whatever the next layer
uses is written behind them.  `SharedOutputsAreComplete` only looks at outputs
already used, so that all of this is needed to say that the next one will be right.

Assumed are `RunnerAssumption` (sizes are positive) and `ModelsAssumption` (the
models are of the type of models, and in each of them either all layers are
fused or none).  The latter is a property of the code: `mix_placement` is one
setting of the process (`patch_fused_moe.py:4391`), and the number of shared
experts one of the model.  It is also needed: the dispatcher, and so its `top_k`,
is shared by all layers.

### WeightLifecycle

`WeightLifecycleProofs` proves every property of the run `lifecycle` for all
layers, experts and deployments:

| theorem | says |
|---|---|
| `TypeCorrect` | types |
| `ReleasesTheorem` | weights are given up only with slots and a complete host copy |
| `CapturedAddressesTheorem` | the bank a graph recorded stays the layer's bank |
| `KernelsTheorem` | every kernel finds the experts it was routed to |
| `LedgerTheorem` | a cached ledger is the current one, unless a registration has raised since it was computed |

`CapturedAddressesStay` is not inductive: it needs that an address a graph
records was locked before, that a lock is the address of the present bank, and
that a layer without a bank has not been loaded.  With what a release leaves
behind this is `GraphInv`, a conjunction of `TypeOK`, `UnloadedHasNoBank`,
`LockIsTheBank`, `CaptureIsLocked` and `ReleasedIsStored`; the first three
theorems follow from it.  `KernelInv` adds what the mapping holds, under the
assumption `StaticIsLoadedNatively`: no deployment with a slot for every expert
loads CPU-first.  Its complement is what the run `lifecycle_cpu_first` starts
from.  `LedgerTheorem` is inductive by itself: each action leaves alone all that
the ledger sums up, or invalidates it, or sets `cut`.

### AutoConfig

`AutoConfigProofs` proves `AllProcessesAgree` (each worker runs with the slots,
the resident layers and the release setting of its engine) and `ConfiguredOnce`
(a configured environment never changes), for every model, user setting and memory
reading.  The argument is a fixed point: what `Configured` leaves is `Settled`,
every setting present and the slots no longer preliminary, and neither derivation
changes a settled environment (`ConfiguredIsIdempotent`, `BootstrapIsIdempotent`).
So a worker that registers, with less free memory than its engine saw, derives
nothing anew.

### Only model-checked

Liveness and fairness are out of the prover's reach: `PlansSettle` (`async`) and
`EverythingFinishes` (`waves`) are checked by TLC only.  The properties of the
five counterexample runs do not hold; where a weaker one does, it is proved:
`LeasesAreReturned`, `ActiveExpertsTheorem`, `KernelsTheorem`, each with the
condition that its counterexample violates.

## Where code and documentation disagree

- **`regime_a_eager`.**  With a slot for every expert (Regime A) the weights are
  staged once.  Each eager forward marks its slots COMPUTING and nothing but
  the drain of a later staging marks them READY again; so the second eager
  forward raises in `begin_slot_compute` (`runtime.py:1046`), although the
  comments say that in Regime A the staging must not be repeated.  Graph
  replays do not go through this code.
- **`shared_lease`.**  The fused shared path of the executor leases slots and
  returns before `end_slot_compute` (`patch_fused_moe.py:2446`), so the drain
  of the next plan finds a COMPUTING slot without an event, which it refuses.
  The configuration is listed as unsupported in the repository's README.
- **`seam_replay`.**  The stage op defers an overflow to the wave executor on
  any batch size.  On a captured size the MLP piece is replayed, the executor is
  not called, and the graph reads a table that was not written for this
  forward.
- **`lifecycle_cpu_first`.**  `process_weights_after_loading` returns for a
  CPU-first layer (`patch_fused_moe.py:4837`) before the one call of
  `stage_full_residency_slot_plan`.  With a slot for every expert nothing else
  fills the mapping, which the stage op takes to be static and filled, so a graph is
  captured over a table of -1.
- **`config`.**  With the target in the environment, `register()` derives the layout
  of the default model and exports the resident layers; the second derivation,
  for the model that is served, replaces only the slots
  (`autoconfig.py:794`).  For a model with larger layers the slots are then sized for
  fewer layers than the workers offload, and the banks exceed the budget that the
  repository's README promises to keep.

- *Order of spawn and configuration* (no run).  The docstring of
  `_apply_env_defaults_from_gb` (`patch_fused_moe.py:95-98`) says that
  `apply_moe_offload_defaults` runs after the workers are spawned, so that they
  would not see what it sets.  `AutoConfig` follows vLLM's order, in which the
  patched `create_engine_config` comes first, since workers are given the
  `VllmConfig`: `Spawn` needs the stage "configured".  A worker derives its settings
  anew in either order; `AllProcessesAgree` is shown for vLLM's.

## Not modelled

Left out of the modelled components:

- Contents and layout of tensors, contiguous-run batching of copies,
  profiling and logging.
- Pinned lanes of shared experts: written once at registration, never evicted.
- The CPU-only path (no NPU), where events do not exist and loads are immediate.
- An exception in the middle of a capture: the startup ends.  An exception that
  leaves a forward while serving ends the engine; the models go on with the next
  forward, which is the harder case.
- In the fixed-slot runtime, `prepare_fixed_slot_plan` (`runtime.py:1456`) and
  `prepare_ready_slot_plan` (`runtime.py:1976`): only tests call them; the serving
  paths use the `_into_log2phy` form and the wave plans.
- In `FixedSlots`, the second drain for single hits and the fallback that drains
  when allocation fails: `PlansAreSound` shows them never to be needed.
- In `WaveExecutor`, batches whose source is a slot of the main bank (D2D hits),
  which go through the H2D stream in order like the others.
- In `SeamDispatch`, resident layers, Regime A, data-parallel dummy batches
  without metadata, and dispatchers the wave executor does not support.  Compiled
  forwards are in `SeamDispatch` only; `SeamRunner` is eager.
- In `SeamRunner`, a partial installation of the hooks: the code promises nothing
  for it.
- In `WeightLifecycle`, a layer registered again while a static mapping serves:
  only a dynamic mapping is filled again by the next forward.
- In `AutoConfig`, settings that no other one depends on, the launcher's detection
  of defects, and the advisor's `suggest_config`, which has no caller there.
- In `phase_split.py`, code that nothing calls: the phased MLP, the direct
  scatter, phases bounded by capacity, the simulation of a schedule.

Components left out as a whole:

- On-demand staging (`patch_fused_moe.py:4495-4560`), a baseline without slots,
  whose one state is the device of two parameters.
- Substitutes for CANN and GDN operators and the matching of versions: numerical
  replacements, chosen at import.
- Layered strategy, placement plans, slot mapping, simulated policies: functions
  of a file, evaluated offline or once at start-up.
- Tracing, profiles, parity checks: they read the serving state and write files.
- Benchmarks, paper artefacts, tools: around the program, not the program.

## Plan

1. Done: `SlotBank`, `FixedSlots`, `WaveExecutor` with the full-layer path,
   `WavePlanner` with the reference, `SeamDispatch`, `SeamRunner`,
   `WeightLifecycle`, `AutoConfig`, and the proofs of their safety properties.
2. `WaveExecutor` takes from the planner that waves are computed in the order they
   are staged in, which `StagingTheorem` proves of `WavePlanner`: state the
   interface as an abstract specification that both name.
3. `SeamDispatch`: resident layers and Regime A; pinned shared lanes in `SlotBank`.
