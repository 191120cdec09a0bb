--------------------------- MODULE WaveExecutor ---------------------------
(***************************************************************************)
(* Multi-wave prefill (_run_b2_wave_prefill in patches/patch_fused_moe.py, *)
(* prepare_prefill_stage_plan in moe_offload/runtime.py).  A forward whose *)
(* active experts do not fit the slots is executed in waves; the weights   *)
(* of a wave are copied into one of a few stage buffers, ahead of the wave *)
(* that computes.  The buffers are a pool shared by all layers of the same *)
(* layout, so a forward of one layer reuses buffers that kernels of the    *)
(* previous layer may still be reading.                                    *)
(*                                                                         *)
(* Waves are numbered by their place in compute_order, which is also the   *)
(* order in which they are staged (see WavePlanner).  A buffer is staged   *)
(* and read as a whole, so its slots change state together.                *)
(*                                                                         *)
(* Waves that cannot be planned or combined, and deployments that ask for  *)
(* it, fall back to one bank that holds the layer whole, shared by all     *)
(* layers of the layout too (prepare_full_layer_prefill_plan).             *)
(***************************************************************************)
EXTENDS Integers, FiniteSets

CONSTANTS
    NumBuffers,     \* effective_prefill_buffer_count
    Depths,         \* the values of effective_prefill_prefetch_depth
    AsyncModes,     \* the values of config.async_load
    OverflowModes,  \* the values of _b2_overflow_mode
    MaxWaves,       \* bound: waves of a forward
    MaxForwards     \* bound: forwards, each of some layer, in a behaviour

ASSUME BuffersAssumption ==
    /\ NumBuffers \in Nat \ {0} /\ Depths \subseteq Nat /\ AsyncModes \subseteq BOOLEAN
    /\ OverflowModes \subseteq {"multi_wave", "full_layer"}
ASSUME BoundsAssumption == MaxWaves \in Nat /\ MaxForwards \in Nat

Buffers == 0 .. (NumBuffers - 1)
NoBuffer == -1

\* The bank of the full-layer fallback.
FullBank == NumBuffers
Banks == Buffers \cup {FullBank}

\* Whose weights a buffer holds: wave w of forward f, or of nobody.  The full
\* bank holds the waves of a forward all at once.
WaveIds == (1 .. MaxForwards) \X (1 .. MaxWaves)
NoWeights == <<0, 0>>
WholeLayer(f) == <<f, 0>>

VARIABLES
    config,         \* the deployment: chosen at the start, never changed
    pc,             \* where the host is in the forward
    forward,        \* the forwards begun so far
    waves,          \* the number of waves of this one
    position,       \* compute_position: the wave computed now, or next
    cursor,         \* staged_issue_cursor: the waves prefetched so far
    staged,         \* stage_records: the waves staged and not yet consumed
    current,        \* current_buffer_index
    localRelease,   \* buffer_release_events of this forward
    poolRelease,    \* _prefill_stage_pool_release_events
    bankState,      \* the state of the slots of each stage bank
    raised,         \* the exceptions raised so far, by origin
    batches,        \* batches the H2D stream has still to copy
    batchSeq,       \* the batches issued so far
    waitTicket,     \* the last batch the compute stream was told to wait for
    content,        \* the weights physically in each buffer
    kernels,        \* wave kernels the compute stream has still to finish
    kernelSeq,      \* the wave kernels launched so far
    result          \* history: what the last finished kernel read

loopVars == <<forward, waves, position, current>>
stageVars == <<cursor, staged, bankState, batches, batchSeq>>
releaseVars == <<localRelease, poolRelease>>
computeVars == <<waitTicket, kernels, kernelSeq>>
vars == <<config, pc, loopVars, stageVars, releaseVars, computeVars, raised, content, result>>

AsyncLoad == config.asyncLoad
PrefetchDepth == config.prefetchDepth

Init ==
    /\ config \in [asyncLoad : AsyncModes, prefetchDepth : Depths, overflow : OverflowModes]
    /\ pc = "idle"
    /\ forward = 0 /\ waves = 0 /\ position = 0 /\ current = NoBuffer
    /\ cursor = 0 /\ staged = {}
    /\ bankState = [b \in Banks |-> "empty"]
    /\ batches = {} /\ batchSeq = 0
    /\ localRelease = [b \in Buffers |-> 0]
    /\ poolRelease = [b \in Buffers |-> 0]
    /\ waitTicket = 0 /\ kernels = {} /\ kernelSeq = 0
    /\ raised = {}
    /\ content = [b \in Banks |-> NoWeights]
    /\ result = [w \in WaveIds |-> NoWeights]

Lesser(m, n) == IF m <= n THEN m ELSE n
Greater(m, n) == IF m >= n THEN m ELSE n

--------------------------------------------------------------------------
(***************************************************************************)
(* Staging one wave.                                                       *)
(***************************************************************************)

\* _next_free_buffer: the first one that no staged wave has and, before the
\* current wave is launched, that the current wave does not have either.
Busy == {r.buffer : r \in staged} \cup (IF pc = "prefetching" THEN {current} ELSE {})

FreeBuffer(b) ==
    /\ b \in Buffers \ Busy
    /\ \A c \in Buffers \ Busy : b <= c

\* Slip: the copy waits for the kernel that is yet to be launched.
ReleaseOfNextKernel(b) == kernelSeq + 1

\* The event the copy waits for, named by the kernel it follows (0: none): the
\* one of this forward or else the one the pool remembers.
ReleaseOf(b) == IF localRelease[b] # 0 THEN localRelease[b] ELSE poolRelease[b]

\* prepare_prefill_stage_plan.  Slots that are LOADING cannot be assigned.
Stage(w, b) ==
    /\ bankState[b] # "loading"
    /\ bankState' = [bankState EXCEPT ![b] = "loading"]
    /\ batchSeq' = batchSeq + 1
    /\ batches' = batches \cup {[ticket |-> batchSeq + 1, buffer |-> b,
                                 weights |-> <<forward, w>>, after |-> ReleaseOf(b)]}
    /\ staged' = staged \cup {[wave |-> w, buffer |-> b, ticket |-> batchSeq + 1]}

\* The waves that the executor wants staged ahead at this point: the initial
\* ones, those beside the current wave, and those after its launch.
Ahead ==
    CASE pc = "priming" -> Lesser(PrefetchDepth, Lesser(NumBuffers, waves))
      [] pc = "prefetching" -> Lesser(PrefetchDepth, NumBuffers - 1)
      [] pc = "refilling" -> Lesser(PrefetchDepth, NumBuffers)
      [] OTHER -> 0

\* _issue_next_staged_wave has a wave and a buffer for it.  (The priming loop
\* counts with the cursor, which is then the number of the staged waves.)
CanPrefetch ==
    /\ AsyncLoad
    /\ Cardinality(staged) < Ahead
    /\ cursor < waves
    /\ Busy # Buffers

\* Demand staging: the current wave was not prefetched.
Demanded ==
    /\ AsyncLoad /\ pc = "consuming"
    /\ \A r \in staged : r.wave # position
    /\ Busy # Buffers

\* Slip: a wave is skipped.
PrefetchSkips ==
    /\ CanPrefetch
    /\ \E b \in Buffers : FreeBuffer(b) /\ Stage(cursor + 1, b)
    /\ cursor' = cursor + 2
    /\ UNCHANGED <<config, pc, loopVars, releaseVars, computeVars, raised, content, result>>

\* Slip: the buffer of the current wave counts as free.
PrefetchIntoCurrent ==
    /\ CanPrefetch
    /\ \E b \in Buffers : b \notin {r.buffer : r \in staged} /\ Stage(cursor + 1, b)
    /\ cursor' = cursor + 1
    /\ UNCHANGED <<config, pc, loopVars, releaseVars, computeVars, raised, content, result>>

Prefetch ==
    /\ CanPrefetch
    /\ \E b \in Buffers : FreeBuffer(b) /\ Stage(cursor + 1, b)
    /\ cursor' = cursor + 1
    /\ UNCHANGED <<config, pc, loopVars, releaseVars, computeVars, raised, content, result>>

StageOnDemand ==
    /\ Demanded
    /\ \E b \in Buffers : FreeBuffer(b) /\ Stage(position, b)
    /\ UNCHANGED <<config, pc, loopVars, cursor, releaseVars, computeVars, raised,
                   content, result>>

--------------------------------------------------------------------------
(***************************************************************************)
(* The executor.                                                           *)
(***************************************************************************)

\* _b2_multi_wave_preflight_failure: overlap requires two buffers.
PreflightFails == AsyncLoad /\ PrefetchDepth > 0 /\ NumBuffers < 2

\* At least two waves: fewer active experts fit the slots and do not come here.
Begin(n) ==
    /\ pc = "idle" /\ forward < MaxForwards
    /\ forward' = forward + 1 /\ waves' = n /\ position' = 1 /\ current' = NoBuffer
    /\ cursor' = 0 /\ staged' = {}
    /\ localRelease' = [b \in Buffers |-> 0]
    /\ pc' = IF config.overflow = "full_layer" \/ PreflightFails THEN "full"
             ELSE IF AsyncLoad THEN "priming" ELSE "consuming"
    /\ UNCHANGED <<config, bankState, batches, batchSeq, poolRelease, computeVars,
                   raised, content, result>>

Primed ==
    /\ pc = "priming" /\ ~CanPrefetch
    /\ pc' = "consuming"
    /\ UNCHANGED <<config, loopVars, stageVars, releaseVars, computeVars, raised,
                   content, result>>

\* Slip: the compute stream is not told to wait for the batch.
ConsumeWithoutWait ==
    /\ pc = "consuming"
    /\ \E r \in staged :
          /\ r.wave = position
          /\ staged' = staged \ {r}
          /\ bankState' = [bankState EXCEPT ![r.buffer] = "ready"]
          /\ current' = r.buffer
    /\ pc' = "prefetching"
    /\ UNCHANGED <<config, forward, waves, position, cursor, batches, batchSeq,
                   releaseVars, computeVars, raised, content, result>>

\* Slip: the slots are not called READY.
ConsumeKeepsLoading ==
    /\ pc = "consuming"
    /\ \E r \in staged :
          /\ r.wave = position
          /\ staged' = staged \ {r}
          /\ waitTicket' = Greater(waitTicket, r.ticket)
          /\ current' = r.buffer
    /\ pc' = "prefetching"
    /\ UNCHANGED <<config, forward, waves, position, cursor, bankState, batches, batchSeq,
                   releaseVars, kernels, kernelSeq, raised, content, result>>

\* Slip: the buffer of the current wave is not noted.
ConsumeForgetsBuffer ==
    /\ pc = "consuming"
    /\ \E r \in staged :
          /\ r.wave = position
          /\ staged' = staged \ {r}
          /\ waitTicket' = Greater(waitTicket, r.ticket)
          /\ bankState' = [bankState EXCEPT ![r.buffer] = "ready"]
    /\ pc' = "prefetching"
    /\ UNCHANGED <<config, loopVars, cursor, batches, batchSeq,
                   releaseVars, kernels, kernelSeq, raised, content, result>>

\* The record is taken, the compute stream is made to wait for its batch, and
\* the slots are called READY.
Consume ==
    /\ pc = "consuming"
    /\ \E r \in staged :
          /\ r.wave = position
          /\ staged' = staged \ {r}
          /\ waitTicket' = Greater(waitTicket, r.ticket)
          /\ bankState' = [bankState EXCEPT ![r.buffer] = "ready"]
          /\ current' = r.buffer
    /\ pc' = "prefetching"
    /\ UNCHANGED <<config, forward, waves, position, cursor, batches, batchSeq,
                   releaseVars, kernels, kernelSeq, raised, content, result>>

\* Without async_load a wave is copied on the compute stream, and the host waits
\* for it; the buffers are taken in turn.
SyncBuffer == (position - 1) % NumBuffers

StageSync ==
    /\ ~AsyncLoad /\ pc = "consuming"
    /\ bankState[SyncBuffer] # "loading"
    /\ kernels = {}
    /\ bankState' = [bankState EXCEPT ![SyncBuffer] = "ready"]
    /\ content' = [content EXCEPT ![SyncBuffer] = <<forward, position>>]
    /\ current' = SyncBuffer
    /\ pc' = "prefetching"
    /\ UNCHANGED <<config, forward, waves, position, cursor, staged, batches, batchSeq,
                   releaseVars, computeVars, raised, result>>

Kernel(id, ids) == [id |-> id, buffer |-> current, weights |-> ids, after |-> waitTicket]
WaveKernel(id) == Kernel(id, {<<forward, position>>})

\* Slip: the release is not remembered for the other forwards.
LaunchForgetsRelease ==
    /\ pc = "prefetching" /\ ~CanPrefetch
    /\ kernelSeq' = kernelSeq + 1
    /\ kernels' = kernels \cup {WaveKernel(kernelSeq + 1)}
    /\ localRelease' = [localRelease EXCEPT ![current] = kernelSeq + 1]
    /\ pc' = "refilling"
    /\ UNCHANGED <<config, loopVars, stageVars, poolRelease, waitTicket, raised, content, result>>

\* The wave's kernel, and on the asynchronous path the release event of its
\* buffer, which follows it on the compute stream.
Launch ==
    /\ pc = "prefetching" /\ ~CanPrefetch
    /\ kernelSeq' = kernelSeq + 1
    /\ kernels' = kernels \cup {WaveKernel(kernelSeq + 1)}
    /\ IF AsyncLoad
       THEN /\ localRelease' = [localRelease EXCEPT ![current] = kernelSeq + 1]
            /\ poolRelease' = [poolRelease EXCEPT ![current] = kernelSeq + 1]
       ELSE UNCHANGED releaseVars
    /\ pc' = "refilling"
    /\ UNCHANGED <<config, loopVars, stageVars, waitTicket, raised, content, result>>

NextWave ==
    /\ pc = "refilling" /\ ~CanPrefetch
    /\ position' = position + 1
    /\ pc' = IF position = waves THEN "idle" ELSE "consuming"
    /\ UNCHANGED <<config, forward, waves, current, stageVars, releaseVars, computeVars,
                   raised, content, result>>

--------------------------------------------------------------------------
(***************************************************************************)
(* The full-layer fallback.                                                *)
(***************************************************************************)

\* B2WaveFallback is raised when the waves cannot be planned, before any of them
\* is staged, or cannot be combined, after all of them are computed.
Planning ==
    /\ position = 1 /\ cursor = 0 /\ staged = {}
    /\ pc = IF AsyncLoad THEN "priming" ELSE "consuming"
Combining == pc = "refilling" /\ ~CanPrefetch /\ position = waves

FallBack ==
    /\ Planning \/ Combining
    /\ pc' = "full"
    /\ UNCHANGED <<config, loopVars, stageVars, releaseVars, computeVars, raised,
                   content, result>>

\* Slip: the copies are not ordered after the kernels of the compute stream.
StageFullLayerAtOnce ==
    /\ pc = "full"
    /\ bankState' = [bankState EXCEPT ![FullBank] = "ready"]
    /\ content' = [content EXCEPT ![FullBank] = WholeLayer(forward)]
    /\ current' = FullBank
    /\ pc' = "computing"
    /\ UNCHANGED <<config, forward, waves, position, cursor, staged, batches, batchSeq,
                   releaseVars, computeVars, raised, result>>

\* prepare_full_layer_prefill_plan assigns the slots whatever their state, copies
\* on the compute stream and waits for the copy.
StageFullLayer ==
    /\ pc = "full"
    /\ kernels = {}
    /\ bankState' = [bankState EXCEPT ![FullBank] = "ready"]
    /\ content' = [content EXCEPT ![FullBank] = WholeLayer(forward)]
    /\ current' = FullBank
    /\ pc' = "computing"
    /\ UNCHANGED <<config, forward, waves, position, cursor, staged, batches, batchSeq,
                   releaseVars, computeVars, raised, result>>

\* _run_b2_full_layer_reference computes all waves at once; nobody records a
\* release of the bank.
LaunchFullLayer ==
    /\ pc = "computing"
    /\ kernelSeq' = kernelSeq + 1
    /\ kernels' = kernels \cup {Kernel(kernelSeq + 1, {forward} \X (1 .. waves))}
    /\ pc' = "idle"
    /\ UNCHANGED <<config, loopVars, stageVars, releaseVars, waitTicket, raised,
                   content, result>>

--------------------------------------------------------------------------
(***************************************************************************)
(* Exceptions.  Whatever raises, the forward is abandoned: the records of  *)
(* the waves that are staged ahead are lost with its local variables, and  *)
(* nobody touches the state of their slots.                                *)
(***************************************************************************)
Abandon(origin) ==
    /\ raised' = raised \cup {origin}
    /\ pc' = "idle" /\ staged' = {} /\ current' = NoBuffer
    /\ UNCHANGED <<config, forward, waves, position, cursor, releaseVars, computeVars, result>>

\* The buffer of the wave that is about to be staged.
Target(b) ==
    \/ (CanPrefetch \/ Demanded) /\ FreeBuffer(b)
    \/ ~AsyncLoad /\ pc = "consuming" /\ b = SyncBuffer

AssignRaises ==
    /\ \E b \in Buffers : Target(b) /\ bankState[b] = "loading"
    /\ UNCHANGED <<bankState, batches, batchSeq, content>>
    /\ Abandon("assign")

\* host_store.get raises after the slot was assigned.
HostStoreRaises ==
    /\ \E b \in Buffers :
          /\ Target(b) /\ bankState[b] # "loading"
          /\ bankState' = [bankState EXCEPT ![b] = "loading"]
    /\ UNCHANGED <<batches, batchSeq, content>>
    /\ Abandon("host_store")

\* The load raises, possibly after some copies were queued: the slots are given
\* back, and what the queued copies leave behind is not a wave's weights.
LoadRaises ==
    /\ AsyncLoad
    /\ \E b \in Buffers :
          /\ Target(b) /\ bankState[b] # "loading"
          /\ bankState' = [bankState EXCEPT ![b] = "empty"]
          /\ \/ UNCHANGED <<batches, batchSeq>>
             \/ /\ batchSeq' = batchSeq + 1
                /\ batches' = batches \cup
                      {[ticket |-> batchSeq + 1, buffer |-> b,
                        weights |-> NoWeights, after |-> ReleaseOf(b)]}
    /\ UNCHANGED content
    /\ Abandon("load")

SyncLoadRaises ==
    /\ ~AsyncLoad
    /\ pc = "consuming" /\ bankState[SyncBuffer] # "loading"
    /\ bankState' = [bankState EXCEPT ![SyncBuffer] = "empty"]
    /\ \/ UNCHANGED content
       \/ kernels = {} /\ content' = [content EXCEPT ![SyncBuffer] = NoWeights]
    /\ UNCHANGED <<batches, batchSeq>>
    /\ Abandon("load")

\* A copy into the full bank raises: its slots are cleared.
FullLayerRaises ==
    /\ pc = "full" /\ kernels = {}
    /\ bankState' = [bankState EXCEPT ![FullBank] = "empty"]
    /\ content' = [content EXCEPT ![FullBank] = NoWeights]
    /\ UNCHANGED <<batches, batchSeq>>
    /\ Abandon("full_layer")

\* The current wave's computation raises before its kernel is queued.
WaveRaises ==
    /\ pc = "prefetching" /\ ~CanPrefetch
    /\ UNCHANGED <<bankState, batches, batchSeq, content>>
    /\ Abandon("wave")

--------------------------------------------------------------------------
(***************************************************************************)
(* The device.                                                             *)
(***************************************************************************)

\* A batch is copied when the H2D stream reaches it and the kernel whose
\* release event it waits for is finished.
Copyable(c) ==
    /\ \A d \in batches : c.ticket <= d.ticket
    /\ \A k \in kernels : k.id > c.after

BatchDone(c) ==
    /\ c \in batches
    /\ Copyable(c)
    /\ batches' = batches \ {c}
    /\ content' = [content EXCEPT ![c.buffer] = c.weights]
    /\ UNCHANGED <<config, pc, loopVars, cursor, staged, bankState, batchSeq,
                   releaseVars, computeVars, raised, result>>

Runnable(k) ==
    /\ \A l \in kernels : k.id <= l.id
    /\ \A c \in batches : c.ticket > k.after

\* The weights that a kernel computing from bank b finds there for wave w.
Held(b, w) == IF content[b] = WholeLayer(w[1]) THEN w ELSE content[b]

KernelDone(k) ==
    /\ k \in kernels
    /\ Runnable(k)
    /\ kernels' = kernels \ {k}
    /\ result' = [w \in WaveIds |-> IF w \in k.weights THEN Held(k.buffer, w) ELSE NoWeights]
    /\ UNCHANGED <<config, pc, loopVars, stageVars, releaseVars, waitTicket, kernelSeq,
                   raised, content>>

--------------------------------------------------------------------------
Host ==
    \/ Prefetch
    \/ StageOnDemand
    \/ Primed
    \/ Consume
    \/ StageSync
    \/ Launch
    \/ NextWave
    \/ StageFullLayer
    \/ LaunchFullLayer
    \/ AssignRaises

HostFault ==
    \/ HostStoreRaises
    \/ LoadRaises
    \/ SyncLoadRaises
    \/ WaveRaises
    \/ FallBack
    \/ FullLayerRaises

Device ==
    \/ \E c \in batches : BatchDone(c)
    \/ \E k \in kernels : KernelDone(k)

Next ==
    \/ \E n \in 2 .. MaxWaves : Begin(n)
    \/ Host
    \/ HostFault
    \/ Device

Spec == Init /\ [][Next]_vars

\* The host runs on and the streams make progress; whether a layer sees another
\* oversized prompt is up to the caller.
FairSpec == Spec /\ WF_vars(Host) /\ WF_vars(Device)

--------------------------------------------------------------------------
BatchRecord == [ticket : Nat, buffer : Buffers, weights : Nat \X Nat, after : Nat]
KernelRecord == [id : Nat, buffer : Banks, weights : SUBSET WaveIds, after : Nat]
StageRecord == [wave : Nat, buffer : Buffers, ticket : Nat]

\* The wave loop, the pool of stage buffers and both streams stay in their
\* domains.
TypeOK ==
    /\ config \in [asyncLoad : AsyncModes, prefetchDepth : Depths, overflow : OverflowModes]
    /\ pc \in {"idle", "priming", "consuming", "prefetching", "refilling", "full", "computing"}
    /\ forward \in Nat /\ waves \in Nat /\ position \in Nat /\ cursor \in Nat
    /\ current \in Banks \cup {NoBuffer}
    /\ pc \in {"prefetching", "refilling"} => current \in Buffers
    /\ staged \in SUBSET StageRecord
    /\ bankState \in [Banks -> {"empty", "loading", "ready"}]
    /\ localRelease \in [Buffers -> Nat] /\ poolRelease \in [Buffers -> Nat]
    /\ raised \in SUBSET {"assign", "host_store", "load", "wave", "full_layer"}
    /\ batches \in SUBSET BatchRecord /\ batchSeq \in Nat
    /\ kernels \in SUBSET KernelRecord /\ kernelSeq \in Nat
    /\ waitTicket \in Nat
    /\ content \in [Banks -> Nat \X Nat]
    /\ result \in [WaveIds -> Nat \X Nat]

(***************************************************************************)
(* A wave kernel that may be running finds its own wave's weights in its   *)
(* buffer, whatever the H2D stream and the other forwards are doing; the   *)
(* kernel of a full layer finds the weights of all its waves.              *)
(***************************************************************************)
WavesReadTheirWeights ==
    \A k \in kernels : Runnable(k) => \A w \in k.weights : Held(k.buffer, w) = w

(***************************************************************************)
(* Between a copy into a buffer and a kernel that reads the buffer there   *)
(* is always an order: the kernel waits for the copy, or the copy for the  *)
(* kernel, also across layers.                                             *)
(***************************************************************************)
CopiesAndKernelsAreOrdered ==
    \A k \in kernels : \A c \in batches :
        c.buffer = k.buffer => c.ticket <= k.after \/ k.id <= c.after

(***************************************************************************)
(* A staged wave owns its buffer: no other staged wave has it, the current *)
(* wave does not compute from it, and its slots are LOADING, as the ready  *)
(* event demands when the wave is consumed.                                *)
(***************************************************************************)
StagedWavesOwnTheirBuffers ==
    \A r \in staged :
        /\ \A q \in staged : q.buffer = r.buffer => q = r
        /\ pc = "prefetching" => r.buffer # current
        /\ bankState[r.buffer] = "loading"

(***************************************************************************)
(* The prefetched waves are exactly the next ones: none is skipped, none   *)
(* is staged twice, and with prefetching the current wave is always among  *)
(* them, so that demand staging, which does not advance the cursor, is     *)
(* only for a prefetch depth of 0.                                         *)
(***************************************************************************)
PrefetchedWavesAreNext ==
    /\ AsyncLoad /\ PrefetchDepth > 0 /\ pc \notin {"idle", "full", "computing"} =>
          {r.wave : r \in staged} =
              (IF pc \in {"priming", "consuming"} THEN position ELSE position + 1) .. cursor
    /\ PrefetchDepth > 0 => ~Demanded

(***************************************************************************)
(* A wave that has to be staged on demand finds a free buffer: the         *)
(* RuntimeError "all stage buffers are busy" is never raised.              *)
(***************************************************************************)
AStageBufferIsFree ==
    AsyncLoad /\ pc = "consuming" /\ (\A r \in staged : r.wave # position) =>
        Busy # Buffers

(***************************************************************************)
(* A stage buffer belongs to one wave at a time and is there when one is   *)
(* needed.                                                                 *)
(***************************************************************************)
BuffersAreHandedOver == StagedWavesOwnTheirBuffers /\ AStageBufferIsFree

(***************************************************************************)
(* The stage banks are reassignable whenever a wave is staged, across      *)
(* waves, forwards and layers, unless an earlier forward was abandoned.    *)
(***************************************************************************)
AssignNeedsAFailure ==
    "assign" \in raised => raised \cap {"host_store", "load", "wave"} # {}

(***************************************************************************)
(* Every oversized forward comes to an end: the host never waits for a     *)
(* buffer or an event that does not come.                                  *)
(***************************************************************************)
ForwardsFinish == pc # "idle" ~> pc = "idle"
\* Both streams run dry again and again: what is queued is executed, since no
\* copy waits for a kernel that waits for it.
StreamsDrain == []<>(batches = {} /\ kernels = {})

(***************************************************************************)
(* Nothing hangs: neither the host, in the wave loop, nor the two streams, *)
(* in waiting for each other's events.                                     *)
(***************************************************************************)
EverythingFinishes == ForwardsFinish /\ StreamsDrain

(***************************************************************************)
(* Refinement: the stage buffers do not show; the waves are executed as if *)
(* each had its weights in memory of its own.                              *)
(***************************************************************************)
WaveQueue == {[id |-> k.id, experts |-> k.weights] : k \in kernels}

Abstract == INSTANCE MoeLayer WITH Experts <- WaveIds, None <- NoWeights,
                                   issued <- kernelSeq, queue <- WaveQueue,
                                   used <- result

\* Waves are transparent: each issued kernel is executed in order and uses the
\* weights of its own wave, as if all of them were resident (MoeLayer).
AbstractSpec == Abstract!Spec
===========================================================================
