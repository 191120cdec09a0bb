--------------------------- MODULE SeamDispatch ---------------------------
(***************************************************************************)
(* Who computes a forward of an offloaded layer.  A forward passes three   *)
(* pieces: the router writes topk_ids, the stage op (moe_offload_stage_op) *)
(* looks at them on the host, and the MLP piece computes.  Stage op and    *)
(* MLP piece decide independently of each other:                           *)
(*   - the stage op stages the active experts into the slots, or defers an *)
(*     active set that is too large to the waves of the MLP piece;         *)
(*   - the MLP piece runs waves (_maybe_run_b2_wave_prefill) or computes   *)
(*     from the slots; a replayed graph always computes from the slots.    *)
(*                                                                         *)
(* One layer in Regime B (fewer slots than experts), with fixed slots.     *)
(* What the slots hold is the subject of FixedSlots, how waves compute of  *)
(* WaveExecutor; here both are taken to be right, and full-layer execution *)
(* counts as waves.                                                        *)
(***************************************************************************)
EXTENDS Integers, FiniteSets

CONSTANTS
    Experts,        \* the routed experts of the layer
    NumSlots,       \* config.num_slots
    MaxTokens,      \* bound: tokens of a forward
    Deployments,    \* the models and graph settings to choose from
    WavesEnabled,   \* config.b2_wave_prefill
    CacheStats,     \* VLLM_ASCEND_MOE_OFFLOAD_ROUTE_STATS_CACHE
    SizeHint        \* config.max_num_seqs_hint

ASSUME SeamSizesAssumption ==
    /\ NumSlots \in Nat /\ MaxTokens \in Nat
    /\ WavesEnabled \in BOOLEAN /\ CacheStats \in BOOLEAN
    /\ SizeHint \in Nat
ASSUME RegimeBAssumption ==
    IsFiniteSet(Experts) /\ NumSlots < Cardinality(Experts)

Phases == {"prefill", "decode", "mixed", "unknown"}

ASSUME DeploymentsAssumption ==
    \A d \in Deployments :
        /\ d.topK \in Nat \ {0}
        /\ d.captureSizes \subseteq 1 .. MaxTokens
        /\ IsFiniteSet(d.captureSizes)
        /\ d.servingPhases \subseteq Phases

\* What _infer_forward_is_prefill_from_tokens makes of a forward without metadata.
InferredPhases == Phases \ {"mixed"}
Kinds == {"profile", "warmup", "capture", "serving"}

VARIABLES
    deployment,     \* chosen at the start, never changed
    pc,             \* the next piece of the forward
    life,           \* profile run, then graph capture, then serving
    forward,        \* the forward: its kind, topk_ids and phase
    compiledPhase,  \* the phase argument baked into the compiled graph
    decision,       \* what the stage op did with the forward
    mapped,         \* experts with a slot and an entry in log2phy
    routeStats,     \* _prefill_route_stats_by_layer
    graphs,         \* the captured sizes
    computed        \* history: experts the last forward computed correctly

vars == <<deployment, pc, life, forward, compiledPhase, decision, mapped, routeStats,
          graphs, computed>>

TopK == deployment.topK                     \* experts per token
CaptureSizes == deployment.captureSizes     \* cudagraph_capture_sizes
ServingPhases == deployment.servingPhases   \* what serving forwards show

NoStats == [key |-> <<"none", 0>>, experts |-> {}]
NoForward == [kind |-> "profile", tokens |-> 0, active |-> {}, phase |-> "unknown"]

Init ==
    /\ deployment \in Deployments
    /\ pc = "router" /\ life = "profile"
    /\ forward = NoForward
    /\ compiledPhase = "unknown"
    /\ decision = "none"
    /\ mapped = {}
    /\ routeStats = NoStats
    /\ graphs = {}
    /\ computed = {}

GraphMode == CaptureSizes # {}
Active == forward.active
Overflow(experts) == Cardinality(experts) > NumSlots

\* is_moe_offload_profile_run_active, is_moe_offload_graph_warmup_active
Adaptive == forward.kind \in {"profile", "warmup", "capture"}

\* A forward on a captured size is replayed, once the startup is over.
Replayed == forward.kind = "serving" /\ forward.tokens \in graphs

PhaseIsUnknown(phase) == phase = "unknown"

\* The phase the stage op is called with: under torch.compile the Python
\* value seen while tracing, a constant of the compiled graph.
StagePhase == IF GraphMode THEN compiledPhase ELSE forward.phase

--------------------------------------------------------------------------
(***************************************************************************)
(* The router.  Metadata gives the phase of a serving forward; without it  *)
(* the phase may be inferred from the number of tokens, or be unknown.     *)
(***************************************************************************)
ActiveSets(tokens) ==
    {A \in SUBSET Experts : Cardinality(A) \in TopK .. (tokens * TopK)}

\* vLLM pads a serving forward to the next captured size.
Sizes(kind) ==
    CASE kind = "profile" -> 1 .. MaxTokens
      [] kind \in {"warmup", "capture"} -> CaptureSizes \ graphs
      [] kind = "serving" ->
           graphs \cup {n \in 1 .. MaxTokens : \A s \in graphs : s < n}

Route(kind, phases) ==
    \E tokens \in Sizes(kind), phase \in phases :
      \E active \in ActiveSets(tokens) :
        /\ forward' = [kind |-> kind, tokens |-> tokens, active |-> active,
                       phase |-> phase]
        /\ pc' = "stage"
        /\ decision' = "none"
        /\ computed' = {}

\* The profile run is the first forward, and the one that is compiled.
ProfileForward ==
    /\ pc = "router" /\ life = "profile"
    /\ Route("profile", InferredPhases)
    /\ compiledPhase' = forward'.phase
    /\ life' = "capture"
    /\ UNCHANGED <<deployment, mapped, routeStats, graphs>>

WarmupForward ==
    /\ pc = "router" /\ life = "capture"
    /\ Route("warmup", InferredPhases)
    /\ UNCHANGED <<deployment, life, compiledPhase, mapped, routeStats, graphs>>

CaptureForward ==
    /\ pc = "router" /\ life = "capture"
    /\ Route("capture", InferredPhases)
    /\ UNCHANGED <<deployment, life, compiledPhase, mapped, routeStats, graphs>>

StartServing ==
    /\ pc = "router" /\ life = "capture" /\ graphs = CaptureSizes
    /\ life' = "serving"
    /\ UNCHANGED <<deployment, pc, forward, compiledPhase, decision, mapped, routeStats,
                   graphs, computed>>

ServingForward ==
    /\ pc = "router" /\ life = "serving"
    /\ Route("serving", ServingPhases)
    /\ UNCHANGED <<deployment, life, compiledPhase, mapped, routeStats, graphs>>

--------------------------------------------------------------------------
(***************************************************************************)
(* The stage op.                                                           *)
(***************************************************************************)

\* The key of the route stats names the topk_ids tensor, not its contents: a
\* tensor of the graph pool has one address per size, others share the heap.
StatsKey == <<IF Replayed THEN "pool" ELSE "heap", forward.tokens>>

Stats == [key |-> StatsKey, experts |-> Active]

\* max_num_seqs_hint: more tokens than that are no decode batch.
BeyondHint == SizeHint > 0 /\ forward.tokens > SizeHint

\* The stage op's half of the decision.
Defers ==
    /\ Overflow(Active)
    /\ \/ Adaptive
       \/ WavesEnabled /\ (PhaseIsUnknown(StagePhase) => BeyondHint)

StageIsCaptured ==
    /\ pc = "stage" /\ forward.kind = "capture"
    /\ pc' = "mlp" /\ decision' = "captured"
    /\ UNCHANGED <<deployment, life, forward, compiledPhase, mapped, routeStats, graphs, computed>>

StageDefers ==
    /\ pc = "stage" /\ forward.kind # "capture" /\ Defers
    /\ routeStats' = IF CacheStats \/ Adaptive THEN Stats ELSE routeStats
    /\ pc' = "mlp" /\ decision' = "deferred"
    /\ UNCHANGED <<deployment, life, forward, compiledPhase, mapped, graphs, computed>>

\* Slip: an active set that is too large is staged as far as it fits.
StageSlotsInPart ==
    /\ pc = "stage" /\ forward.kind # "capture" /\ ~Defers
    /\ \E kept \in SUBSET (mapped \cup Active) :
          /\ ~Overflow(kept)
          /\ mapped' = kept
    /\ pc' = "mlp" /\ decision' = "staged"
    /\ UNCHANGED <<deployment, life, forward, compiledPhase, routeStats, graphs, computed>>

\* stage_fixed_slot_plan: the active experts get slots, others may lose theirs.
StageSlots ==
    /\ pc = "stage" /\ forward.kind # "capture" /\ ~Defers
    /\ \E kept \in SUBSET mapped :
          /\ ~Overflow(kept \cup Active)
          /\ mapped' = kept \cup Active
    /\ pc' = "mlp" /\ decision' = "staged"
    /\ UNCHANGED <<deployment, life, forward, compiledPhase, routeStats, graphs, computed>>

\* Without waves, or when the phase is unknown, an overflow is refused.
StageRaises ==
    /\ pc = "stage" /\ forward.kind # "capture" /\ ~Defers
    /\ Overflow(Active)
    /\ pc' = "refused"
    /\ UNCHANGED <<deployment, life, forward, compiledPhase, decision, mapped, routeStats,
                   graphs, computed>>

--------------------------------------------------------------------------
(***************************************************************************)
(* The MLP piece.                                                          *)
(***************************************************************************)

\* Whether _maybe_run_b2_wave_prefill consults (and removes) the route stats.
Consults == (WavesEnabled \/ Adaptive) /\ (Adaptive \/ CacheStats)

StatsHit == Consults /\ routeStats # NoStats /\ routeStats.key = StatsKey

\* The experts the executor believes to be active.
Planned == IF StatsHit THEN routeStats.experts ELSE Active

\* Slip: only a known phase takes waves, whatever the stage op deferred.
TakesWavesByPhase ==
    /\ WavesEnabled /\ ~PhaseIsUnknown(forward.phase)
    /\ Overflow(Planned)

\* The executor's half of the decision.
TakesWaves ==
    /\ WavesEnabled \/ Adaptive
    /\ PhaseIsUnknown(forward.phase) => StatsHit \/ BeyondHint \/ Adaptive
    /\ Overflow(Planned)

\* Slip: the stats stay in the cache.
KeepStats == routeStats' = routeStats

ConsumeStats == routeStats' = IF Consults THEN NoStats ELSE routeStats

MlpWaves ==
    /\ pc = "mlp" /\ forward.kind # "capture" /\ ~Replayed
    /\ TakesWaves
    /\ computed' = Active \cap Planned
    /\ ConsumeStats
    /\ pc' = "router"
    /\ UNCHANGED <<deployment, life, forward, compiledPhase, decision, mapped, graphs>>

MlpSlots ==
    /\ pc = "mlp" /\ forward.kind # "capture" /\ ~Replayed
    /\ ~TakesWaves
    /\ computed' = Active \cap mapped
    /\ ConsumeStats
    /\ pc' = "router"
    /\ UNCHANGED <<deployment, life, forward, compiledPhase, decision, mapped, graphs>>

\* Slip: the size is stored off by one.
MlpCaptureNextSize ==
    /\ pc = "mlp" /\ forward.kind = "capture"
    /\ graphs' = graphs \cup {forward.tokens + 1}
    /\ pc' = "router"
    /\ UNCHANGED <<deployment, life, forward, compiledPhase, decision, mapped, routeStats, computed>>

MlpCapture ==
    /\ pc = "mlp" /\ forward.kind = "capture"
    /\ graphs' = graphs \cup {forward.tokens}
    /\ pc' = "router"
    /\ UNCHANGED <<deployment, life, forward, compiledPhase, decision, mapped, routeStats, computed>>

\* The replayed graph reads topk_ids, log2phy and the slots, and decides nothing.
MlpReplay ==
    /\ pc = "mlp" /\ Replayed
    /\ computed' = Active \cap mapped
    /\ pc' = "router"
    /\ UNCHANGED <<deployment, life, forward, compiledPhase, decision, mapped, routeStats, graphs>>

--------------------------------------------------------------------------
Next ==
    \/ ProfileForward
    \/ WarmupForward
    \/ CaptureForward
    \/ StartServing
    \/ ServingForward
    \/ StageIsCaptured
    \/ StageDefers
    \/ StageSlots
    \/ StageRaises
    \/ MlpWaves
    \/ MlpSlots
    \/ MlpCapture
    \/ MlpReplay

Spec == Init /\ [][Next]_vars

--------------------------------------------------------------------------
Forwards == [kind : Kinds, tokens : Nat, active : SUBSET Experts, phase : Phases]

RouteStatsRecords == [key : {"none", "pool", "heap"} \X Nat, experts : SUBSET Experts]

\* The worker's life, the forward in hand and the cached route stats stay in
\* their domains.
TypeOK ==
    /\ deployment \in Deployments
    /\ pc \in {"router", "stage", "mlp", "refused"}
    /\ life \in {"profile", "capture", "serving"}
    /\ forward \in Forwards
    /\ compiledPhase \in Phases
    /\ decision \in {"none", "captured", "deferred", "staged"}
    /\ mapped \in SUBSET Experts
    /\ routeStats \in RouteStatsRecords
    /\ graphs \in SUBSET CaptureSizes
    /\ computed \in SUBSET Experts

(***************************************************************************)
(* Every forward that is not refused computes all of its active experts    *)
(* with their own weights, whichever piece was responsible.                *)
(***************************************************************************)
ActiveExpertsAreComputed ==
    (pc = "router" /\ decision \in {"deferred", "staged"}) => computed = Active

(***************************************************************************)
(* Stage op and executor agree: a deferred forward is taken over by waves, *)
(* and a staged one is not executed a second time from other weights.      *)
(***************************************************************************)
HandoffsAreTaken ==
    (pc = "mlp" /\ forward.kind # "capture" /\ ~Replayed) =>
        (decision = "deferred" <=> TakesWaves)

(***************************************************************************)
(* A hit in the route-stats cache is about this forward, although the key  *)
(* names only the address and the shape of topk_ids and addresses are      *)
(* reused.                                                                 *)
(***************************************************************************)
RouteStatsAreFresh ==
    (pc = "mlp" /\ forward.kind # "capture" /\ ~Replayed /\ StatsHit) =>
        routeStats.experts = Active

(***************************************************************************)
(* The deployments the properties above are proved for: a batch of a       *)
(* captured size always fits the slots, and with compiled graphs the       *)
(* executor knows the phase of every serving forward, as the stage op      *)
(* believes to.  Neither is checked by the code.                           *)
(***************************************************************************)
ReplaysFit ==
    \A d \in Deployments : \A size \in d.captureSizes : size * d.topK <= NumSlots

PhasesAgree ==
    \A d \in Deployments : d.captureSizes = {} \/ "unknown" \notin d.servingPhases
===========================================================================
