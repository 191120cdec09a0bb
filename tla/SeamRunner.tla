---------------------------- MODULE SeamRunner ----------------------------
(***************************************************************************)
(* The MoE layers of a model in one forward after another: how the plugin  *)
(* gets between the layers and their kernels, and which routing each       *)
(* kernel then computes with (patch_fused_moe.py, capabilities.py,         *)
(* moe_router_op.py, moe_mlp_op.py, moe_seam_inject.py).                   *)
(*                                                                         *)
(*   boot      the hooks are installed once the Ascend device module can   *)
(*             be imported; layers built before are native layers;         *)
(*   profile   every seam layer is qualified, or refused;                  *)
(*   forward   layer after layer: entry, router, stage, MLP.  The routing  *)
(*             crosses from the router to the MLP in a registry keyed by   *)
(*             layer id, and the layer is found by an index that the       *)
(*             forward context counts up.                                  *)
(*                                                                         *)
(* Forwards are eager.  What the stage op decides is SeamDispatch's        *)
(* subject; a kernel of the plugin is one that computed in slots, waves or *)
(* a full layer.                                                           *)
(***************************************************************************)
EXTENDS Integers, Sequences, FiniteSets

CONSTANTS
    NumLayers,      \* MoE layers of the model
    Models,         \* the models to serve
    RoutedTopK,     \* routed experts per token
    SharedCount,    \* fused shared experts
    MaxForwards     \* bound: forwards

Layers == 1 .. NumLayers

\* What the constructor of a layer can leave behind.  topK, experts: a positive
\* number; overlapGate, sharedGate: multistream_overlap_gate and
\* shared_multistream_overlap_gate.
LayerKinds ==
    [hasId : BOOLEAN, external : BOOLEAN, mix : BOOLEAN, gate : BOOLEAN,
     custom : {"none", "named", "callable"}, topK : BOOLEAN, experts : BOOLEAN,
     scoring : BOOLEAN, quantized : BOOLEAN, overlapGate : BOOLEAN,
     sharedGate : BOOLEAN, overlapShared : BOOLEAN, staticKernel : BOOLEAN,
     zeroExperts : BOOLEAN, resident : BOOLEAN, lanes : {"none", "other", "matching"}]

ASSUME RunnerAssumption ==
    {NumLayers, RoutedTopK, SharedCount, MaxForwards} \subseteq Nat \ {0}

\* mix_placement is a setting of the model: all of its layers are fused, or none.
ASSUME ModelsAssumption ==
    \A m \in Models :
        /\ m \in [abi : {1, 2}, sentinel : BOOLEAN, kinds : [Layers -> LayerKinds],
                  parallel : {"single_npu", "tp4", "multi_npu"}]
        /\ \A k, l \in Layers : m.kinds[k].mix = m.kinds[l].mix

VARIABLES
    model,      \* seam ABI, layer-name mode, parallel sizes, kinds of the layers
    boot,       \* device_op importable, adapt_patch wrapped, hooks installed
    built,      \* how many layers have been constructed
    entry,      \* _select_forward of each layer: none, native, seam
    active,     \* _seam_active: unresolved, on, off
    wrapped,    \* layers whose router looks into the registry (seam ABI 2)
    width,      \* token_dispatcher.top_k
    saved,      \* original_dispatch_top_k, while the dispatcher is narrowed
    forward,    \* number, phase, profile run?, current layer, moe_layer_index
    pc,         \* the next piece of the layer
    injected,   \* _INJECTED: layer id -> routing
    topk,       \* what the router op returned
    staged,     \* what the stage op was given
    kernels,    \* kernels of the current layer
    overlap,    \* _EXTERNAL_SHARED_OVERLAP_STATE
    queue,      \* what is queued on the main and on the shared stream
    device      \* events recorded and the shared expert's buffers

vars == <<model, boot, built, entry, active, wrapped, width, saved, forward, pc,
          injected, topk, staged, kernels, overlap, queue, device>>

bootVars == <<model, boot, built, entry>>
seamVars == <<active, wrapped>>
widthVars == <<width, saved>>
streamVars == <<overlap, queue, device>>
routeVars == <<injected, topk, staged>>

Kind(l) == model.kinds[l]
Current == forward.layer

\* The id a registry sees; layers without one share -1.
Id(l) == IF Kind(l).hasId THEN l ELSE -1

NoTopk == [layer |-> 0, forward |-> 0, by |-> "none", suffix |-> FALSE]
NoOverlap == [layer |-> 0, launched |-> FALSE, finished |-> FALSE]
NoValue == <<0, 0>>

Init ==
    /\ model \in Models
    /\ boot = [ready |-> FALSE, retry |-> FALSE, hooks |-> 0]
    /\ built = 0
    /\ entry = [l \in Layers |-> "none"]
    /\ active = [l \in Layers |-> "unresolved"]
    /\ wrapped = {}
    /\ width = RoutedTopK /\ saved = 0
    /\ forward = [n |-> 0, phase |-> "unknown", profile |-> FALSE, layer |-> 1,
                  index |-> 0]
    /\ pc = "boot"
    /\ injected = [i \in Layers \cup {-1} |-> NoTopk]
    /\ topk = NoTopk /\ staged = NoTopk
    /\ kernels = {}
    /\ overlap = NoOverlap
    /\ queue = [main |-> <<>>, shared |-> <<>>]
    /\ device = [events |-> {}, hidden |-> NoValue, part1 |-> NoValue,
                 output |-> NoValue, used |-> {}]

--------------------------------------------------------------------------
(***************************************************************************)
(* What a layer is, and whether the seam can serve it.                     *)
(***************************************************************************)
\* describe_layer_capability.  A resident shared expert beside the routed ones
\* goes before one fused into them.
SharedMode(k) ==
    IF k.external THEN "external_resident"
    ELSE IF k.mix THEN "fused_mix_placement" ELSE "none"

RouterOwner(k) ==
    CASE k.custom = "named" -> "registered_custom"
      [] k.custom = "callable" -> "unknown"
      [] k.custom = "none" -> IF k.gate THEN "internal_gate" ELSE "external_logits"

RouterAdapter(k) == IF k.custom = "none" THEN "builtin" ELSE k.custom

OverlapMode(k) ==
    IF k.overlapGate THEN "shared_gate_multistream"
    ELSE IF k.overlapShared THEN "shared_expert_multistream" ELSE "none"

\* evaluate_support: what is unknown is not supported.
SupportBlockers(k) ==
    {b \in {"router_owner", "router_adapter", "top_k", "expert_count", "scoring",
            "weight_mode", "parallel_mode", "overlap_mode"} :
        CASE b = "router_owner" -> RouterOwner(k) \notin {"external_logits", "internal_gate"}
          [] b = "router_adapter" -> RouterAdapter(k) # "builtin"
          [] b = "top_k" -> ~k.topK
          [] b = "expert_count" -> ~k.experts
          [] b = "scoring" -> ~k.scoring
          [] b = "weight_mode" -> k.quantized
          [] b = "parallel_mode" -> model.parallel \notin {"single_npu", "tp4"}
          [] b = "overlap_mode" ->
               \/ OverlapMode(k) = "shared_gate_multistream"
               \/ /\ OverlapMode(k) = "shared_expert_multistream"
                  /\ SharedMode(k) # "external_resident"}

\* The fused shared experts have their lanes, for these counts and ids.
\* Slip: any registered lanes will do.
LaneBlockersForAny(k) ==
    IF SharedMode(k) = "fused_mix_placement" /\ k.lanes = "none"
    THEN {"fused_shared_lane"} ELSE {}

LaneBlockers(k) ==
    IF SharedMode(k) = "fused_mix_placement" /\ k.lanes # "matching"
    THEN {"fused_shared_lane"} ELSE {}

KernelBlockers(k) ==
    {b \in {"static_expert_kernel", "zero_expert_path"} :
        IF b = "static_expert_kernel" THEN k.staticKernel ELSE k.zeroExperts}

\* _resolve_seam_per_layer_guards
Resolves(l) ==
    LET k == Kind(l) IN
    k.hasId /\ SupportBlockers(k) \cup LaneBlockers(k) \cup KernelBlockers(k) = {}

--------------------------------------------------------------------------
(***************************************************************************)
(* Boot.  The hooks carry markers: installing them again changes nothing.  *)
(***************************************************************************)
\* Slip: a hook is put around the hook that is already there.
InstallAround(hooks) == hooks + 1

Install(hooks) == IF hooks = 0 THEN 1 ELSE hooks

\* register(): adapt_patch is wrapped, and the hooks are installed unless the
\* device module is in the middle of its import.
Register ==
    /\ pc = "boot"
    /\ boot' = [boot EXCEPT !.retry = TRUE,
                            !.hooks = IF boot.ready THEN Install(@) ELSE @]
    /\ UNCHANGED <<model, built, entry, seamVars, widthVars, forward, pc, routeVars,
                   kernels, streamVars>>

DeviceModuleLoads ==
    /\ pc = "boot" /\ ~boot.ready
    /\ boot' = [boot EXCEPT !.ready = TRUE]
    /\ UNCHANGED <<model, built, entry, seamVars, widthVars, forward, pc, routeVars,
                   kernels, streamVars>>

\* The worker's adapt_patch: the retry.  What the installation raises is dropped.
AdaptPatch ==
    /\ pc = "boot" /\ boot.ready
    /\ \/ boot' = [boot EXCEPT !.hooks = IF boot.retry THEN Install(@) ELSE @]
       \/ UNCHANGED boot
    /\ pc' = "build"
    /\ UNCHANGED <<model, built, entry, seamVars, widthVars, forward, routeVars,
                   kernels, streamVars>>

GlobalGuardsPass == model.parallel \in {"single_npu", "tp4"}

\* The dispatcher of a fused layer is set up for the shared columns too.
DispatchWidth(k) ==
    RoutedTopK + IF k.mix THEN boot.hooks * SharedCount ELSE 0

\* A layer is constructed and selects its forward; unsupported parallel sizes
\* are refused here.
Build ==
    /\ pc = "build" /\ built < NumLayers
    /\ built' = built + 1
    /\ width' = DispatchWidth(Kind(built'))
    /\ IF boot.hooks > 0 /\ ~GlobalGuardsPass
       THEN pc' = "refused" /\ UNCHANGED entry
       ELSE /\ pc' = IF built' = NumLayers THEN "idle" ELSE "build"
            /\ entry' = [entry EXCEPT ![built'] =
                            IF boot.hooks > 0 THEN "seam" ELSE "native"]
    /\ UNCHANGED <<model, boot, seamVars, saved, forward, routeVars, kernels, streamVars>>

--------------------------------------------------------------------------
(***************************************************************************)
(* Forwards.                                                               *)
(***************************************************************************)
\* _infer_forward_phase_int: the attention metadata, else the number of tokens
\* against max_num_seqs, else nothing.
Phase(prefills, decodes, size) ==
    IF prefills THEN IF decodes THEN "mixed" ELSE "prefill"
    ELSE IF decodes THEN "decode"
    ELSE CASE size = "large" -> "prefill" [] size = "small" -> "decode"
           [] size = "unknown" -> "unknown"

Unresolved == {l \in Layers : entry[l] = "seam" /\ active[l] = "unresolved"}

\* The profile boundary resolves the layers that nobody has resolved yet, in
\* order, and stops at the first it has to refuse.
Finalize ==
    LET bad == {l \in Unresolved : ~Resolves(l)}
        good == {l \in Unresolved : \A b \in bad : l < b}
        first == {l \in bad : \A b \in bad : l <= b}
    IN  /\ active' = [l \in Layers |-> IF l \in good THEN "on"
                                    ELSE IF l \in first THEN "off" ELSE active[l]]
        /\ wrapped' = IF model.abi = 2 THEN wrapped \cup good ELSE wrapped

BeginForward ==
    \E prefills, decodes, profile \in BOOLEAN, size \in {"large", "small", "unknown"} :
        /\ pc = "idle" /\ forward.n < MaxForwards
        /\ profile => ~prefills /\ ~decodes
        /\ IF profile THEN Finalize ELSE UNCHANGED seamVars
        /\ IF profile /\ \E l \in Unresolved : ~Resolves(l)
           THEN pc' = "refused" /\ UNCHANGED forward
           ELSE /\ pc' = "enter"
                /\ forward' = [n |-> forward.n + 1, layer |-> 1, index |-> 0,
                               phase |-> Phase(prefills, decodes, size),
                               profile |-> profile]
        /\ UNCHANGED <<bootVars, widthVars, routeVars, kernels, streamVars>>

\* get_layer_from_name with the forward-context sentinel: the next layer.
SentinelLayer == forward.index + 1

Consumed == IF model.sentinel THEN [forward EXCEPT !.index = @ + 1] ELSE forward

\* The layer a native op has found: by the sentinel, or by its own name.
NativeLayer == IF model.sentinel THEN forward.index ELSE Current

\* What a router selects for a layer of this forward.
Selection(l, by, suffix) ==
    [layer |-> l, forward |-> forward.n, by |-> by, suffix |-> suffix]

OwnRouter(k) == IF k.custom = "none" THEN "builtin" ELSE "custom"

\* select_experts below the seam: what is injected, else the layer's own router,
\* with the shared columns of a fused layer added by the plugin.
NativeSelection(l) == Selection(l, OwnRouter(Kind(l)), Kind(l).mix /\ boot.hooks > 0)

\* A wrapped router of seam ABI 2 and the adapter of ABI 1 look into the registry.
Selected(l) ==
    IF /\ boot.hooks > 0 /\ injected[Id(l)] # NoTopk
       /\ model.abi = 2 => l \in wrapped
    THEN injected[Id(l)] ELSE NativeSelection(l)

Columns(part, ids) ==
    CASE part = "routed" -> RoutedTopK
      [] part = "shared" -> SharedCount
      [] part = "all" -> RoutedTopK + IF ids.suffix THEN SharedCount ELSE 0

Kernel(l, ids, part, dispatched, path) ==
    [layer |-> l, ids |-> ids, part |-> part, width |-> dispatched, path |-> path]

\* A layer that no profile run resolved is resolved on its first entry; its
\* router stays as it is.
ResolveAtEntry ==
    /\ pc = "enter" /\ Current \in Unresolved
    /\ active' = [active EXCEPT ![Current] = IF Resolves(Current) THEN "on" ELSE "off"]
    /\ UNCHANGED <<bootVars, wrapped, widthVars, forward, pc, routeVars, kernels, streamVars>>

\* Refused: LatchMoECapabilityError.
EnterRefused ==
    /\ pc = "enter" /\ entry[Current] = "seam" /\ active[Current] = "off"
    /\ pc' = "refused"
    /\ UNCHANGED <<bootVars, seamVars, widthVars, forward, routeVars, kernels, streamVars>>

\* _seam_forward_entry: the sentinel is consumed once, and must name this layer.
Enter ==
    /\ pc = "enter" /\ entry[Current] = "seam" /\ active[Current] = "on"
    /\ ~(forward.phase = "prefill" /\ Kind(Current).resident)
    /\ forward' = Consumed
    /\ pc' = IF model.sentinel /\ SentinelLayer # Current THEN "refused" ELSE "route"
    /\ UNCHANGED <<bootVars, seamVars, widthVars, routeVars, kernels, streamVars>>

\* moe_router_indirect.  It is called with the real name, so that the index
\* stays; a selection it makes is the built-in one.
Route ==
    /\ pc = "route"
    /\ topk' = IF model.abi = 2 THEN Selected(Current)
               ELSE Selection(Current, "builtin", Kind(Current).mix)
    /\ pc' = "stage"
    /\ UNCHANGED <<bootVars, seamVars, widthVars, forward, injected, staged, kernels, streamVars>>

Stage ==
    /\ pc = "stage"
    /\ staged' = topk
    /\ pc' = "mlp"
    /\ UNCHANGED <<bootVars, seamVars, widthVars, forward, injected, topk, kernels, streamVars>>

--------------------------------------------------------------------------
(***************************************************************************)
(* The shared expert on a stream of its own (_ExternalSharedOverlapState). *)
(* The host queues operations; each stream runs its own in order.  Values  *)
(* are <<forward, layer>>; a buffer is used again by the next layer.       *)
(***************************************************************************)
Value == <<forward.n, Current>>

Run(what) == [op |-> "run", what |-> what, value |-> Value]
Record(event) == [op |-> "record", what |-> event, value |-> Value]
WaitFor(event) == [op |-> "wait", what |-> event, value |-> Value]

\* The layers whose schedule the plugin takes over.
Eligible(k) ==
    /\ k.overlapShared /\ ~k.sharedGate /\ ~k.gate /\ k.external
    /\ model.parallel = "single_npu" /\ model.abi = 1 /\ boot.hooks > 0

Enqueue(main, shared) ==
    queue' = [main |-> queue.main \o main, shared |-> queue.shared \o shared]

NewOverlap ==
    IF Eligible(Kind(Current)) THEN [NoOverlap EXCEPT !.layer = Current] ELSE NoOverlap

\* shared_forward_impl begins.
BeginOverlap ==
    /\ overlap' = NewOverlap
    /\ IF NewOverlap = NoOverlap THEN UNCHANGED queue ELSE Enqueue(<<Run("hidden")>>, <<>>)
    /\ UNCHANGED device

\* launch: the first projection waits for an event of the routed path.
Launch == <<WaitFor("dispatch"), Run("part1")>>

\* The routed kernel of an overlapped layer has been queued, and returns.
RoutedKernel ==
    /\ IF overlap.layer = 0 THEN UNCHANGED queue
       ELSE Enqueue(<<Run("routed"), Record("combine")>>, <<>>)
    /\ UNCHANGED <<overlap, device>>

\* finish: the second projection waits for the routed combine, if the kernel
\* returned an event.
SecondHalf(combine) ==
    (IF combine THEN <<WaitFor("combine")>> ELSE <<>>) \o <<Run("part2")>>

\* wait_stream: the main stream waits for all that the shared one has been given,
\* before the tuple is returned.
\* Slip: the main stream does not wait.
JoinWithoutWait == <<Run("use")>>

Join == <<WaitFor("shared"), Run("use")>>

\* The first projection is launched: by the comm method before the kernel, by a
\* wave, by the hook between two grouped matmuls, or else by finish.  What comes
\* after it in the layer may still raise.
LaunchShared ==
    /\ pc \in {"native", "kernel", "waves", "suffix", "leave"}
    /\ overlap.layer # 0 /\ ~overlap.launched
    /\ overlap' = [overlap EXCEPT !.launched = TRUE]
    /\ Enqueue(<<Record("dispatch")>>, Launch)
    /\ UNCHANGED <<bootVars, seamVars, widthVars, forward, pc, routeVars, kernels, device>>

FinishShared ==
    /\ pc = "leave" /\ overlap.launched /\ ~overlap.finished
    /\ overlap' = [overlap EXCEPT !.finished = TRUE]
    /\ \E combine \in BOOLEAN : Enqueue(<<>>, SecondHalf(combine))
    /\ UNCHANGED <<bootVars, seamVars, widthVars, forward, pc, routeVars, kernels, device>>

\* One operation of a stream.
Execute(o) ==
    LET event == <<o.what, o.value>> IN
    /\ o.op = "wait" => event \in device.events
    /\ device' =
         CASE o.op = "record" -> [device EXCEPT !.events = @ \cup {event}]
           [] o.op = "wait" -> device
           [] o.op = "run" ->
                CASE o.what = "hidden" -> [device EXCEPT !.hidden = o.value]
                  [] o.what = "part1" -> [device EXCEPT !.part1 = device.hidden]
                  [] o.what = "part2" -> [device EXCEPT !.output = device.part1]
                  [] o.what = "use" ->
                       [device EXCEPT !.used = {<<o.value, device.output>>}]
                  [] o.what = "routed" -> device

StreamRuns(s) ==
    /\ queue[s] # <<>>
    /\ Execute(Head(queue[s]))
    /\ queue' = [queue EXCEPT ![s] = Tail(@)]
    /\ UNCHANGED <<bootVars, seamVars, widthVars, forward, pc, routeVars, kernels, overlap>>

\* A layer that goes to the native op: one that was built before the hooks, or
\* a resident one in a confirmed prefill.  The op consumes the sentinel itself.
EnterNatively ==
    /\ pc = "enter"
    /\ \/ entry[Current] = "native"
       \/ /\ entry[Current] = "seam" /\ active[Current] = "on"
          /\ forward.phase = "prefill" /\ Kind(Current).resident
    /\ forward' = Consumed
    /\ pc' = "native"
    /\ BeginOverlap
    /\ UNCHANGED <<bootVars, seamVars, widthVars, routeVars, kernels>>

NativeKernel ==
    /\ pc = "native"
    /\ kernels' = {Kernel(NativeLayer, Selected(NativeLayer), "all", width, "native")}
    /\ RoutedKernel
    /\ pc' = "leave"
    /\ UNCHANGED <<bootVars, seamVars, widthVars, forward, routeVars>>

--------------------------------------------------------------------------
(***************************************************************************)
(* The MLP piece.                                                          *)
(***************************************************************************)
\* moe_mlp and moe_mlp_shared: the routing is injected around _forward_impl.
Mlp ==
    /\ pc = "mlp"
    /\ injected' = [injected EXCEPT ![Id(Current)] = topk]
    /\ pc' = "select"
    /\ BeginOverlap
    /\ UNCHANGED <<bootVars, seamVars, widthVars, forward, topk, staged, kernels>>

\* In a profile run the backend deals the tokens out at random, unless the
\* routing is a fused one that the seam has injected.
Balanced(ids) == [ids EXCEPT !.by = "random"]

ProfileRoutings(l, ids) ==
    IF forward.profile /\ ~(Kind(l).mix /\ Kind(l).lanes # "none")
    THEN {ids, Balanced(ids)} ELSE {ids}

\* apply, and select_experts below it.
Select ==
    /\ pc = "select"
    /\ topk' \in ProfileRoutings(Current, Selected(Current))
    /\ pc' = "kernel"
    /\ UNCHANGED <<bootVars, seamVars, widthVars, forward, injected, staged, kernels, streamVars>>

\* The slots, waves, or the full layer, for all columns at once.
WholeKernel ==
    /\ pc = "kernel"
    /\ kernels' = {Kernel(Current, topk, "all", width, "seam")}
    /\ RoutedKernel
    /\ pc' = "leave"
    /\ UNCHANGED <<bootVars, seamVars, widthVars, forward, routeVars>>

\* _run_b2_fused_shared_once: the suffix is checked, and the dispatcher is
\* narrowed for the routed columns.
SplitKernel ==
    /\ pc = "kernel" /\ Kind(Current).mix
    /\ topk.suffix
    /\ saved' = width
    /\ width' = RoutedTopK
    /\ pc' = "waves"
    /\ UNCHANGED <<bootVars, seamVars, forward, routeVars, kernels, streamVars>>

RoutedWaves ==
    /\ pc = "waves"
    /\ kernels' = {Kernel(Current, topk, "routed", width, "seam")}
    /\ width' = saved /\ saved' = 0
    /\ pc' = "suffix"
    /\ UNCHANGED <<bootVars, seamVars, forward, routeVars, streamVars>>

\* B2WaveFallback: the layer is computed again as a whole.
\* Slip: the dispatcher is widened only when the waves have returned.
FallBackNarrow ==
    /\ pc = "waves"
    /\ kernels' = {Kernel(Current, topk, "all", width, "seam")}
    /\ RoutedKernel
    /\ pc' = "leave"
    /\ UNCHANGED <<bootVars, seamVars, widthVars, forward, routeVars>>

FallBack ==
    /\ pc = "waves"
    /\ width' = saved /\ saved' = 0
    /\ kernels' = {Kernel(Current, topk, "all", width', "seam")}
    /\ RoutedKernel
    /\ pc' = "leave"
    /\ UNCHANGED <<bootVars, seamVars, forward, routeVars>>

\* The suffix, once, from the pinned lanes: narrowed and widened around the call.
SuffixKernel ==
    /\ pc = "suffix"
    /\ kernels' = kernels \cup {Kernel(Current, topk, "shared", SharedCount, "seam")}
    /\ RoutedKernel
    /\ pc' = "leave"
    /\ UNCHANGED <<bootVars, seamVars, widthVars, forward, routeVars>>

\* What the finally of moe_mlp leaves in the registry; only a layer that went
\* through the router has put anything there.
Cleared == IF topk = NoTopk THEN injected ELSE [injected EXCEPT ![Id(Current)] = NoTopk]

\* A piece of the layer raises, and the forward is given up: the registry is
\* cleared, the dispatcher widened, the overlap state reset.  What has been
\* queued stays queued: the first projection, when it is the kernel that raises,
\* the second when it is what follows in shared_forward_impl.
Raise ==
    /\ pc \in {"native", "select", "kernel", "waves", "suffix", "leave"}
    /\ injected' = Cleared
    /\ width' = IF pc = "waves" THEN saved ELSE width
    /\ saved' = 0
    /\ overlap' = NoOverlap
    /\ kernels' = {} /\ topk' = NoTopk /\ staged' = NoTopk
    /\ pc' = "idle"
    /\ UNCHANGED <<bootVars, seamVars, forward, queue, device>>

\* The router or the stage op raises: there is nothing to undo.
RaiseEarly ==
    /\ pc \in {"route", "stage"}
    /\ topk' = NoTopk /\ staged' = NoTopk
    /\ pc' = "idle"
    /\ UNCHANGED <<bootVars, seamVars, widthVars, forward, injected, kernels, streamVars>>

\* The tuple is returned, the registry is cleared, the next layer's turn.
Leave ==
    /\ pc = "leave"
    /\ IF overlap.layer = 0 THEN UNCHANGED queue
       ELSE overlap.finished /\ Enqueue(Join, <<Record("shared")>>)
    /\ overlap' = NoOverlap
    /\ injected' = Cleared
    /\ topk' = NoTopk /\ staged' = NoTopk /\ kernels' = {}
    /\ IF Current = NumLayers
       THEN pc' = "idle" /\ UNCHANGED forward
       ELSE pc' = "enter" /\ forward' = [forward EXCEPT !.layer = @ + 1]
    /\ UNCHANGED <<bootVars, seamVars, widthVars, device>>

--------------------------------------------------------------------------
Boot == Register \/ DeviceModuleLoads \/ AdaptPatch \/ Build

EnterLayer == EnterNatively \/ ResolveAtEntry \/ EnterRefused \/ Enter

RunLayer ==
    \/ Route \/ Stage \/ Mlp \/ Select
    \/ NativeKernel \/ WholeKernel \/ SplitKernel \/ RoutedWaves \/ FallBack \/ SuffixKernel
    \/ LaunchShared \/ FinishShared \/ Leave
    \/ RaiseEarly \/ Raise

Next ==
    \/ Boot \/ BeginForward \/ EnterLayer \/ RunLayer
    \/ \E s \in {"main", "shared"} : StreamRuns(s)

Spec == Init /\ [][Next]_vars

--------------------------------------------------------------------------
(***************************************************************************)
(* Properties.                                                             *)
(***************************************************************************)
Topks ==
    [layer : 0 .. NumLayers, forward : 0 .. MaxForwards, suffix : BOOLEAN,
     by : {"none", "builtin", "custom", "random"}]

\* The values of the variables; the hooks are installed once, however often the
\* plugin is registered and adapt_patch retried.
TypeOK ==
    /\ model \in Models
    /\ boot \in [ready : BOOLEAN, retry : BOOLEAN, hooks : {0, 1}]
    /\ built \in 0 .. NumLayers
    /\ entry \in [Layers -> {"none", "native", "seam"}]
    /\ active \in [Layers -> {"unresolved", "on", "off"}]
    /\ wrapped \subseteq Layers
    /\ width \in {RoutedTopK, RoutedTopK + SharedCount} /\ saved \in Nat
    /\ forward \in [n : 0 .. MaxForwards, layer : Layers, index : 0 .. NumLayers,
                    phase : {"prefill", "decode", "mixed", "unknown"},
                    profile : BOOLEAN]
    /\ injected \in [Layers \cup {-1} -> Topks]
    /\ {topk, staged} \subseteq Topks
    /\ overlap \in [layer : 0 .. NumLayers, launched : BOOLEAN, finished : BOOLEAN]

\* A kernel computes for the layer whose turn it is, with the routing that this
\* layer's own router made in this forward and that was staged, on as many
\* columns as the dispatcher was told; and when the layer is left, every column
\* has been computed once.  Routings do not leak through the registry, index or
\* dispatcher, also after a layer raised or fell back.
KernelsUseTheirRouting ==
    /\ \A k \in kernels :
         /\ k.layer = Current
         /\ k.ids.layer = Current /\ k.ids.forward = forward.n
         /\ k.ids.by = OwnRouter(Kind(Current)) \/ forward.profile
         /\ k.width = Columns(k.part, k.ids)
         /\ k.path = "seam" =>
              staged = [k.ids EXCEPT !.by = staged.by]
    /\ pc = "leave" =>
         /\ {k.part : k \in kernels} \in {{"all"}, {"routed", "shared"}}
         /\ Kind(Current).mix /\ boot.hooks > 0 => \A k \in kernels : k.ids.suffix

\* Once the hooks were there when the layers were built, a layer computes through
\* the seam or, resident and in a prefill, natively; and through the seam only
\* when its router is built in, its weights are plain, its shared columns have
\* the lanes of these very experts, and nothing else owns its schedule.
OnlyQualifiedLayersServe ==
    \A k \in kernels :
        LET a == Kind(Current) IN
        entry[Current] = "seam" =>
          \/ k.path = "native" /\ a.resident /\ forward.phase = "prefill"
          \/ /\ k.path = "seam"
             /\ a.hasId /\ a.custom = "none" /\ ~a.quantized
             /\ a.topK /\ a.experts /\ a.scoring
             /\ a.external \/ ~a.mix \/ a.lanes = "matching"
             /\ ~a.overlapGate /\ (a.overlapShared => a.external)
             /\ ~a.staticKernel /\ ~a.zeroExperts
             /\ model.parallel \in {"single_npu", "tp4"}

\* The shared expert's output that the main stream uses is the one of its own
\* layer and forward: from this layer's hidden states, complete, and not yet
\* overwritten by the next layer; whoever launched it, and also after a layer
\* that raised with one or both of its projections already queued.
SharedOutputsAreComplete == \A u \in device.used : u[1] = u[2]
===========================================================================
