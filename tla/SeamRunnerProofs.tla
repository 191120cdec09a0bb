------------------------- MODULE SeamRunnerProofs -------------------------
(***************************************************************************)
(* Proofs about SeamRunner: for every number of layers and forwards, every *)
(* kind of layer and both seam ABIs, a kernel computes with the routing of *)
(* its own layer, only qualified layers are served, and the main stream    *)
(* uses no shared output but its layer's own.                              *)
(***************************************************************************)
EXTENDS SeamRunner, SequenceTheorems, TLAPS

(***************************************************************************)
(* The inductive invariant, first part: the host.                          *)
(***************************************************************************)
BeforeRouter == {"boot", "build", "idle", "enter", "refused", "route", "native"}
InSeam == {"route", "stage", "mlp", "select", "kernel", "waves", "suffix"}
Injecting == {"select", "kernel", "waves", "suffix", "leave"}
Inside == Injecting \cup {"native"}
BeforeHidden == {"boot", "build", "enter", "route", "stage", "mlp"}
Pieces == BeforeRouter \cup InSeam \cup {"leave"}
OverlapStates == [layer : 0 .. NumLayers, launched : BOOLEAN, finished : BOOLEAN]

\* The layers are built after the hooks are decided upon, and forwards begin
\* when all are built.
BuildInv ==
    /\ pc \in Pieces
    /\ pc = "boot" => built = 0 /\ \A l \in Layers : entry[l] = "none"
    /\ pc = "build" => built < NumLayers
    /\ pc \notin {"boot", "build", "refused"} => built = NumLayers
    /\ \A l \in Layers : entry[l] = "seam" => boot.hooks = 1

\* Between router and MLP the layer is one the seam has accepted; a layer that
\* is under way natively was built so, or is resident and in a prefill.
SeamInv ==
    /\ \A l \in Layers : active[l] = "on" => Resolves(l)
    /\ pc \in InSeam => entry[Current] = "seam" /\ active[Current] = "on"
    /\ pc = "native" => \/ entry[Current] = "native"
                        \/ forward.phase = "prefill" /\ Kind(Current).resident

\* The dispatcher is set up for the layers of the model, and narrowed only
\* while the waves of a fused layer run.
WidthInv ==
    /\ built > 0 /\ pc # "waves" =>
          \A l \in Layers : width = DispatchWidth(Kind(l))
    /\ pc = "waves" =>
          /\ width = RoutedTopK
          /\ saved = DispatchWidth(Kind(Current))
    /\ pc \in {"waves", "suffix"} => topk.suffix

\* The index of the forward context names the layer whose turn it is.
IndexInv ==
    /\ pc = "enter" => forward.index = IF model.sentinel THEN Current - 1 ELSE 0
    /\ pc \in InSeam \cup {"native", "leave"} =>
          forward.index = IF model.sentinel THEN Current ELSE 0

\* What the router of this layer selected in this forward.
IsOwn(ids) ==
    /\ ids.layer = Current /\ ids.forward = forward.n
    /\ ids.suffix = Kind(Current).mix
    /\ ids.by = "random" => forward.profile
    /\ ids.by \in {"builtin", "random"}

\* The registry has at most one entry, the routing of the layer whose MLP runs.
RegistryInv ==
    /\ pc \in BeforeRouter => topk = NoTopk /\ staged = NoTopk
    /\ pc \in InSeam \ {"route"} => IsOwn(topk)
    /\ pc \in {"stage", "mlp", "select"} => topk.by = "builtin"
    /\ pc \in {"mlp", "select"} => staged = topk
    /\ pc \in {"kernel", "waves", "suffix"} => staged = [topk EXCEPT !.by = staged.by]
    /\ pc = "select" => injected[Current] = topk
    /\ \A i \in DOMAIN injected : injected[i] # NoTopk =>
          /\ i = Current /\ Id(Current) = i /\ pc \in Injecting
          /\ pc = "leave" => topk # NoTopk /\ entry[Current] = "seam"

\* A layer in hand has no kernel yet, or its routed half.
KernelInv ==
    /\ pc \notin {"suffix", "leave"} => kernels = {}
    /\ pc = "suffix" =>
          kernels = {Kernel(Current, topk, "routed", RoutedTopK, "seam")}

HostInv ==
    /\ TypeOK
    /\ BuildInv
    /\ SeamInv
    /\ WidthInv
    /\ IndexInv
    /\ RegistryInv
    /\ KernelInv
    /\ KernelsUseTheirRouting
    /\ OnlyQualifiedLayersServe

--------------------------------------------------------------------------
(***************************************************************************)
(* The inductive invariant, second part: the streams.  Forward and layer   *)
(* order all that is ever queued, and within a layer its place in the      *)
(* schedule does.                                                          *)
(***************************************************************************)
Values == (0 .. MaxForwards) \X (0 .. NumLayers)

Earlier(v, w) == v[1] < w[1] \/ (v[1] = w[1] /\ v[2] < w[2])

Op(op, what, v) == [op |-> op, what |-> what, value |-> v]

MainOps ==
    UNION {{Op("run", "hidden", v), Op("record", "dispatch", v), Op("run", "routed", v),
            Op("record", "combine", v), Op("wait", "shared", v), Op("run", "use", v)} :
           v \in Values}

SharedOps ==
    UNION {{Op("wait", "dispatch", v), Op("run", "part1", v), Op("wait", "combine", v),
            Op("run", "part2", v), Op("record", "shared", v)} : v \in Values}

\* The places in the schedules: 0 to 3 on the main stream, 4 to 8 on the shared.
Place(o) ==
    CASE o.what = "hidden" -> 0
      [] o.what = "routed" -> 1
      [] o.what = "use" -> 3
      [] o.what = "part1" -> 5
      [] o.what = "part2" -> 7
      [] o.what = "dispatch" -> IF o.op = "record" THEN 1 ELSE 4
      [] o.what = "combine" -> IF o.op = "record" THEN 1 ELSE 6
      [] o.what = "shared" -> IF o.op = "wait" THEN 2 ELSE 8

\* The routed kernel and its events have one place in common.
Precedes(o, p) ==
    \/ Earlier(o.value, p.value)
    \/ o.value = p.value /\ (Place(o) < Place(p) \/ {Place(o), Place(p)} = {1})

Ordered(q) == \A i, j \in DOMAIN q : i < j => Precedes(q[i], q[j])

Main == Range(queue.main)
Shared == Range(queue.shared)
Recorded(event, v) == <<event, v>> \in device.events

StreamTypes ==
    /\ queue \in [main : Seq(MainOps), shared : Seq(SharedOps)]
    /\ device \in [events : SUBSET ({"dispatch", "combine", "shared"} \X Values),
                   hidden : Values, part1 : Values, output : Values,
                   used : SUBSET (Values \X Values)]

\* How far the host has got with the layer in hand.
HostIsAhead ==
    /\ \A o \in Main \cup Shared :
         /\ ~Earlier(Value, o.value)
         /\ o.value = Value => pc \notin BeforeHidden
         /\ o.value = Value /\ pc \in Inside =>
              \/ Place(o) \in {0, 1}
              \/ Place(o) \in {4, 5} /\ overlap.launched
              \/ Place(o) \in {6, 7} /\ overlap.finished
    /\ \A e \in device.events :
         /\ ~Earlier(Value, e[2])
         /\ e[2] = Value => pc \notin BeforeHidden
         /\ e[2] = Value /\ pc \in Inside => e[1] # "shared"

OverlapInv ==
    /\ overlap.layer # 0 => pc \in Inside
    /\ overlap.launched => overlap.layer # 0
    /\ overlap.finished => overlap.launched

\* An event that has been recorded is behind everything still queued.
EventsAreBehind ==
    /\ \A v \in Values : Recorded("dispatch", v) =>
          \A o \in Main : Precedes(Op("record", "dispatch", v), o)
    /\ \A v \in Values : Recorded("shared", v) =>
          \A o \in Shared : Precedes(Op("record", "shared", v), o)

\* The projections wait for the routed path, the main stream for the projections.
WaitsAreQueued ==
    /\ \A o \in Shared : o.what # "dispatch" =>
          Op("wait", "dispatch", o.value) \in Shared \/ Recorded("dispatch", o.value)
    /\ \A o \in Main : o.what = "use" =>
          Op("wait", "shared", o.value) \in Main \/ Recorded("shared", o.value)
    /\ overlap.launched =>
          Op("wait", "dispatch", Value) \in Shared \/ Recorded("dispatch", Value)

\* Layers whose shared output will be used; those whose hidden states, whose first
\* and whose second projection are still needed.
Awaited(v) == Op("run", "use", v) \in Main
Wanted(v) == Awaited(v) \/ (overlap.layer # 0 /\ v = Value)
Started(v) == Awaited(v) \/ (overlap.launched /\ v = Value)
Finished(v) == Awaited(v) \/ (overlap.finished /\ v = Value)

\* A buffer that is still needed is not written before it has been used.
HiddenIsKept ==
    \A v \in Values : Wanted(v) =>
        \/ Op("run", "hidden", v) \in Main
        \/ /\ device.hidden = v
           /\ \A w \in Values : Op("run", "hidden", w) \in Main => Earlier(v, w)

FirstHalfIsKept ==
    \A v \in Values : Started(v) =>
        \/ Op("run", "part1", v) \in Shared
        \/ /\ device.part1 = v
           /\ \A w \in Values : Op("run", "part1", w) \in Shared => Earlier(v, w)

OutputIsKept ==
    \A v \in Values : Finished(v) =>
        \/ Op("run", "part2", v) \in Shared
        \/ /\ device.output = v
           /\ \A w \in Values : Op("run", "part2", w) \in Shared => Earlier(v, w)

StreamInv ==
    /\ StreamTypes
    /\ Ordered(queue.main) /\ Ordered(queue.shared)
    /\ HostIsAhead
    /\ OverlapInv
    /\ EventsAreBehind
    /\ WaitsAreQueued
    /\ HiddenIsKept
    /\ FirstHalfIsKept
    /\ OutputIsKept
    /\ SharedOutputsAreComplete

--------------------------------------------------------------------------
(***************************************************************************)
(* Constants and operators.                                                *)
(***************************************************************************)
LEMMA ConstantsType ==
    /\ NumLayers \in Nat \ {0} /\ RoutedTopK \in Nat \ {0}
    /\ SharedCount \in Nat \ {0} /\ MaxForwards \in Nat \ {0}
  BY RunnerAssumption

LEMMA ModelType ==
    ASSUME TypeOK
    PROVE  /\ model.abi \in {1, 2} /\ model.sentinel \in BOOLEAN
           /\ model.parallel \in {"single_npu", "tp4", "multi_npu"}
           /\ \A l \in Layers : Kind(l) \in LayerKinds
           /\ \A k, l \in Layers : Kind(k).mix = Kind(l).mix
  BY ModelsAssumption DEF TypeOK, Kind

LEMMA DispatchWidthIs ==
    ASSUME NEW k \in LayerKinds, boot.hooks \in {0, 1}
    PROVE  DispatchWidth(k) =
             IF k.mix /\ boot.hooks = 1 THEN RoutedTopK + SharedCount ELSE RoutedTopK
<1>1. k.mix \in BOOLEAN
  BY DEF LayerKinds
<1>2. CASE boot.hooks = 0
  BY <1>1, <1>2, ConstantsType DEF DispatchWidth
<1>3. CASE boot.hooks = 1
  BY <1>1, <1>3, ConstantsType DEF DispatchWidth
<1>4. QED
  BY <1>2, <1>3

(***************************************************************************)
(* A layer that is resolved has everything the seam relies on.             *)
(***************************************************************************)
Qualified(k) ==
    /\ k.hasId /\ k.custom = "none" /\ ~k.quantized /\ k.topK /\ k.experts /\ k.scoring
    /\ k.external \/ ~k.mix \/ k.lanes = "matching"
    /\ ~k.overlapGate /\ (k.overlapShared => k.external)
    /\ ~k.staticKernel /\ ~k.zeroExperts
    /\ model.parallel \in {"single_npu", "tp4"}

LEMMA ResolvedIsQualified ==
    ASSUME TypeOK, NEW l \in Layers, Resolves(l)
    PROVE  Qualified(Kind(l))
<1> DEFINE k == Kind(l)
<1>1. k \in LayerKinds
  BY ModelType
<1>2. k.hasId /\ SupportBlockers(k) = {} /\ LaneBlockers(k) = {} /\ KernelBlockers(k) = {}
  BY DEF Resolves
<1> HIDE DEF k
<1>3. RouterAdapter(k) = "builtin"
  BY <1>2 DEF SupportBlockers
<1>4. k.custom = "none"
  BY <1>1, <1>3 DEF RouterAdapter, LayerKinds
<1>5. k.topK
  BY <1>2 DEF SupportBlockers
<1>e. k.experts
  BY <1>2 DEF SupportBlockers
<1>6. k.scoring
  BY <1>2 DEF SupportBlockers
<1>7. ~k.quantized
  BY <1>2 DEF SupportBlockers
<1>8. model.parallel \in {"single_npu", "tp4"}
  BY <1>2 DEF SupportBlockers
<1>9. /\ OverlapMode(k) # "shared_gate_multistream"
      /\ OverlapMode(k) = "shared_expert_multistream" => SharedMode(k) = "external_resident"
  BY <1>2 DEF SupportBlockers
<1>10. ~k.overlapGate /\ (k.overlapShared => k.external)
  BY <1>1, <1>9 DEF OverlapMode, SharedMode, LayerKinds
<1>11. k.external \/ ~k.mix \/ k.lanes = "matching"
  BY <1>1, <1>2 DEF LaneBlockers, SharedMode, LayerKinds
<1>12. ~k.staticKernel
  BY <1>2 DEF KernelBlockers
<1>13. ~k.zeroExperts
  BY <1>2 DEF KernelBlockers
<1>14. QED
  BY <1>2, <1>4, <1>5, <1>e, <1>6, <1>7, <1>8, <1>10, <1>11, <1>12, <1>13 DEF Qualified, k

LEMMA SelectionType ==
    ASSUME TypeOK, NEW l \in Layers, NEW by \in {"builtin", "custom"}, NEW suffix \in BOOLEAN
    PROVE  Selection(l, by, suffix) \in Topks /\ Selection(l, by, suffix) # NoTopk
<1>1. forward.n \in 0 .. MaxForwards
  BY DEF TypeOK
<1>2. l \in 0 .. NumLayers /\ l # 0
  BY ConstantsType DEF Layers
<1>3. QED
  BY <1>1, <1>2 DEF Selection, Topks, NoTopk

LEMMA NativeSelectionType ==
    ASSUME TypeOK, NEW l \in Layers
    PROVE  NativeSelection(l) \in Topks
<1>1. OwnRouter(Kind(l)) \in {"builtin", "custom"}
  BY DEF OwnRouter
<1>2. (Kind(l).mix /\ boot.hooks > 0) \in BOOLEAN
  OBVIOUS
<1>3. QED
  BY <1>1, <1>2, SelectionType DEF NativeSelection

LEMMA NoTopkType == NoTopk \in Topks
  BY ConstantsType DEF NoTopk, Topks

LEMMA IdType == ASSUME NEW l \in Layers PROVE Id(l) \in Layers \cup {-1}
  BY DEF Id

--------------------------------------------------------------------------
(***************************************************************************)
(* The host.  The streams leave its state alone, but for the overlap.      *)
(***************************************************************************)
LEMMA SameResolution ==
    ASSUME NEW l \in Layers, model' = model
    PROVE  Resolves(l)' = Resolves(l)
<1>1. Kind(l)' = Kind(l)
  BY DEF Kind
<1>2. SupportBlockers(Kind(l))' = SupportBlockers(Kind(l))
  BY <1>1 DEF SupportBlockers
<1>3. LaneBlockers(Kind(l))' = LaneBlockers(Kind(l))
  BY <1>1 DEF LaneBlockers, SharedMode
<1>4. KernelBlockers(Kind(l))' = KernelBlockers(Kind(l))
  BY <1>1 DEF KernelBlockers
<1>5. QED
  BY <1>1, <1>2, <1>3, <1>4 DEF Resolves

LEMMA HostFrame ==
    ASSUME HostInv, overlap' \in OverlapStates,
           UNCHANGED <<bootVars, seamVars, widthVars, forward, pc, routeVars, kernels>>
    PROVE  HostInv'
<1> USE DEF bootVars, seamVars, widthVars, routeVars, HostInv
<1>1. TypeOK'
  BY DEF TypeOK, OverlapStates
<1>2. BuildInv'
  BY DEF BuildInv
<1>3. SeamInv'
  BY SameResolution DEF SeamInv, Current, Kind
<1>4. WidthInv' /\ IndexInv' /\ RegistryInv' /\ KernelInv'
  BY DEF WidthInv, DispatchWidth, Kind, Current, IndexInv, RegistryInv, IsOwn, KernelInv, Id
<1>5. KernelsUseTheirRouting' /\ OnlyQualifiedLayersServe'
  BY DEF KernelsUseTheirRouting, OnlyQualifiedLayersServe, Current, Kind
<1>6. QED
  BY <1>1, <1>2, <1>3, <1>4, <1>5

LEMMA HostInit == Init => HostInv
<1> SUFFICES ASSUME Init PROVE HostInv
  OBVIOUS
<1> USE ConstantsType DEF Init, HostInv
<1>1. TypeOK
  BY NoTopkType DEF TypeOK, NoOverlap, Layers
<1>2. BuildInv
  BY DEF BuildInv, Pieces, BeforeRouter
<1>3. SeamInv /\ WidthInv /\ IndexInv /\ KernelInv
  BY DEF SeamInv, WidthInv, IndexInv, KernelInv, InSeam
<1>4. RegistryInv
  BY DEF RegistryInv, BeforeRouter, InSeam, Injecting
<1>5. KernelsUseTheirRouting /\ OnlyQualifiedLayersServe
  BY DEF KernelsUseTheirRouting, OnlyQualifiedLayersServe
<1>6. QED
  BY <1>1, <1>2, <1>3, <1>4, <1>5

--------------------------------------------------------------------------
(***************************************************************************)
(* Boot and construction of the layers.                                    *)
(***************************************************************************)
LEMMA BootKeepsHost ==
    ASSUME HostInv, pc = "boot", pc' \in {"boot", "build"},
           boot' \in [ready : BOOLEAN, retry : BOOLEAN, hooks : {0, 1}],
           UNCHANGED <<model, built, entry, seamVars, widthVars, forward, routeVars,
                       kernels, overlap>>
    PROVE  HostInv'
<1> USE ConstantsType DEF seamVars, widthVars, routeVars, HostInv
<1>1. TypeOK'
  BY DEF TypeOK
<1>2. BuildInv'
  BY DEF BuildInv, Pieces, BeforeRouter
<1>3. SeamInv'
  BY SameResolution DEF SeamInv, InSeam
<1>4. WidthInv' /\ IndexInv' /\ RegistryInv' /\ KernelInv'
  BY DEF WidthInv, BuildInv, IndexInv, RegistryInv, IsOwn, KernelInv, BeforeRouter,
     InSeam, Injecting
<1>5. kernels' = {}
  BY DEF KernelInv
<1>6. KernelsUseTheirRouting' /\ OnlyQualifiedLayersServe'
  BY <1>5 DEF KernelsUseTheirRouting, OnlyQualifiedLayersServe
<1>7. QED
  BY <1>1, <1>2, <1>3, <1>4, <1>6

LEMMA RegisterKeepsHost == HostInv /\ Register => HostInv'
<1> SUFFICES ASSUME HostInv, Register PROVE HostInv'
  OBVIOUS
<1>1. boot' \in [ready : BOOLEAN, retry : BOOLEAN, hooks : {0, 1}]
  BY DEF HostInv, TypeOK, Register, Install
<1>2. QED
  BY <1>1, BootKeepsHost DEF Register, streamVars

LEMMA DeviceModuleKeepsHost == HostInv /\ DeviceModuleLoads => HostInv'
<1> SUFFICES ASSUME HostInv, DeviceModuleLoads PROVE HostInv'
  OBVIOUS
<1>1. boot' \in [ready : BOOLEAN, retry : BOOLEAN, hooks : {0, 1}]
  BY DEF HostInv, TypeOK, DeviceModuleLoads
<1>2. QED
  BY <1>1, BootKeepsHost DEF DeviceModuleLoads, streamVars

LEMMA AdaptPatchKeepsHost == HostInv /\ AdaptPatch => HostInv'
<1> SUFFICES ASSUME HostInv, AdaptPatch PROVE HostInv'
  OBVIOUS
<1>1. boot' \in [ready : BOOLEAN, retry : BOOLEAN, hooks : {0, 1}]
  BY DEF HostInv, TypeOK, AdaptPatch, Install
<1>2. built < NumLayers
  BY ConstantsType DEF HostInv, BuildInv, AdaptPatch
<1>3. QED
  BY <1>1, <1>2, BootKeepsHost DEF AdaptPatch, streamVars

LEMMA BuildKeepsHost == HostInv /\ Build => HostInv'
<1> SUFFICES ASSUME HostInv, Build PROVE HostInv'
  OBVIOUS
<1> USE ConstantsType DEF seamVars, widthVars, routeVars, streamVars, HostInv
<1>1. /\ pc = "build" /\ built' = built + 1 /\ built' \in Layers
      /\ pc' \in {"build", "idle", "refused"}
      /\ UNCHANGED <<model, boot, active, wrapped, saved, forward, injected, topk, staged,
                     kernels, overlap>>
  BY DEF Build, TypeOK, Layers
<1>2. \A l \in Layers : width' = DispatchWidth(Kind(l))
  <2>1. width' = DispatchWidth(Kind(built'))
    BY DEF Build
  <2>2. QED
    BY <1>1, <2>1, ModelType, DispatchWidthIs DEF TypeOK
<1>3. width' \in {RoutedTopK, RoutedTopK + SharedCount}
  BY <1>1, <1>2, ModelType, DispatchWidthIs DEF TypeOK
<1>4. /\ entry' \in [Layers -> {"none", "native", "seam"}]
      /\ \A l \in Layers : entry'[l] = "seam" => boot.hooks = 1
  <2>1. CASE UNCHANGED entry
    BY <2>1 DEF TypeOK, BuildInv
  <2>2. CASE entry' = [entry EXCEPT ![built'] = IF boot.hooks > 0 THEN "seam" ELSE "native"]
    BY <1>1, <2>2 DEF TypeOK, BuildInv
  <2>3. QED
    BY <2>1, <2>2 DEF Build
<1>5. TypeOK'
  BY <1>1, <1>3, <1>4 DEF TypeOK, Layers
<1>6. BuildInv'
  BY <1>1, <1>4 DEF Build, BuildInv, Pieces, BeforeRouter, TypeOK
<1>7. SeamInv'
  BY <1>1, SameResolution DEF SeamInv, InSeam
<1>8. WidthInv'
  BY <1>1, <1>2 DEF WidthInv, DispatchWidth, Kind
<1>9. IndexInv' /\ RegistryInv' /\ KernelInv'
  BY <1>1 DEF IndexInv, RegistryInv, IsOwn, KernelInv, BeforeRouter, InSeam, Injecting
<1>10. kernels' = {}
  BY <1>1 DEF KernelInv
<1>11. KernelsUseTheirRouting' /\ OnlyQualifiedLayersServe'
  BY <1>1, <1>10 DEF KernelsUseTheirRouting, OnlyQualifiedLayersServe
<1>12. QED
  BY <1>5, <1>6, <1>7, <1>8, <1>9, <1>11

--------------------------------------------------------------------------
(***************************************************************************)
(* A step in front of the router: no routing is under way.                 *)
(***************************************************************************)
LEMMA QuietStep ==
    ASSUME HostInv, pc \in {"idle", "enter"},
           pc' \in {"idle", "enter", "refused", "route", "native"},
           TypeOK', SeamInv', IndexInv',
           UNCHANGED <<bootVars, widthVars, routeVars, kernels>>
    PROVE  HostInv'
<1> USE DEF bootVars, widthVars, routeVars, HostInv
<1>1. BuildInv'
  BY DEF BuildInv, Pieces, BeforeRouter
<1>2. WidthInv'
  BY DEF WidthInv, DispatchWidth, Kind
<1>3. RegistryInv' /\ KernelInv'
  BY DEF RegistryInv, KernelInv, BeforeRouter, InSeam, Injecting
<1>4. kernels' = {}
  BY DEF KernelInv
<1>5. KernelsUseTheirRouting' /\ OnlyQualifiedLayersServe'
  BY <1>4 DEF KernelsUseTheirRouting, OnlyQualifiedLayersServe
<1>6. QED
  BY <1>1, <1>2, <1>3, <1>5

LEMMA FinalizeResolves ==
    ASSUME HostInv, Finalize, UNCHANGED model
    PROVE  /\ active' \in [Layers -> {"unresolved", "on", "off"}]
           /\ wrapped' \subseteq Layers
           /\ \A l \in Layers : active'[l] = "on" => Resolves(l)'
<1> DEFINE bad == {l \in Unresolved : ~Resolves(l)}
           good == {l \in Unresolved : \A b \in bad : l < b}
           first == {l \in bad : \A b \in bad : l <= b}
<1>1. good \subseteq Layers /\ \A l \in good : Resolves(l)
  <2>1. \A l \in Unresolved : l \in Layers /\ ~(l < l)
    BY ConstantsType DEF Unresolved, Layers
  <2>2. QED
    BY <2>1
<1>2. /\ active' = [l \in Layers |-> IF l \in good THEN "on"
                                     ELSE IF l \in first THEN "off" ELSE active[l]]
      /\ wrapped' = IF model.abi = 2 THEN wrapped \cup good ELSE wrapped
  BY DEF Finalize
<1> HIDE DEF good, first
<1>3. \A l \in Layers : active'[l] = "on" => Resolves(l)
  BY <1>1, <1>2 DEF HostInv, SeamInv
<1>4. active' \in [Layers -> {"unresolved", "on", "off"}] /\ wrapped' \subseteq Layers
  BY <1>1, <1>2 DEF HostInv, TypeOK
<1>5. QED
  BY <1>3, <1>4, SameResolution

LEMMA BeginForwardKeepsHost == HostInv /\ BeginForward => HostInv'
<1> SUFFICES ASSUME HostInv, BeginForward PROVE HostInv'
  OBVIOUS
<1> USE ConstantsType DEF bootVars, widthVars, routeVars, streamVars
<1>1. PICK prefills, decodes, profile \in BOOLEAN, size \in {"large", "small", "unknown"} :
        /\ pc = "idle" /\ forward.n < MaxForwards
        /\ IF profile THEN Finalize ELSE UNCHANGED seamVars
        /\ IF profile /\ \E l \in Unresolved : ~Resolves(l)
           THEN pc' = "refused" /\ UNCHANGED forward
           ELSE /\ pc' = "enter"
                /\ forward' = [n |-> forward.n + 1, layer |-> 1, index |-> 0,
                               phase |-> Phase(prefills, decodes, size),
                               profile |-> profile]
        /\ UNCHANGED <<bootVars, widthVars, routeVars, kernels, streamVars>>
  BY DEF BeginForward
<1>2. /\ active' \in [Layers -> {"unresolved", "on", "off"}]
      /\ wrapped' \subseteq Layers
      /\ \A l \in Layers : active'[l] = "on" => Resolves(l)'
  <2>1. CASE profile
    BY <1>1, <2>1, FinalizeResolves
  <2>2. CASE ~profile
    BY <1>1, <2>2, SameResolution DEF HostInv, TypeOK, SeamInv, seamVars
  <2>3. QED
    BY <2>1, <2>2
<1>3. Phase(prefills, decodes, size) \in {"prefill", "decode", "mixed", "unknown"}
  BY DEF Phase
<1>4. forward' \in [n : 0 .. MaxForwards, layer : Layers, index : 0 .. NumLayers,
                    phase : {"prefill", "decode", "mixed", "unknown"},
                    profile : BOOLEAN]
  BY <1>1, <1>3 DEF HostInv, TypeOK, Layers
<1>5. TypeOK'
  BY <1>1, <1>2, <1>4 DEF HostInv, TypeOK
<1>6. SeamInv' /\ IndexInv'
  BY <1>1, <1>2 DEF HostInv, SeamInv, IndexInv, InSeam, Current
<1>7. QED
  BY <1>1, <1>5, <1>6, QuietStep

LEMMA ResolveAtEntryKeepsHost == HostInv /\ ResolveAtEntry => HostInv'
<1> SUFFICES ASSUME HostInv, ResolveAtEntry PROVE HostInv'
  OBVIOUS
<1> USE DEF bootVars, widthVars, routeVars, streamVars, ResolveAtEntry
<1>1. TypeOK'
  BY DEF HostInv, TypeOK
<1>2. SeamInv' /\ IndexInv'
  BY SameResolution DEF HostInv, TypeOK, SeamInv, IndexInv, InSeam, Current
<1>3. QED
  BY <1>1, <1>2, QuietStep

LEMMA EnterRefusedKeepsHost == HostInv /\ EnterRefused => HostInv'
<1> SUFFICES ASSUME HostInv, EnterRefused PROVE HostInv'
  OBVIOUS
<1> USE DEF bootVars, seamVars, widthVars, routeVars, streamVars, EnterRefused
<1>1. TypeOK'
  BY DEF HostInv, TypeOK
<1>2. SeamInv' /\ IndexInv'
  BY SameResolution DEF HostInv, SeamInv, IndexInv, InSeam
<1>3. QED
  BY <1>1, <1>2, QuietStep

\* At the entry the index is one behind, so that the sentinel names this layer.
LEMMA SentinelNamesThisLayer ==
    ASSUME HostInv, pc = "enter"
    PROVE  /\ Current \in Layers
           /\ model.sentinel => SentinelLayer = Current
           /\ Consumed = [forward EXCEPT !.index =
                            IF model.sentinel THEN Current ELSE 0]
           /\ Consumed.index \in 0 .. NumLayers
<1>1. /\ forward.index = IF model.sentinel THEN Current - 1 ELSE 0
      /\ Current \in Layers /\ model.sentinel \in BOOLEAN
  BY ModelType DEF HostInv, IndexInv, TypeOK, Current
<1>2. Current \in Nat /\ Current \in 0 .. NumLayers
  BY <1>1, ConstantsType DEF Layers
<1>3. CASE model.sentinel
  <2>1. forward.index + 1 = Current
    BY <1>1, <1>2, <1>3
  <2>2. Consumed = [forward EXCEPT !.index = Current]
    BY <1>3, <2>1 DEF Consumed
  <2>3. QED
    BY <1>1, <1>2, <1>3, <2>1, <2>2 DEF SentinelLayer, HostInv, TypeOK
<1>4. CASE ~model.sentinel
  <2>1. Consumed = [forward EXCEPT !.index = 0]
    BY <1>1, <1>4 DEF Consumed, HostInv, TypeOK
  <2>2. QED
    BY <1>1, <1>4, <2>1, ConstantsType DEF HostInv, TypeOK
<1>5. QED
  BY <1>1, <1>3, <1>4

LEMMA EnterKeepsHost == HostInv /\ Enter => HostInv'
<1> SUFFICES ASSUME HostInv, Enter PROVE HostInv'
  OBVIOUS
<1> USE DEF bootVars, seamVars, widthVars, routeVars, streamVars
<1>1. /\ pc = "enter" /\ pc' = "route"
      /\ forward' = [forward EXCEPT !.index = IF model.sentinel THEN Current ELSE 0]
      /\ forward'.index \in 0 .. NumLayers
  BY SentinelNamesThisLayer DEF Enter
<1>2. forward' \in [n : 0 .. MaxForwards, layer : Layers, index : 0 .. NumLayers,
                    phase : {"prefill", "decode", "mixed", "unknown"},
                    profile : BOOLEAN]
      /\ forward'.layer = forward.layer
  BY <1>1 DEF HostInv, TypeOK
<1>3. TypeOK'
  BY <1>2 DEF HostInv, TypeOK, Enter
<1>4. SeamInv'
  BY <1>1, <1>2, SameResolution DEF HostInv, SeamInv, Enter, Current
<1>5. IndexInv'
  BY <1>1, <1>2 DEF IndexInv, Enter, Current, HostInv, TypeOK, InSeam
<1>6. QED
  BY <1>1, <1>3, <1>4, <1>5, QuietStep DEF Enter

--------------------------------------------------------------------------
(***************************************************************************)
(* What the streams do to the one variable of the host they share with it. *)
(***************************************************************************)
LEMMA NewOverlapType ==
    ASSUME TypeOK
    PROVE  /\ NewOverlap \in OverlapStates /\ NoOverlap \in OverlapStates
           /\ NewOverlap.launched = FALSE /\ NewOverlap.finished = FALSE
           /\ NewOverlap.layer = 0 => NewOverlap = NoOverlap
<1>1. NoOverlap \in OverlapStates /\ Current \in 1 .. NumLayers
  BY ConstantsType DEF TypeOK, NoOverlap, OverlapStates, Current, Layers
<1>2. CASE Eligible(Kind(Current))
  <2>1. NewOverlap = [layer |-> Current, launched |-> FALSE, finished |-> FALSE]
    BY <1>2 DEF NewOverlap, NoOverlap
  <2>2. QED
    BY <1>1, <2>1, ConstantsType DEF OverlapStates
<1>3. CASE ~Eligible(Kind(Current))
  BY <1>1, <1>3 DEF NewOverlap, NoOverlap
<1>4. QED
  BY <1>2, <1>3

--------------------------------------------------------------------------
(***************************************************************************)
(* From the router to the kernel.  A step that changes only the routing.   *)
(***************************************************************************)
LEMMA PieceStep ==
    ASSUME HostInv, pc \in InSeam, pc' \in InSeam \ {"route", "waves", "suffix"},
           {topk', staged'} \subseteq Topks,
           injected' \in [Layers \cup {-1} -> Topks],
           overlap' \in OverlapStates,
           RegistryInv', pc \notin {"waves", "suffix"},
           UNCHANGED <<bootVars, seamVars, widthVars, forward, kernels>>
    PROVE  HostInv'
<1> USE DEF bootVars, seamVars, widthVars, HostInv
<1>1. TypeOK'
  BY DEF TypeOK, OverlapStates
<1>2. BuildInv' /\ SeamInv' /\ IndexInv'
  BY SameResolution DEF BuildInv, SeamInv, IndexInv, Pieces, InSeam, Current
<1>3. WidthInv'
  BY DEF WidthInv, DispatchWidth, Kind
<1>4. kernels' = {}
  BY DEF KernelInv, InSeam
<1>5. KernelInv' /\ KernelsUseTheirRouting' /\ OnlyQualifiedLayersServe'
  BY <1>4 DEF KernelInv, KernelsUseTheirRouting, OnlyQualifiedLayersServe, InSeam
<1>6. QED
  BY <1>1, <1>2, <1>3, <1>5

\* A layer in the seam has an id, a built-in router, and the hooks around it.
LEMMA LayerInSeam ==
    ASSUME HostInv, pc \in InSeam
    PROVE  /\ Current \in Layers /\ Id(Current) = Current
           /\ OwnRouter(Kind(Current)) = "builtin"
           /\ Kind(Current) \in LayerKinds /\ Kind(Current).mix \in BOOLEAN
           /\ Qualified(Kind(Current))
           /\ boot.hooks = 1 /\ entry[Current] = "seam"
<1>1. /\ Current \in Layers /\ entry[Current] = "seam" /\ active[Current] = "on"
  BY DEF HostInv, SeamInv, TypeOK, Current
<1>2. Kind(Current) \in LayerKinds /\ Qualified(Kind(Current))
  BY <1>1, ModelType, ResolvedIsQualified DEF HostInv, SeamInv
<1>3. QED
  BY <1>1, <1>2 DEF HostInv, BuildInv, Qualified, Id, OwnRouter, LayerKinds

\* Whatever a layer in the seam asks, the router or the registry, answers with
\* its own routing.
LEMMA SelectedInSeam ==
    ASSUME HostInv, pc \in {"route", "select"}
    PROVE  /\ Selected(Current) = Selection(Current, "builtin", Kind(Current).mix)
           /\ pc = "select" => Selected(Current) = topk
<1>1. /\ Current \in Layers /\ Id(Current) = Current
      /\ OwnRouter(Kind(Current)) = "builtin" /\ boot.hooks = 1
      /\ Kind(Current).mix \in BOOLEAN
  BY LayerInSeam DEF InSeam
<1>2. NativeSelection(Current) = Selection(Current, "builtin", Kind(Current).mix)
  BY <1>1 DEF NativeSelection
<1>3. CASE pc = "route"
  <2>1. injected[Current] = NoTopk
    BY <1>1, <1>3 DEF HostInv, RegistryInv, Injecting, TypeOK
  <2>2. QED
    BY <1>1, <1>2, <1>3, <2>1 DEF Selected
<1>4. CASE pc = "select"
  <2>1. injected[Current] = topk /\ IsOwn(topk) /\ topk.by = "builtin" /\ topk \in Topks
    BY <1>4 DEF HostInv, RegistryInv, InSeam, TypeOK
  <2>2. topk = Selection(Current, "builtin", Kind(Current).mix)
    BY <2>1 DEF IsOwn, Selection, Topks
  <2>3. QED
    BY <1>1, <1>2, <2>1, <2>2 DEF Selected
<1>5. QED
  BY <1>3, <1>4

LEMMA RouteKeepsHost == HostInv /\ Route => HostInv'
<1> SUFFICES ASSUME HostInv, Route PROVE HostInv'
  OBVIOUS
<1>1. /\ pc = "route" /\ pc' = "stage"
      /\ UNCHANGED <<bootVars, seamVars, widthVars, forward, injected, staged, kernels, overlap>>
  BY DEF Route, streamVars
<1>2. topk' = Selection(Current, "builtin", Kind(Current).mix)
  BY <1>1, SelectedInSeam DEF Route
<1>3. topk' \in Topks
  BY <1>1, <1>2, LayerInSeam, SelectionType DEF InSeam, HostInv
<1>4. IsOwn(topk)' /\ topk'.by = "builtin"
  BY <1>1, <1>2 DEF IsOwn, Selection, Current, Kind, bootVars
<1>5. RegistryInv'
  BY <1>1, <1>4 DEF HostInv, RegistryInv, BeforeRouter, InSeam, Injecting, TypeOK
<1>6. QED
  BY <1>1, <1>3, <1>5, PieceStep DEF HostInv, TypeOK, InSeam, OverlapStates

LEMMA StageKeepsHost == HostInv /\ Stage => HostInv'
<1> SUFFICES ASSUME HostInv, Stage PROVE HostInv'
  OBVIOUS
<1>1. /\ pc = "stage" /\ pc' = "mlp" /\ staged' = topk
      /\ UNCHANGED <<bootVars, seamVars, widthVars, forward, injected, topk, kernels, overlap>>
  BY DEF Stage, streamVars
<1>2. IsOwn(topk)'
  BY <1>1 DEF HostInv, RegistryInv, InSeam, IsOwn, Current, Kind, bootVars
<1>3. RegistryInv'
  BY <1>1, <1>2 DEF HostInv, RegistryInv, BeforeRouter, InSeam, Injecting, TypeOK
<1>4. QED
  BY <1>1, <1>3, PieceStep DEF HostInv, TypeOK, InSeam, OverlapStates

LEMMA MlpKeepsHost == HostInv /\ Mlp => HostInv'
<1> SUFFICES ASSUME HostInv, Mlp PROVE HostInv'
  OBVIOUS
<1>1. /\ pc = "mlp" /\ pc' = "select"
      /\ injected' = [injected EXCEPT ![Id(Current)] = topk]
      /\ overlap' \in OverlapStates
      /\ UNCHANGED <<bootVars, seamVars, widthVars, forward, topk, staged, kernels>>
  BY NewOverlapType DEF Mlp, BeginOverlap, HostInv
<1>2. Id(Current) = Current /\ Current \in Layers
  BY <1>1, LayerInSeam DEF InSeam
<1>3. IsOwn(topk)'
  BY <1>1 DEF HostInv, RegistryInv, InSeam, IsOwn, Current, Kind, bootVars
<1>4. injected' \in [Layers \cup {-1} -> Topks] /\ injected'[Current] = topk
      /\ \A i \in DOMAIN injected' : injected'[i] # NoTopk => i = Current
  BY <1>1, <1>2 DEF HostInv, RegistryInv, TypeOK, Injecting
<1>5. RegistryInv'
  BY <1>1, <1>2, <1>3, <1>4 DEF HostInv, RegistryInv, BeforeRouter, InSeam, Injecting, Current,
     Id, Kind, bootVars
<1>6. QED
  BY <1>1, <1>4, <1>5, PieceStep DEF HostInv, TypeOK, InSeam

LEMMA SelectKeepsHost == HostInv /\ Select => HostInv'
<1> SUFFICES ASSUME HostInv, Select PROVE HostInv'
  OBVIOUS
<1>1. /\ pc = "select" /\ pc' = "kernel"
      /\ UNCHANGED <<bootVars, seamVars, widthVars, forward, injected, staged, kernels, overlap>>
  BY DEF Select, streamVars
<1>2. Selected(Current) = topk /\ staged = topk /\ IsOwn(topk) /\ topk \in Topks
  BY <1>1, SelectedInSeam DEF HostInv, RegistryInv, InSeam, TypeOK
<1>3. \/ topk' = topk
      \/ topk' = [topk EXCEPT !.by = "random"] /\ forward.profile
  BY <1>2 DEF Select, ProfileRoutings, Balanced
<1>4. topk' \in Topks /\ topk' # NoTopk /\ staged = [topk' EXCEPT !.by = staged.by]
  <2>1. Current \in Layers
    BY <1>1, LayerInSeam DEF InSeam
  <2>2. topk'.layer = Current /\ NoTopk.layer = 0
    BY <1>2, <1>3 DEF IsOwn, NoTopk, Topks
  <2>3. QED
    BY <1>2, <1>3, <2>1, <2>2, ConstantsType DEF Topks, Layers
<1>5. IsOwn(topk)'
  BY <1>1, <1>2, <1>3 DEF IsOwn, Current, Kind, Topks, bootVars
<1>6. RegistryInv'
  BY <1>1, <1>4, <1>5 DEF HostInv, RegistryInv, BeforeRouter, InSeam, Injecting, Current,
     Id, Kind, bootVars
<1>7. QED
  BY <1>1, <1>4, <1>6, PieceStep DEF HostInv, TypeOK, InSeam, OverlapStates

--------------------------------------------------------------------------
(***************************************************************************)
(* The kernels.                                                            *)
(***************************************************************************)
\* The dispatcher is as wide as the routing of the layer has columns.
LEMMA WidthFits ==
    ASSUME HostInv, pc \in InSeam \cup {"native"}, NEW ids,
           ids.suffix = (Kind(Current).mix /\ boot.hooks = 1)
    PROVE  /\ DispatchWidth(Kind(Current)) = Columns("all", ids)
           /\ pc # "waves" => width = Columns("all", ids)
<1>1. Current \in Layers /\ built > 0
  BY ConstantsType DEF HostInv, TypeOK, BuildInv, InSeam, Current
<1>2. DispatchWidth(Kind(Current)) = Columns("all", ids)
  <2>1. Kind(Current) \in LayerKinds /\ boot.hooks \in {0, 1}
    BY <1>1, ModelType DEF HostInv, TypeOK
  <2>2. DispatchWidth(Kind(Current)) =
          IF ids.suffix THEN RoutedTopK + SharedCount ELSE RoutedTopK
    BY <2>1, DispatchWidthIs
  <2>3. Columns("all", ids) = RoutedTopK + IF ids.suffix THEN SharedCount ELSE 0
    BY DEF Columns
  <2>4. QED
    BY <2>2, <2>3, ConstantsType
<1>3. pc # "waves" => width = DispatchWidth(Kind(Current))
  BY <1>1 DEF HostInv, WidthInv
<1>4. QED
  BY <1>2, <1>3

\* A kernel of the seam on all columns of the layer in hand.
LEMMA WholeKernelIsRight ==
    ASSUME HostInv, pc \in {"kernel", "waves"}, pc' = "leave",
           kernels' = {Kernel(Current, topk, "all", DispatchWidth(Kind(Current)), "seam")},
           UNCHANGED <<bootVars, seamVars, forward, routeVars>>
    PROVE  KernelsUseTheirRouting' /\ OnlyQualifiedLayersServe'
<1> USE DEF bootVars, seamVars, routeVars
<1>1. /\ IsOwn(topk) /\ staged = [topk EXCEPT !.by = staged.by]
      /\ pc \in InSeam /\ topk \in Topks
  BY DEF HostInv, RegistryInv, InSeam, TypeOK
<1>2. /\ OwnRouter(Kind(Current)) = "builtin" /\ boot.hooks = 1
      /\ Kind(Current).mix \in BOOLEAN /\ Qualified(Kind(Current))
  BY <1>1, LayerInSeam
<1>3. DispatchWidth(Kind(Current)) = Columns("all", topk)
  BY <1>1, <1>2, WidthFits DEF IsOwn
<1>4. Current' = Current /\ Kind(Current)' = Kind(Current)
  BY DEF Current, Kind
<1>5. KernelsUseTheirRouting'
  BY <1>1, <1>2, <1>3, <1>4 DEF KernelsUseTheirRouting, Kernel, IsOwn, Topks
<1>6. OnlyQualifiedLayersServe'
  BY <1>2, <1>4 DEF OnlyQualifiedLayersServe, Kernel, Qualified
<1>7. QED
  BY <1>5, <1>6

\* The layer is left with its kernels.
LEMMA KernelStep ==
    ASSUME HostInv, pc \in {"kernel", "waves", "suffix"}, pc' = "leave",
           overlap' \in OverlapStates,
           \A l \in Layers : width' = DispatchWidth(Kind(l)),
           saved' \in Nat,
           KernelsUseTheirRouting', OnlyQualifiedLayersServe',
           UNCHANGED <<bootVars, seamVars, forward, routeVars>>
    PROVE  HostInv'
<1> USE DEF bootVars, seamVars, routeVars, HostInv
<1>1. width' \in {RoutedTopK, RoutedTopK + SharedCount}
  BY DispatchWidthIs, ModelType, ConstantsType DEF TypeOK, Layers
<1>2. TypeOK'
  BY <1>1 DEF TypeOK, OverlapStates
<1>3. BuildInv' /\ SeamInv' /\ IndexInv'
  BY SameResolution DEF BuildInv, SeamInv, IndexInv, Pieces, InSeam, Current
<1>4. WidthInv'
  BY DEF WidthInv, DispatchWidth, Kind
<1>5. topk # NoTopk /\ entry[Current] = "seam"
  <2>1. topk.layer = Current /\ Current \in Layers /\ NoTopk.layer = 0
    BY LayerInSeam DEF RegistryInv, IsOwn, InSeam, NoTopk
  <2>2. QED
    BY <2>1, ConstantsType, LayerInSeam DEF Layers, InSeam
<1>6. RegistryInv'
  BY <1>5 DEF RegistryInv, BeforeRouter, InSeam, Injecting, Current,
     Id, Kind, bootVars
<1>7. KernelInv'
  BY DEF KernelInv
<1>8. QED
  BY <1>2, <1>3, <1>4, <1>6, <1>7

LEMMA WholeKernelKeepsHost == HostInv /\ WholeKernel => HostInv'
<1> SUFFICES ASSUME HostInv, WholeKernel PROVE HostInv'
  OBVIOUS
<1>1. /\ pc = "kernel" /\ pc' = "leave"
      /\ UNCHANGED <<bootVars, seamVars, width, saved, forward, routeVars>>
      /\ kernels' = {Kernel(Current, topk, "all", width, "seam")}
  BY DEF WholeKernel, widthVars
<1>2. overlap' \in OverlapStates
  BY DEF WholeKernel, RoutedKernel, HostInv, TypeOK, OverlapStates
<1>3. /\ \A l \in Layers : width = DispatchWidth(Kind(l))
      /\ Current \in Layers
  BY <1>1, ConstantsType DEF HostInv, WidthInv, BuildInv, TypeOK, Current
<1>4. KernelsUseTheirRouting' /\ OnlyQualifiedLayersServe'
  BY <1>1, <1>3, WholeKernelIsRight
<1>5. QED
  BY <1>1, <1>2, <1>3, <1>4, KernelStep DEF HostInv, TypeOK

LEMMA SplitKernelKeepsHost == HostInv /\ SplitKernel => HostInv'
<1> SUFFICES ASSUME HostInv, SplitKernel PROVE HostInv'
  OBVIOUS
<1> USE DEF bootVars, seamVars, routeVars, streamVars, HostInv
<1>1. /\ pc = "kernel" /\ pc' = "waves" /\ topk.suffix
      /\ saved' = width /\ width' = RoutedTopK
      /\ UNCHANGED <<bootVars, seamVars, forward, routeVars, kernels, overlap>>
  BY DEF SplitKernel
<1>2. /\ width = DispatchWidth(Kind(Current)) /\ width \in Nat
  BY <1>1, ConstantsType DEF WidthInv, BuildInv, TypeOK, Current
<1>3. TypeOK'
  BY <1>1, <1>2 DEF TypeOK
<1>4. BuildInv' /\ SeamInv' /\ IndexInv'
  BY <1>1, SameResolution DEF BuildInv, SeamInv, IndexInv, Pieces, InSeam, Current
<1>5. WidthInv'
  BY <1>1, <1>2 DEF WidthInv, DispatchWidth, Kind, Current
<1>6. RegistryInv'
  BY <1>1 DEF RegistryInv, BeforeRouter, InSeam, Injecting, Current, IsOwn, Kind,
     Id
<1>7. kernels' = {}
  BY <1>1 DEF KernelInv
<1>8. KernelInv' /\ KernelsUseTheirRouting' /\ OnlyQualifiedLayersServe'
  BY <1>1, <1>7 DEF KernelInv, KernelsUseTheirRouting, OnlyQualifiedLayersServe
<1>9. QED
  BY <1>3, <1>4, <1>5, <1>6, <1>8

LEMMA RoutedWavesKeepsHost == HostInv /\ RoutedWaves => HostInv'
<1> SUFFICES ASSUME HostInv, RoutedWaves PROVE HostInv'
  OBVIOUS
<1> USE DEF bootVars, seamVars, routeVars, streamVars, HostInv
<1>1. /\ pc = "waves" /\ pc' = "suffix" /\ width' = saved /\ saved' = 0
      /\ kernels' = {Kernel(Current, topk, "routed", RoutedTopK, "seam")}
      /\ UNCHANGED <<bootVars, seamVars, forward, routeVars, overlap>>
  BY DEF RoutedWaves, WidthInv
<1>2. /\ saved = DispatchWidth(Kind(Current)) /\ topk.suffix /\ Current \in Layers
  BY <1>1, LayerInSeam DEF WidthInv, InSeam
<1>3. \A l \in Layers : width' = DispatchWidth(Kind(l))
  BY <1>1, <1>2, DispatchWidthIs, ModelType DEF TypeOK
<1>4. width' \in {RoutedTopK, RoutedTopK + SharedCount}
  BY <1>2, <1>3, DispatchWidthIs, ModelType DEF TypeOK
<1>5. TypeOK'
  BY <1>1, <1>4 DEF TypeOK
<1>6. BuildInv' /\ SeamInv' /\ IndexInv'
  BY <1>1, SameResolution DEF BuildInv, SeamInv, IndexInv, Pieces, InSeam, Current
<1>7. WidthInv'
  BY <1>1, <1>2, <1>3 DEF WidthInv, DispatchWidth, Kind
<1>8. RegistryInv'
  BY <1>1 DEF RegistryInv, BeforeRouter, InSeam, Injecting, Current, IsOwn, Kind,
     Id
<1>9. KernelInv'
  BY <1>1 DEF KernelInv, Current, Kernel
<1>10. Current' = Current /\ Kind(Current)' = Kind(Current)
  BY <1>1 DEF Current, Kind
<1>11. KernelsUseTheirRouting' /\ OnlyQualifiedLayersServe'
  <2>1. IsOwn(topk) /\ staged = [topk EXCEPT !.by = staged.by] /\ topk \in Topks
    BY <1>1 DEF RegistryInv, InSeam, TypeOK
  <2>2. OwnRouter(Kind(Current)) = "builtin" /\ Qualified(Kind(Current))
    BY <1>1, LayerInSeam DEF InSeam
  <2>3. KernelsUseTheirRouting'
    BY <1>1, <1>10, <2>1, <2>2 DEF KernelsUseTheirRouting, Kernel, IsOwn, Topks, Columns
  <2>4. QED
    BY <1>1, <1>10, <2>2, <2>3 DEF OnlyQualifiedLayersServe, Kernel, Qualified
<1>12. QED
  BY <1>5, <1>6, <1>7, <1>8, <1>9, <1>11

LEMMA FallBackKeepsHost == HostInv /\ FallBack => HostInv'
<1> SUFFICES ASSUME HostInv, FallBack PROVE HostInv'
  OBVIOUS
<1>1. /\ pc = "waves" /\ pc' = "leave" /\ saved' = 0
      /\ width' = DispatchWidth(Kind(Current))
      /\ kernels' = {Kernel(Current, topk, "all", DispatchWidth(Kind(Current)), "seam")}
      /\ UNCHANGED <<bootVars, seamVars, forward, routeVars, overlap>>
  BY DEF FallBack, RoutedKernel, HostInv, WidthInv
<1>2. Current \in Layers
  BY <1>1, LayerInSeam DEF InSeam
<1>3. \A l \in Layers : width' = DispatchWidth(Kind(l))
  BY <1>1, <1>2, DispatchWidthIs, ModelType DEF HostInv, TypeOK
<1>4. KernelsUseTheirRouting' /\ OnlyQualifiedLayersServe'
  BY <1>1, WholeKernelIsRight
<1>5. QED
  BY <1>1, <1>3, <1>4, KernelStep DEF HostInv, TypeOK, OverlapStates

LEMMA SuffixKernelKeepsHost == HostInv /\ SuffixKernel => HostInv'
<1> SUFFICES ASSUME HostInv, SuffixKernel PROVE HostInv'
  OBVIOUS
<1> USE DEF bootVars, seamVars, widthVars, routeVars, streamVars
<1>1. /\ pc = "suffix" /\ pc' = "leave"
      /\ kernels = {Kernel(Current, topk, "routed", RoutedTopK, "seam")}
      /\ kernels' = kernels \cup {Kernel(Current, topk, "shared", SharedCount, "seam")}
      /\ UNCHANGED <<bootVars, seamVars, widthVars, forward, routeVars, overlap>>
  BY DEF SuffixKernel, RoutedKernel, HostInv, KernelInv
<1>2. /\ \A l \in Layers : width' = DispatchWidth(Kind(l))
      /\ Current \in Layers /\ topk.suffix
  BY <1>1, ConstantsType DEF HostInv, WidthInv, BuildInv, TypeOK, Current
<1>3. Current' = Current /\ Kind(Current)' = Kind(Current)
  BY <1>1 DEF Current, Kind
<1>4. OwnRouter(Kind(Current)) = "builtin" /\ Qualified(Kind(Current))
  BY <1>1, LayerInSeam DEF InSeam
<1>5. KernelsUseTheirRouting'
  <2>1. IsOwn(topk) /\ staged = [topk EXCEPT !.by = staged.by] /\ topk \in Topks
    BY <1>1 DEF HostInv, RegistryInv, InSeam, TypeOK
  <2>2. \A k \in kernels' : k = Kernel(Current, topk, k.part, k.width, "seam")
                            /\ k.part \in {"routed", "shared"}
                            /\ k.width = Columns(k.part, topk)
    BY <1>1 DEF Kernel, Columns
  <2>3. {k.part : k \in kernels'} = {"routed", "shared"}
    BY <1>1 DEF Kernel
  <2>4. QED
    BY <1>1, <1>2, <1>3, <1>4, <2>1, <2>2, <2>3 DEF KernelsUseTheirRouting, Kernel, IsOwn, Topks
<1>6. OnlyQualifiedLayersServe'
  BY <1>1, <1>3, <1>4 DEF OnlyQualifiedLayersServe, Kernel, Qualified
<1>7. QED
  BY <1>1, <1>2, <1>5, <1>6, KernelStep DEF HostInv, TypeOK, OverlapStates

--------------------------------------------------------------------------
(***************************************************************************)
(* The way around the seam, and the ways out.                              *)
(***************************************************************************)
LEMMA EnterNativelyKeepsHost == HostInv /\ EnterNatively => HostInv'
<1> SUFFICES ASSUME HostInv, EnterNatively PROVE HostInv'
  OBVIOUS
<1> USE DEF bootVars, seamVars, widthVars, routeVars
<1>1. /\ pc = "enter" /\ pc' = "native"
      /\ \/ entry[Current] = "native"
         \/ forward.phase = "prefill" /\ Kind(Current).resident
      /\ UNCHANGED <<bootVars, seamVars, widthVars, routeVars, kernels>>
      /\ overlap' = NewOverlap
  BY DEF EnterNatively, BeginOverlap
<1>2. /\ forward' = [forward EXCEPT !.index = IF model.sentinel THEN Current ELSE 0]
      /\ forward'.index \in 0 .. NumLayers
  BY <1>1, SentinelNamesThisLayer DEF EnterNatively
<1>3. /\ forward' \in [n : 0 .. MaxForwards, layer : Layers, index : 0 .. NumLayers,
                       phase : {"prefill", "decode", "mixed", "unknown"},
                       profile : BOOLEAN]
      /\ forward'.layer = forward.layer /\ forward'.phase = forward.phase
      /\ forward'.index = IF model.sentinel THEN Current ELSE 0
  BY <1>2 DEF HostInv, TypeOK
<1>4. Current' = Current /\ Kind(Current)' = Kind(Current)
  BY <1>1, <1>3 DEF Current, Kind
<1>5. TypeOK'
  BY <1>1, <1>3, NewOverlapType DEF HostInv, TypeOK, OverlapStates
<1>6. SeamInv'
  BY <1>1, <1>3, <1>4, SameResolution DEF HostInv, SeamInv, InSeam
<1>7. IndexInv'
  BY <1>1, <1>3, <1>4 DEF IndexInv, InSeam
<1>8. QED
  BY <1>1, <1>5, <1>6, <1>7, QuietStep

LEMMA NativeKernelKeepsHost == HostInv /\ NativeKernel => HostInv'
<1> SUFFICES ASSUME HostInv, NativeKernel PROVE HostInv'
  OBVIOUS
<1> USE DEF bootVars, seamVars, widthVars, routeVars, HostInv
<1>1. /\ pc = "native" /\ pc' = "leave"
      /\ \/ entry[Current] = "native"
         \/ forward.phase = "prefill" /\ Kind(Current).resident
      /\ UNCHANGED <<bootVars, seamVars, widthVars, forward, routeVars, overlap>>
  BY DEF NativeKernel, RoutedKernel, SeamInv
<1>2. Current \in Layers /\ NativeLayer = Current
  BY <1>1 DEF IndexInv, NativeLayer, TypeOK, Current
<1>3. Current' = Current /\ Kind(Current)' = Kind(Current)
  BY <1>1 DEF Current, Kind
<1>4. topk = NoTopk /\ \A i \in DOMAIN injected : injected[i] = NoTopk
  BY <1>1 DEF RegistryInv, BeforeRouter, Injecting
<1>5. Selected(Current) = NativeSelection(Current)
  BY <1>2, <1>4, IdType DEF Selected, TypeOK
<1>6. TypeOK'
  BY <1>1 DEF TypeOK
<1>7. BuildInv' /\ SeamInv' /\ IndexInv'
  BY <1>1, <1>3, SameResolution DEF BuildInv, SeamInv, IndexInv, Pieces, InSeam
<1>8. WidthInv'
  BY <1>1 DEF WidthInv, DispatchWidth, Kind
<1>9. RegistryInv'
  BY <1>1, <1>4 DEF RegistryInv, BeforeRouter, InSeam, Injecting
<1>10. KernelInv'
  BY <1>1 DEF KernelInv
<1> DEFINE ids == NativeSelection(Current)
<1>11. kernels' = {Kernel(Current, ids, "all", width, "native")}
  BY <1>2, <1>5 DEF NativeKernel
<1>12. /\ ids.layer = Current /\ ids.forward = forward.n
       /\ ids.by = OwnRouter(Kind(Current))
       /\ ids.suffix = (Kind(Current).mix /\ boot.hooks = 1)
  BY DEF NativeSelection, Selection, TypeOK
<1> HIDE DEF ids
<1>13. width = Columns("all", ids)
  BY <1>1, <1>12, WidthFits
<1>14. KernelsUseTheirRouting'
  <2>1. \A k \in kernels' : /\ k.layer = Current /\ k.ids = ids /\ k.part = "all"
                            /\ k.width = width /\ k.path = "native"
    BY <1>11 DEF Kernel
  <2>2. {k.part : k \in kernels'} = {"all"}
    BY <1>11 DEF Kernel
  <2>3. boot.hooks > 0 <=> boot.hooks = 1
    BY DEF TypeOK
  <2>4. ASSUME NEW k \in kernels'
        PROVE  /\ k.layer = Current'
               /\ k.ids.layer = Current' /\ k.ids.forward = forward'.n
               /\ k.ids.by = OwnRouter(Kind(Current)') \/ forward'.profile
               /\ k.width = Columns(k.part, k.ids) /\ k.path # "seam"
    BY <1>1, <1>3, <1>12, <1>13, <2>1
  <2>5. (Kind(Current)').mix /\ boot'.hooks > 0 => \A k \in kernels' : k.ids.suffix
    BY <1>1, <1>3, <1>12, <2>1, <2>3
  <2>6. {k.part : k \in kernels'} \in {{"all"}, {"routed", "shared"}}
    BY <2>2
  <2>7. QED
    BY <2>4, <2>5, <2>6 DEF KernelsUseTheirRouting
<1>15. OnlyQualifiedLayersServe'
  BY <1>1, <1>3, <1>11 DEF OnlyQualifiedLayersServe, Kernel
<1>16. QED
  BY <1>6, <1>7, <1>8, <1>9, <1>10, <1>14, <1>15

LEMMA OverlapStepsKeepHost == HostInv /\ (LaunchShared \/ FinishShared) => HostInv'
<1> SUFFICES ASSUME HostInv, LaunchShared \/ FinishShared PROVE HostInv'
  OBVIOUS
<1>1. overlap \in OverlapStates
  BY DEF HostInv, TypeOK, OverlapStates
<1>2. overlap' \in OverlapStates
  BY <1>1 DEF LaunchShared, FinishShared, OverlapStates
<1>3. QED
  BY <1>2, HostFrame DEF LaunchShared, FinishShared

\* Whoever leaves the layer clears its entry, which is the only one.
LEMMA RegistryIsCleared ==
    ASSUME HostInv, pc \in Inside
    PROVE  Cleared = [i \in DOMAIN injected |-> NoTopk]
<1>1. \A i \in DOMAIN injected : injected[i] # NoTopk =>
          i = Current /\ Id(Current) = i /\ pc \in Injecting /\ (pc = "leave" => topk # NoTopk)
  BY DEF HostInv, RegistryInv
<1>2. /\ injected = [i \in DOMAIN injected |-> injected[i]]
      /\ Id(Current) \in DOMAIN injected /\ Current \in Layers
  BY IdType DEF HostInv, TypeOK, Current
<1>3. pc \in Injecting \ {"leave"} => topk # NoTopk
  <2>1. pc \in Injecting \ {"leave"} => topk.layer = Current
    BY DEF HostInv, RegistryInv, IsOwn, Injecting, InSeam
  <2>2. Current # NoTopk.layer
    BY <1>2, ConstantsType DEF Layers, NoTopk
  <2>3. QED
    BY <2>1, <2>2
<1>4. CASE topk = NoTopk
  BY <1>1, <1>2, <1>3, <1>4 DEF Cleared
<1>5. CASE topk # NoTopk
  BY <1>1, <1>2, <1>5 DEF Cleared
<1>6. QED
  BY <1>4, <1>5

LEMMA EmptyRegistry ==
    ASSUME TypeOK
    PROVE  /\ [i \in DOMAIN injected |-> NoTopk] \in [Layers \cup {-1} -> Topks]
           /\ \A i \in DOMAIN injected : [j \in DOMAIN injected |-> NoTopk][i] = NoTopk
  BY NoTopkType DEF TypeOK

\* A step that lets go of the layer in hand.
LEMMA LeavingStep ==
    ASSUME HostInv, pc \in Inside \cup {"route", "stage"}, pc' \in {"idle", "enter"},
           injected' = [i \in DOMAIN injected |-> NoTopk],
           topk' = NoTopk, staged' = NoTopk, kernels' = {},
           width' \in {RoutedTopK, RoutedTopK + SharedCount}, saved' \in Nat,
           \A l \in Layers : width' = DispatchWidth(Kind(l)),
           overlap' \in OverlapStates,
           forward' \in [n : 0 .. MaxForwards, layer : Layers, index : 0 .. NumLayers,
                         phase : {"prefill", "decode", "mixed", "unknown"},
                         profile : BOOLEAN],
           IndexInv',
           UNCHANGED <<bootVars, seamVars>>
    PROVE  HostInv'
<1> USE DEF bootVars, seamVars, HostInv
<1>1. TypeOK'
  BY EmptyRegistry, NoTopkType DEF TypeOK, OverlapStates
<1>2. BuildInv' /\ SeamInv'
  BY SameResolution DEF BuildInv, SeamInv, Pieces, BeforeRouter, InSeam, Injecting, Inside
<1>3. WidthInv'
  BY DEF WidthInv, DispatchWidth, Kind
<1>4. RegistryInv' /\ KernelInv'
  BY DEF RegistryInv, KernelInv, BeforeRouter, InSeam
<1>5. KernelsUseTheirRouting' /\ OnlyQualifiedLayersServe'
  BY DEF KernelsUseTheirRouting, OnlyQualifiedLayersServe
<1>6. QED
  BY <1>1, <1>2, <1>3, <1>4, <1>5

LEMMA RaiseKeepsHost == HostInv /\ (Raise \/ RaiseEarly) => HostInv'
<1> SUFFICES ASSUME HostInv, Raise \/ RaiseEarly PROVE HostInv'
  OBVIOUS
<1>1. /\ pc \in Inside \cup {"route", "stage"} /\ pc' = "idle"
      /\ topk' = NoTopk /\ staged' = NoTopk /\ kernels' = {}
      /\ saved' \in Nat /\ overlap' \in OverlapStates
      /\ UNCHANGED <<bootVars, seamVars, forward>>
  <2>1. overlap \in OverlapStates /\ NoOverlap \in OverlapStates /\ saved \in Nat
    BY ConstantsType DEF HostInv, TypeOK, OverlapStates, NoOverlap
  <2>2. CASE Raise
    BY <2>1, <2>2 DEF Raise, Inside, Injecting
  <2>3. CASE RaiseEarly
    <3>1. kernels = {}
      BY <2>3 DEF RaiseEarly, HostInv, KernelInv
    <3>2. QED
      BY <2>1, <2>3, <3>1 DEF RaiseEarly, widthVars, streamVars
  <2>4. QED
    BY <2>2, <2>3
<1>2. injected' = [i \in DOMAIN injected |-> NoTopk]
  <2>1. CASE Raise
    BY <2>1, RegistryIsCleared DEF Raise, Inside, Injecting
  <2>2. CASE RaiseEarly
    <3>1. injected' = injected /\ \A i \in DOMAIN injected : injected[i] = NoTopk
      BY <2>2 DEF RaiseEarly, HostInv, RegistryInv, Injecting
    <3>2. injected = [i \in DOMAIN injected |-> injected[i]]
      BY DEF HostInv, TypeOK
    <3>3. QED
      BY <3>1, <3>2
  <2>3. QED
    BY <2>1, <2>2
<1>3. Current \in Layers /\ built > 0
  BY <1>1, ConstantsType DEF HostInv, BuildInv, TypeOK, Current, Inside, Injecting
<1>4. width' = DispatchWidth(Kind(Current))
  BY <1>3 DEF Raise, RaiseEarly, HostInv, WidthInv, widthVars
<1>5. /\ \A l \in Layers : width' = DispatchWidth(Kind(l))
      /\ width' \in {RoutedTopK, RoutedTopK + SharedCount}
  BY <1>3, <1>4, DispatchWidthIs, ModelType DEF HostInv, TypeOK
<1>6. IndexInv'
  BY <1>1 DEF IndexInv, InSeam
<1>7. QED
  BY <1>1, <1>2, <1>5, <1>6, LeavingStep DEF HostInv, TypeOK

LEMMA LeaveKeepsHost == HostInv /\ Leave => HostInv'
<1> SUFFICES ASSUME HostInv, Leave PROVE HostInv'
  OBVIOUS
<1>1. /\ pc = "leave" /\ pc \in Inside
      /\ topk' = NoTopk /\ staged' = NoTopk /\ kernels' = {}
      /\ UNCHANGED <<bootVars, seamVars, widthVars>>
  BY DEF Leave, Injecting, Inside
<1>2. injected' = [i \in DOMAIN injected |-> NoTopk]
  BY <1>1, RegistryIsCleared DEF Leave
<1>3. built > 0 /\ \A l \in Layers : width' = DispatchWidth(Kind(l))
  BY <1>1, ConstantsType DEF HostInv, BuildInv, WidthInv, widthVars
<1>4. overlap' \in OverlapStates
  BY NewOverlapType DEF Leave, HostInv
<1>5. Current \in Layers /\ forward.index = IF model.sentinel THEN Current ELSE 0
  BY <1>1 DEF HostInv, IndexInv, TypeOK, Current
<1>6. /\ pc' \in {"idle", "enter"}
      /\ forward' \in [n : 0 .. MaxForwards, layer : Layers, index : 0 .. NumLayers,
                       phase : {"prefill", "decode", "mixed", "unknown"},
                       profile : BOOLEAN]
      /\ IndexInv'
  <2>1. CASE Current = NumLayers
    BY <1>1, <2>1 DEF Leave, HostInv, TypeOK, IndexInv, InSeam
  <2>2. CASE Current # NumLayers
    <3>1. pc' = "enter" /\ forward' = [forward EXCEPT !.layer = @ + 1]
      BY <2>2 DEF Leave
    <3>2. Current + 1 \in Layers /\ (Current + 1) - 1 = Current
      BY <1>5, <2>2, ConstantsType DEF Layers
    <3>3. forward'.layer = Current + 1 /\ forward'.index = forward.index
      BY <3>1 DEF HostInv, TypeOK, Current
    <3>4. IndexInv'
      BY <1>1, <1>5, <3>1, <3>2, <3>3 DEF IndexInv, InSeam, Current, bootVars
    <3>5. QED
      BY <3>1, <3>2, <3>4 DEF HostInv, TypeOK, Current
  <2>3. QED
    BY <2>1, <2>2
<1>7. QED
  BY <1>1, <1>2, <1>3, <1>4, <1>6, LeavingStep DEF HostInv, TypeOK, widthVars

LEMMA HostNext == HostInv /\ [Next]_vars => HostInv'
<1> SUFFICES ASSUME HostInv, [Next]_vars PROVE HostInv'
  OBVIOUS
<1>1. CASE Boot
  BY <1>1, RegisterKeepsHost, DeviceModuleKeepsHost, AdaptPatchKeepsHost, BuildKeepsHost
     DEF Boot
<1>2. CASE BeginForward
  BY <1>2, BeginForwardKeepsHost
<1>3. CASE EnterLayer
  BY <1>3, EnterNativelyKeepsHost, ResolveAtEntryKeepsHost, EnterRefusedKeepsHost,
     EnterKeepsHost DEF EnterLayer
<1>4. CASE RunLayer
  BY <1>4, RouteKeepsHost, StageKeepsHost, MlpKeepsHost, SelectKeepsHost,
     NativeKernelKeepsHost, WholeKernelKeepsHost, SplitKernelKeepsHost,
     RoutedWavesKeepsHost, FallBackKeepsHost, SuffixKernelKeepsHost,
     OverlapStepsKeepHost, RaiseKeepsHost, LeaveKeepsHost DEF RunLayer
<1>a. overlap \in OverlapStates
  BY DEF HostInv, TypeOK, OverlapStates
<1>5. CASE \E s \in {"main", "shared"} : StreamRuns(s)
  BY <1>5, <1>a, HostFrame DEF StreamRuns
<1>6. CASE UNCHANGED vars
  BY <1>6, <1>a, HostFrame DEF vars, bootVars, seamVars, widthVars, routeVars
<1>7. QED
  BY <1>1, <1>2, <1>3, <1>4, <1>5, <1>6 DEF Next

LEMMA HostInvHolds == Spec => []HostInv
  BY HostInit, HostNext, PTL DEF Spec

(***************************************************************************)
(* Everything keeps its type; the hooks are installed once and widen the   *)
(* dispatcher once, however often the plugin is registered and adapt_patch *)
(* retried.                                                                *)
(***************************************************************************)
THEOREM TypeCorrect == Spec => []TypeOK
<1>1. HostInv => TypeOK
  BY DEF HostInv
<1>2. QED
  BY <1>1, HostInvHolds, PTL

(***************************************************************************)
(* A kernel computes with the routing its own layer made in this forward,  *)
(* on as many columns as the dispatcher was told: no routing leaks through *)
(* _INJECTED, moe_layer_index or token_dispatcher.top_k into another layer *)
(* or a later forward.                                                     *)
(***************************************************************************)
THEOREM RoutingTheorem == Spec => []KernelsUseTheirRouting
<1>1. HostInv => KernelsUseTheirRouting
  BY DEF HostInv
<1>2. QED
  BY <1>1, HostInvHolds, PTL

(***************************************************************************)
(* What the seam computes, it computes for layers that pass every test of  *)
(* evaluate_support and of the lane and kernel guards, also when a layer   *)
(* was resolved on its first entry instead of at the profile boundary.     *)
(***************************************************************************)
THEOREM QualifiedTheorem == Spec => []OnlyQualifiedLayersServe
<1>1. HostInv => OnlyQualifiedLayersServe
  BY DEF HostInv
<1>2. QED
  BY <1>1, HostInvHolds, PTL

--------------------------------------------------------------------------
(***************************************************************************)
(* The order of what is queued.                                            *)
(***************************************************************************)
LEMMA EarlierIsAnOrder ==
    ASSUME NEW v \in Values, NEW w \in Values
    PROVE  /\ ~Earlier(v, v)
           /\ Earlier(v, w) \/ v = w \/ Earlier(w, v)
           /\ ~(Earlier(v, w) /\ Earlier(w, v))
           /\ \A x \in Values : Earlier(v, w) /\ Earlier(w, x) => Earlier(v, x)
  BY ConstantsType DEF Values, Earlier

LEMMA PlacesAre ==
    ASSUME NEW v
    PROVE  /\ Place(Op("run", "hidden", v)) = 0
           /\ Place(Op("record", "dispatch", v)) = 1
           /\ Place(Op("run", "routed", v)) = 1
           /\ Place(Op("record", "combine", v)) = 1
           /\ Place(Op("wait", "shared", v)) = 2
           /\ Place(Op("run", "use", v)) = 3
           /\ Place(Op("wait", "dispatch", v)) = 4
           /\ Place(Op("run", "part1", v)) = 5
           /\ Place(Op("wait", "combine", v)) = 6
           /\ Place(Op("run", "part2", v)) = 7
           /\ Place(Op("record", "shared", v)) = 8
  BY DEF Place, Op

LEMMA MainOpIs ==
    ASSUME NEW o \in MainOps
    PROVE  /\ o.value \in Values /\ Place(o) \in 0 .. 3
           /\ \/ o = Op("run", "hidden", o.value)
              \/ o = Op("record", "dispatch", o.value)
              \/ o = Op("run", "routed", o.value)
              \/ o = Op("record", "combine", o.value)
              \/ o = Op("wait", "shared", o.value)
              \/ o = Op("run", "use", o.value)
<1>1. PICK v \in Values :
        o \in {Op("run", "hidden", v), Op("record", "dispatch", v), Op("run", "routed", v),
               Op("record", "combine", v), Op("wait", "shared", v), Op("run", "use", v)}
  BY DEF MainOps
<1>2. o.value = v
  BY <1>1 DEF Op
<1>3. QED
  BY <1>1, <1>2, PlacesAre

LEMMA SharedOpIs ==
    ASSUME NEW o \in SharedOps
    PROVE  /\ o.value \in Values /\ Place(o) \in 4 .. 8
           /\ \/ o = Op("wait", "dispatch", o.value)
              \/ o = Op("run", "part1", o.value)
              \/ o = Op("wait", "combine", o.value)
              \/ o = Op("run", "part2", o.value)
              \/ o = Op("record", "shared", o.value)
<1>1. PICK v \in Values :
        o \in {Op("wait", "dispatch", v), Op("run", "part1", v), Op("wait", "combine", v),
               Op("run", "part2", v), Op("record", "shared", v)}
  BY DEF SharedOps
<1>2. o.value = v
  BY <1>1 DEF Op
<1>3. QED
  BY <1>1, <1>2, PlacesAre

LEMMA OpsAreOps ==
    ASSUME NEW v \in Values
    PROVE  /\ {Op("run", "hidden", v), Op("record", "dispatch", v), Op("run", "routed", v),
               Op("record", "combine", v), Op("wait", "shared", v), Op("run", "use", v)}
                \subseteq MainOps
           /\ {Op("wait", "dispatch", v), Op("run", "part1", v), Op("wait", "combine", v),
               Op("run", "part2", v), Op("record", "shared", v)} \subseteq SharedOps
  BY DEF MainOps, SharedOps

\* What two operations of one layer have to satisfy.
LEMMA PrecedesByPlace ==
    ASSUME NEW v, NEW o, NEW p, o.value = v, p.value = v,
           Place(o) \in Nat, Place(p) \in Nat,
           Place(o) < Place(p) \/ (Place(o) = 1 /\ Place(p) = 1)
    PROVE  Precedes(o, p)
  BY DEF Precedes

LEMMA PrecedesMeans ==
    ASSUME NEW o, NEW p, Precedes(o, p), o.value \in Values, p.value \in Values,
           Place(o) \in Nat, Place(p) \in Nat
    PROVE  /\ o.value = p.value \/ Earlier(o.value, p.value)
           /\ o.value = p.value => Place(o) <= Place(p)
           /\ o.value = p.value /\ Place(o) # 1 => Place(o) < Place(p)
<1>1. ~Earlier(o.value, o.value)
  BY EarlierIsAnOrder
<1>2. CASE Earlier(o.value, p.value)
  BY <1>1, <1>2
<1>3. CASE o.value = p.value /\ Place(o) < Place(p)
  BY <1>3
<1>4. CASE o.value = p.value /\ {Place(o), Place(p)} = {1}
  BY <1>4
<1>5. QED
  BY <1>2, <1>3, <1>4 DEF Precedes

(***************************************************************************)
(* Queues.                                                                 *)
(***************************************************************************)
LEMMA HeadOfQueue ==
    ASSUME NEW S, NEW q \in Seq(S), q # <<>>
    PROVE  /\ Head(q) \in S /\ Tail(q) \in Seq(S)
           /\ Range(q) = {Head(q)} \cup Range(Tail(q))
           /\ Ordered(q) => /\ Ordered(Tail(q))
                            /\ \A p \in Range(Tail(q)) : Precedes(Head(q), p)
<1>1. /\ Head(q) \in S /\ Tail(q) \in Seq(S) /\ Len(Tail(q)) = Len(q) - 1
      /\ Len(q) \in Nat \ {0} /\ DOMAIN q = 1 .. Len(q)
      /\ DOMAIN Tail(q) = 1 .. (Len(q) - 1)
      /\ \A i \in 1 .. (Len(q) - 1) : Tail(q)[i] = q[i + 1]
  BY HeadTailProperties, LenProperties, EmptySeq
<1>2. Head(q) = q[1]
  OBVIOUS
<1>3. Range(q) = {Head(q)} \cup Range(Tail(q))
  <2>1. ASSUME NEW i \in DOMAIN q PROVE q[i] = Head(q) \/ q[i] \in Range(Tail(q))
    <3>1. CASE i = 1
      BY <1>2, <3>1
    <3>2. CASE i # 1
      <4>1. i - 1 \in DOMAIN Tail(q) /\ Tail(q)[i - 1] = q[i]
        BY <1>1, <3>2
      <4>2. QED
        BY <4>1 DEF Range
    <3>3. QED
      BY <3>1, <3>2
  <2>2. Head(q) \in Range(q)
    BY <1>1, <1>2 DEF Range
  <2>3. ASSUME NEW i \in DOMAIN Tail(q) PROVE Tail(q)[i] \in Range(q)
    <3>1. i + 1 \in DOMAIN q
      BY <1>1
    <3>2. QED
      BY <1>1, <3>1 DEF Range
  <2>4. QED
    BY <2>1, <2>2, <2>3 DEF Range
<1>4. ASSUME Ordered(q) PROVE Ordered(Tail(q))
  <2> SUFFICES ASSUME NEW i \in DOMAIN Tail(q), NEW j \in DOMAIN Tail(q), i < j
               PROVE  Precedes(Tail(q)[i], Tail(q)[j])
    BY DEF Ordered
  <2>1. i + 1 \in DOMAIN q /\ j + 1 \in DOMAIN q /\ i + 1 < j + 1
    BY <1>1
  <2>2. QED
    BY <1>1, <1>4, <2>1 DEF Ordered
<1>5. ASSUME Ordered(q), NEW i \in DOMAIN Tail(q) PROVE Precedes(Head(q), Tail(q)[i])
  <2>1. i + 1 \in DOMAIN q /\ 1 \in DOMAIN q /\ 1 < i + 1
    BY <1>1
  <2>2. QED
    BY <1>1, <1>2, <1>5, <2>1 DEF Ordered
<1>6. QED
  BY <1>1, <1>3, <1>4, <1>5 DEF Range

LEMMA QueuedBehind ==
    ASSUME NEW S, NEW q \in Seq(S), NEW r \in Seq(S)
    PROVE  /\ q \o r \in Seq(S) /\ Range(q \o r) = Range(q) \cup Range(r)
           /\ Ordered(q) /\ Ordered(r) /\ (\A o \in Range(q), p \in Range(r) : Precedes(o, p))
                => Ordered(q \o r)
<1>1. /\ q \o r \in Seq(S) /\ Len(q) \in Nat /\ Len(r) \in Nat
      /\ DOMAIN q = 1 .. Len(q) /\ DOMAIN r = 1 .. Len(r)
      /\ DOMAIN (q \o r) = 1 .. (Len(q) + Len(r))
      /\ \A i \in 1 .. (Len(q) + Len(r)) :
           (q \o r)[i] = IF i <= Len(q) THEN q[i] ELSE r[i - Len(q)]
  BY ConcatProperties, LenProperties
<1>2. ASSUME NEW i \in DOMAIN (q \o r)
      PROVE  \/ i \in DOMAIN q /\ (q \o r)[i] = q[i]
             \/ /\ i - Len(q) \in DOMAIN r /\ i > Len(q)
                /\ (q \o r)[i] = r[i - Len(q)]
  BY <1>1
<1>3. Range(q \o r) = Range(q) \cup Range(r)
  <2>1. ASSUME NEW i \in DOMAIN q PROVE q[i] \in Range(q \o r)
    <3>1. i \in DOMAIN (q \o r) /\ (q \o r)[i] = q[i]
      BY <1>1
    <3>2. QED
      BY <3>1 DEF Range
  <2>2. ASSUME NEW i \in DOMAIN r PROVE r[i] \in Range(q \o r)
    <3>1. i + Len(q) \in DOMAIN (q \o r) /\ (q \o r)[i + Len(q)] = r[i]
      BY <1>1
    <3>2. QED
      BY <3>1 DEF Range
  <2>3. QED
    BY <1>2, <2>1, <2>2 DEF Range
<1>4. ASSUME Ordered(q), Ordered(r), \A o \in Range(q), p \in Range(r) : Precedes(o, p)
      PROVE  Ordered(q \o r)
  <2> SUFFICES ASSUME NEW i \in DOMAIN (q \o r), NEW j \in DOMAIN (q \o r), i < j
               PROVE  Precedes((q \o r)[i], (q \o r)[j])
    BY DEF Ordered
  <2>1. CASE j \in DOMAIN q
    <3>1. i \in DOMAIN q /\ (q \o r)[i] = q[i] /\ (q \o r)[j] = q[j]
      BY <1>1, <2>1
    <3>2. QED
      BY <1>4, <2>1, <3>1 DEF Ordered
  <2>2. CASE j \notin DOMAIN q
    <3>1. j - Len(q) \in DOMAIN r /\ (q \o r)[j] = r[j - Len(q)]
      BY <1>2, <2>2
    <3>2. CASE i \in DOMAIN q
      <4>1. (q \o r)[i] = q[i]
        BY <1>1, <3>2
      <4>2. QED
        BY <1>4, <3>1, <3>2, <4>1 DEF Range
    <3>3. CASE i \notin DOMAIN q
      <4>1. /\ i - Len(q) \in DOMAIN r /\ (q \o r)[i] = r[i - Len(q)]
            /\ i - Len(q) < j - Len(q)
        BY <1>1, <1>2, <3>3
      <4>2. QED
        BY <1>4, <3>1, <4>1 DEF Ordered
    <3>4. QED
      BY <3>2, <3>3
  <2>3. QED
    BY <2>1, <2>2
<1>5. QED
  BY <1>1, <1>3, <1>4

LEMMA ShortQueues ==
    ASSUME NEW S
    PROVE  /\ <<>> \in Seq(S) /\ Range(<<>>) = {} /\ Ordered(<<>>)
           /\ \A a \in S : <<a>> \in Seq(S) /\ Range(<<a>>) = {a} /\ Ordered(<<a>>)
           /\ \A a, b \in S : /\ <<a, b>> \in Seq(S) /\ Range(<<a, b>>) = {a, b}
                              /\ Precedes(a, b) => Ordered(<<a, b>>)
           /\ \A a, b, c \in S :
                /\ <<a, b, c>> \in Seq(S) /\ Range(<<a, b, c>>) = {a, b, c}
                /\ Precedes(a, b) /\ Precedes(a, c) /\ Precedes(b, c)
                     => Ordered(<<a, b, c>>)
<1>1. <<>> \in Seq(S) /\ Range(<<>>) = {} /\ Ordered(<<>>)
  BY DEF Range, Ordered
<1>2. ASSUME NEW a \in S
      PROVE  <<a>> \in Seq(S) /\ Range(<<a>>) = {a} /\ Ordered(<<a>>)
  <2>1. DOMAIN <<a>> = {1} /\ <<a>>[1] = a
    OBVIOUS
  <2>2. Range(<<a>>) = {a} /\ Ordered(<<a>>)
    BY <2>1 DEF Range, Ordered
  <2>3. QED
    BY <2>2
<1>3. ASSUME NEW a \in S, NEW b \in S
      PROVE  /\ <<a, b>> \in Seq(S) /\ Range(<<a, b>>) = {a, b}
             /\ Precedes(a, b) => Ordered(<<a, b>>)
  <2>1. DOMAIN <<a, b>> = {1, 2} /\ <<a, b>>[1] = a /\ <<a, b>>[2] = b
    OBVIOUS
  <2>2. Range(<<a, b>>) = {a, b}
    BY <2>1 DEF Range
  <2>3. Precedes(a, b) => Ordered(<<a, b>>)
    BY <2>1 DEF Ordered
  <2>4. QED
    BY <2>2, <2>3
<1>4. ASSUME NEW a \in S, NEW b \in S, NEW c \in S
      PROVE  /\ <<a, b, c>> \in Seq(S) /\ Range(<<a, b, c>>) = {a, b, c}
             /\ Precedes(a, b) /\ Precedes(a, c) /\ Precedes(b, c)
                  => Ordered(<<a, b, c>>)
  <2>1. /\ DOMAIN <<a, b, c>> = {1, 2, 3}
        /\ <<a, b, c>>[1] = a /\ <<a, b, c>>[2] = b /\ <<a, b, c>>[3] = c
    OBVIOUS
  <2>2. Range(<<a, b, c>>) = {a, b, c}
    BY <2>1 DEF Range
  <2>3. Precedes(a, b) /\ Precedes(a, c) /\ Precedes(b, c) => Ordered(<<a, b, c>>)
    BY <2>1 DEF Ordered
  <2>4. QED
    BY <2>2, <2>3
<1>5. QED
  BY <1>1, <1>2, <1>3, <1>4

(***************************************************************************)
(* The schedules of one layer.                                             *)
(***************************************************************************)
LEMMA ValueType == TypeOK => Value \in Values
  BY ConstantsType DEF TypeOK, Value, Values, Layers, Current

RoutedOps == {Op("run", "routed", Value), Op("record", "combine", Value)}

LEMMA SchedulesOfALayer ==
    ASSUME TypeOK
    PROVE  /\ LET q == <<Run("hidden")>> IN
                q \in Seq(MainOps) /\ Ordered(q) /\ Range(q) = {Op("run", "hidden", Value)}
           /\ LET q == <<Run("routed"), Record("combine")>> IN
                q \in Seq(MainOps) /\ Ordered(q) /\ Range(q) = RoutedOps
           /\ LET q == <<Record("dispatch")>> IN
                q \in Seq(MainOps) /\ Ordered(q) /\ Range(q) = {Op("record", "dispatch", Value)}
           /\ /\ Join \in Seq(MainOps) /\ Ordered(Join)
              /\ Range(Join) = {Op("wait", "shared", Value), Op("run", "use", Value)}
           /\ /\ Launch \in Seq(SharedOps) /\ Ordered(Launch)
              /\ Range(Launch) = {Op("wait", "dispatch", Value), Op("run", "part1", Value)}
           /\ \A combine \in BOOLEAN :
                /\ SecondHalf(combine) \in Seq(SharedOps) /\ Ordered(SecondHalf(combine))
                /\ Op("run", "part2", Value) \in Range(SecondHalf(combine))
                /\ Range(SecondHalf(combine)) \subseteq
                     {Op("wait", "combine", Value), Op("run", "part2", Value)}
           /\ LET q == <<Record("shared")>> IN
                q \in Seq(SharedOps) /\ Ordered(q) /\ Range(q) = {Op("record", "shared", Value)}
<1> DEFINE v == Value
<1>1. v \in Values
  BY ValueType
<1>2. /\ Run("hidden") = Op("run", "hidden", v) /\ Run("routed") = Op("run", "routed", v)
      /\ Run("use") = Op("run", "use", v) /\ Run("part1") = Op("run", "part1", v)
      /\ Run("part2") = Op("run", "part2", v)
      /\ Record("dispatch") = Op("record", "dispatch", v)
      /\ Record("combine") = Op("record", "combine", v)
      /\ Record("shared") = Op("record", "shared", v)
      /\ WaitFor("dispatch") = Op("wait", "dispatch", v)
      /\ WaitFor("combine") = Op("wait", "combine", v)
      /\ WaitFor("shared") = Op("wait", "shared", v)
  BY DEF Run, Record, WaitFor, Op
<1>3. /\ {Op("run", "hidden", v), Op("record", "dispatch", v), Op("run", "routed", v),
          Op("record", "combine", v), Op("wait", "shared", v), Op("run", "use", v)}
            \subseteq MainOps
      /\ {Op("wait", "dispatch", v), Op("run", "part1", v), Op("wait", "combine", v),
          Op("run", "part2", v), Op("record", "shared", v)} \subseteq SharedOps
  BY <1>1, OpsAreOps
<1>4. \A op, what : Op(op, what, v).value = v
  BY DEF Op
<1>5. /\ Precedes(Op("run", "routed", v), Op("record", "combine", v))
      /\ Precedes(Op("wait", "shared", v), Op("run", "use", v))
      /\ Precedes(Op("wait", "dispatch", v), Op("run", "part1", v))
      /\ Precedes(Op("wait", "combine", v), Op("run", "part2", v))
  BY <1>4, PlacesAre DEF Precedes
<1> HIDE DEF v
<1>6. /\ LET q == <<Run("hidden")>> IN
           q \in Seq(MainOps) /\ Ordered(q) /\ Range(q) = {Op("run", "hidden", v)}
      /\ LET q == <<Record("dispatch")>> IN
           q \in Seq(MainOps) /\ Ordered(q) /\ Range(q) = {Op("record", "dispatch", v)}
      /\ LET q == <<Record("shared")>> IN
           q \in Seq(SharedOps) /\ Ordered(q) /\ Range(q) = {Op("record", "shared", v)}
  BY <1>2, <1>3, ShortQueues
<1>7. LET q == <<Run("routed"), Record("combine")>> IN
           /\ q \in Seq(MainOps) /\ Ordered(q)
           /\ Range(q) = {Op("run", "routed", v), Op("record", "combine", v)}
  BY <1>2, <1>3, <1>5, ShortQueues
<1>8. /\ Join \in Seq(MainOps) /\ Ordered(Join)
      /\ Range(Join) = {Op("wait", "shared", v), Op("run", "use", v)}
  <2>1. Join = <<Op("wait", "shared", v), Op("run", "use", v)>>
    BY <1>2 DEF Join
  <2>2. QED
    BY <1>3, <1>5, <2>1, ShortQueues
<1>9. /\ Launch \in Seq(SharedOps) /\ Ordered(Launch)
      /\ Range(Launch) = {Op("wait", "dispatch", v), Op("run", "part1", v)}
  <2>1. Launch = <<Op("wait", "dispatch", v), Op("run", "part1", v)>>
    BY <1>2 DEF Launch
  <2>2. QED
    BY <1>3, <1>5, <2>1, ShortQueues
<1>10. ASSUME NEW combine \in BOOLEAN
       PROVE  /\ SecondHalf(combine) \in Seq(SharedOps) /\ Ordered(SecondHalf(combine))
              /\ Op("run", "part2", v) \in Range(SecondHalf(combine))
              /\ Range(SecondHalf(combine)) \subseteq
                   {Op("wait", "combine", v), Op("run", "part2", v)}
  <2> DEFINE head == IF combine THEN <<WaitFor("combine")>> ELSE <<>>
             rest == <<Run("part2")>>
  <2>1. rest \in Seq(SharedOps) /\ Ordered(rest) /\ Range(rest) = {Op("run", "part2", v)}
    BY <1>2, <1>3, ShortQueues
  <2>2. /\ head \in Seq(SharedOps) /\ Ordered(head)
        /\ Range(head) \subseteq {Op("wait", "combine", v)}
    <3>1. CASE combine
      BY <1>2, <1>3, <3>1, ShortQueues
    <3>2. CASE ~combine
      BY <3>2, ShortQueues
    <3>3. QED
      BY <3>1, <3>2
  <2>3. SecondHalf(combine) = head \o rest
    BY DEF SecondHalf
  <2> HIDE DEF head, rest
  <2>4. \A o \in Range(head), p \in Range(rest) : Precedes(o, p)
    BY <1>5, <2>1, <2>2
  <2>5. /\ head \o rest \in Seq(SharedOps) /\ Ordered(head \o rest)
        /\ Range(head \o rest) = Range(head) \cup Range(rest)
    BY <2>1, <2>2, <2>4, QueuedBehind
  <2>6. QED
    BY <2>1, <2>2, <2>3, <2>5
<1>11. QED
  BY <1>6, <1>7, <1>8, <1>9, <1>10 DEF v, RoutedOps

--------------------------------------------------------------------------
(***************************************************************************)
(* The host queues, and the layers whose output is awaited are earlier.    *)
(***************************************************************************)
LEMMA AwaitedIsEarlier ==
    ASSUME TypeOK, StreamInv, NEW v \in Values, Awaited(v), pc \in BeforeHidden \cup Inside
    PROVE  Earlier(v, Value)
<1> DEFINE o == Op("run", "use", v)
<1>1. o \in Main /\ o.value = v /\ o.what = "use" /\ Place(o) = 3
  BY PlacesAre DEF Awaited, Op
<1>2. ~Earlier(Value, v)
  BY <1>1 DEF StreamInv, HostIsAhead
<1>3. v # Value
  <2> SUFFICES ASSUME o.value = Value PROVE FALSE
    BY <1>1
  <2>1. CASE pc \in BeforeHidden
    BY <1>1, <2>1 DEF StreamInv, HostIsAhead
  <2>2. CASE pc \in Inside
    BY <1>1, <2>2 DEF StreamInv, HostIsAhead
  <2>3. QED
    BY <2>1, <2>2
<1>4. QED
  BY <1>2, <1>3, ValueType, EarlierIsAnOrder

(***************************************************************************)
(* Operations of the layer in hand are queued behind all others.           *)
(***************************************************************************)
LEMMA Enqueued ==
    ASSUME TypeOK, StreamInv, pc \in BeforeHidden \cup Inside,
           NEW newMain \in SUBSET MainOps, NEW newShared \in SUBSET SharedOps,
           Main' = Main \cup newMain, Shared' = Shared \cup newShared,
           \A o \in newMain \cup newShared : o.value = Value,
           device' = device,
           StreamTypes', Ordered(queue.main)', Ordered(queue.shared)',
           HostIsAhead', OverlapInv',
           Op("run", "hidden", Value) \in newMain => overlap.layer = 0,
           Op("run", "part1", Value) \in newShared => ~overlap.launched,
           Op("run", "part2", Value) \in newShared => ~overlap.finished,
           \A v \in Values : Recorded("dispatch", v) =>
               \A o \in newMain : Precedes(Op("record", "dispatch", v), o),
           \A v \in Values : Recorded("shared", v) =>
               \A o \in newShared : Precedes(Op("record", "shared", v), o),
           \A o \in newShared : o.what # "dispatch" =>
               Op("wait", "dispatch", Value) \in Shared' \/ Recorded("dispatch", Value),
           Op("run", "use", Value) \in newMain =>
               Op("wait", "shared", Value) \in newMain,
           overlap'.launched =>
               /\ Value' = Value
               /\ overlap.launched \/ Op("wait", "dispatch", Value) \in newShared,
           \A v \in Values :
             /\ Wanted(v)' => Wanted(v) \/ (v = Value /\ Op("run", "hidden", v) \in newMain)
             /\ Started(v)' => Started(v) \/ (v = Value /\ Op("run", "part1", v) \in newShared)
             /\ Finished(v)' => Finished(v) \/ (v = Value /\ Op("run", "part2", v) \in newShared)
    PROVE  StreamInv'
<1> DEFINE V == Value
<1>v. V \in Values
  BY ValueType
<1>a. \A v \in Values : Awaited(v) => Earlier(v, V)
  BY AwaitedIsEarlier
<1>r. \A event, v : Recorded(event, v)' = Recorded(event, v)
  BY DEF Recorded
<1>n. \A op, what : \A v \in Values :
        Op(op, what, v) \in newMain \cup newShared => v = V
  BY DEF Op
<1> HIDE DEF V
<1>1. EventsAreBehind'
  BY <1>r DEF StreamInv, EventsAreBehind
<1>2. WaitsAreQueued'
  <2>1. ASSUME NEW o \in Shared', o.what # "dispatch"
        PROVE  Op("wait", "dispatch", o.value) \in Shared' \/ Recorded("dispatch", o.value)'
    BY <1>r, <2>1 DEF StreamInv, WaitsAreQueued
  <2>2. ASSUME NEW o \in Main', o.what = "use"
        PROVE  Op("wait", "shared", o.value) \in Main' \/ Recorded("shared", o.value)'
    <3>1. CASE o \in Main
      BY <1>r, <2>2, <3>1 DEF StreamInv, WaitsAreQueued
    <3>2. CASE o \in newMain
      <4>1. o.value = Value /\ o = Op("run", "use", Value)
        BY <2>2, <3>2, MainOpIs DEF Op
      <4>2. QED
        BY <3>2, <4>1
    <3>3. QED
      BY <3>1, <3>2
  <2>3. ASSUME overlap'.launched
        PROVE  Op("wait", "dispatch", Value') \in Shared' \/ Recorded("dispatch", Value)'
    <3>1. Value' = Value /\ device' = device
      BY <2>3
    <3>2. Op("wait", "dispatch", Value) \in Shared' \/ Recorded("dispatch", Value)
      BY <2>3 DEF StreamInv, WaitsAreQueued
    <3>3. QED
      BY <3>1, <3>2 DEF Recorded
  <2>4. QED
    BY <2>1, <2>2, <2>3 DEF WaitsAreQueued
<1>3. HiddenIsKept'
  <2> SUFFICES ASSUME NEW v \in Values, Wanted(v)'
               PROVE  \/ Op("run", "hidden", v) \in Main'
                      \/ /\ device.hidden = v
                         /\ \A w \in Values : Op("run", "hidden", w) \in Main' => Earlier(v, w)
    BY DEF HiddenIsKept
  <2>1. CASE v = V /\ Op("run", "hidden", v) \in newMain
    BY <2>1
  <2>2. CASE Wanted(v)
    <3>1. CASE Op("run", "hidden", v) \in Main
      BY <3>1
    <3>2. CASE /\ device.hidden = v
               /\ \A w \in Values : Op("run", "hidden", w) \in Main => Earlier(v, w)
      <4>1. ASSUME NEW w \in Values, Op("run", "hidden", w) \in newMain
            PROVE  Earlier(v, w)
        <5>1. w = V /\ overlap.layer = 0
          BY <1>n, <4>1 DEF V
        <5>2. QED
          BY <1>a, <2>2, <5>1 DEF Wanted
      <4>2. QED
        BY <3>2, <4>1
    <3>3. QED
      BY <2>2, <3>1, <3>2 DEF StreamInv, HiddenIsKept
  <2>3. QED
    BY <2>1, <2>2 DEF V
<1>4. FirstHalfIsKept'
  <2> SUFFICES ASSUME NEW v \in Values, Started(v)'
               PROVE  \/ Op("run", "part1", v) \in Shared'
                      \/ /\ device.part1 = v
                         /\ \A w \in Values : Op("run", "part1", w) \in Shared' => Earlier(v, w)
    BY DEF FirstHalfIsKept
  <2>1. CASE v = V /\ Op("run", "part1", v) \in newShared
    BY <2>1
  <2>2. CASE Started(v)
    <3>1. CASE Op("run", "part1", v) \in Shared
      BY <3>1
    <3>2. CASE /\ device.part1 = v
               /\ \A w \in Values : Op("run", "part1", w) \in Shared => Earlier(v, w)
      <4>1. ASSUME NEW w \in Values, Op("run", "part1", w) \in newShared
            PROVE  Earlier(v, w)
        <5>1. w = V /\ ~overlap.launched
          BY <1>n, <4>1 DEF V
        <5>2. QED
          BY <1>a, <2>2, <5>1 DEF Started
      <4>2. QED
        BY <3>2, <4>1
    <3>3. QED
      BY <2>2, <3>1, <3>2 DEF StreamInv, FirstHalfIsKept
  <2>3. QED
    BY <2>1, <2>2 DEF V
<1>5. OutputIsKept'
  <2> SUFFICES ASSUME NEW v \in Values, Finished(v)'
               PROVE  \/ Op("run", "part2", v) \in Shared'
                      \/ /\ device.output = v
                         /\ \A w \in Values : Op("run", "part2", w) \in Shared' => Earlier(v, w)
    BY DEF OutputIsKept
  <2>1. CASE v = V /\ Op("run", "part2", v) \in newShared
    BY <2>1
  <2>2. CASE Finished(v)
    <3>1. CASE Op("run", "part2", v) \in Shared
      BY <3>1
    <3>2. CASE /\ device.output = v
               /\ \A w \in Values : Op("run", "part2", w) \in Shared => Earlier(v, w)
      <4>1. ASSUME NEW w \in Values, Op("run", "part2", w) \in newShared
            PROVE  Earlier(v, w)
        <5>1. w = V /\ ~overlap.finished
          BY <1>n, <4>1 DEF V
        <5>2. QED
          BY <1>a, <2>2, <5>1 DEF Finished
      <4>2. QED
        BY <3>2, <4>1
    <3>3. QED
      BY <2>2, <3>1, <3>2 DEF StreamInv, OutputIsKept
  <2>3. QED
    BY <2>1, <2>2 DEF V
<1>6. SharedOutputsAreComplete'
  BY DEF StreamInv, SharedOutputsAreComplete
<1>7. QED
  BY <1>1, <1>2, <1>3, <1>4, <1>5, <1>6 DEF StreamInv

--------------------------------------------------------------------------
(***************************************************************************)
(* Steps of the host that queue nothing.                                   *)
(***************************************************************************)
LEMMA Untouched ==
    ASSUME StreamInv, UNCHANGED <<queue, device>>, HostIsAhead', OverlapInv',
           \A v \in Values : /\ Wanted(v)' => Wanted(v)
                             /\ Started(v)' => Started(v)
                             /\ Finished(v)' => Finished(v),
           overlap'.launched => overlap.launched /\ Value' = Value
    PROVE  StreamInv'
<1> USE DEF StreamInv
<1>1. Main' = Main /\ Shared' = Shared
  BY DEF Main, Shared
<1>2. \A event, v : Recorded(event, v)' = Recorded(event, v)
  BY DEF Recorded
<1>4. StreamTypes' /\ Ordered(queue.main)' /\ Ordered(queue.shared)'
  BY DEF StreamTypes, Ordered
<1>5. EventsAreBehind' /\ WaitsAreQueued'
  BY <1>1, <1>2 DEF EventsAreBehind, WaitsAreQueued
<1>6. HiddenIsKept' /\ FirstHalfIsKept' /\ OutputIsKept'
  BY <1>1 DEF HiddenIsKept, FirstHalfIsKept, OutputIsKept
<1>7. SharedOutputsAreComplete'
  BY DEF SharedOutputsAreComplete
<1>8. QED
  BY <1>4, <1>5, <1>6, <1>7

\* How far the host is with a layer: not begun, under way, done.
Progress(piece) ==
    IF piece \in BeforeHidden THEN 0 ELSE IF piece \in Inside THEN 1 ELSE 2

LEMMA WantedShrinks ==
    ASSUME UNCHANGED queue,
           \/ overlap' = overlap /\ Value' = Value
           \/ overlap' = NoOverlap
    PROVE  \A v : /\ Wanted(v)' => Wanted(v)
                  /\ Started(v)' => Started(v)
                  /\ Finished(v)' => Finished(v)
<1>1. \A v : Awaited(v)' = Awaited(v)
  BY DEF Awaited, Main
<1>2. /\ NoOverlap.layer = 0 /\ NoOverlap.launched = FALSE
      /\ NoOverlap.finished = FALSE
  BY DEF NoOverlap
<1>3. CASE overlap' = overlap /\ Value' = Value
  BY <1>1, <1>3 DEF Wanted, Started, Finished
<1>4. CASE overlap' = NoOverlap
  BY <1>1, <1>2, <1>4 DEF Wanted, Started, Finished
<1>5. QED
  BY <1>3, <1>4

\* The host goes on with its layer.
LEMMA SameLayer ==
    ASSUME TypeOK, StreamInv, UNCHANGED <<queue, device>>, Value' = Value,
           pc \in Pieces, pc' \in Pieces, Progress(pc) <= Progress(pc'),
           overlap' = overlap \/ (overlap' = NoOverlap /\ pc' \notin Inside),
           OverlapInv'
    PROVE  StreamInv'
<1>1. Main' = Main /\ Shared' = Shared
  BY DEF Main, Shared
<1>2. /\ pc' \in BeforeHidden => pc \in BeforeHidden
      /\ pc' \in Inside => pc \in BeforeHidden \cup Inside /\ overlap' = overlap
  BY DEF Progress, Pieces, BeforeRouter, InSeam, Injecting, Inside, BeforeHidden
<1>3. HostIsAhead'
  BY <1>1, <1>2 DEF StreamInv, HostIsAhead
<1>4. overlap'.launched => overlap.launched
  BY DEF NoOverlap
<1>5. QED
  BY <1>3, <1>4, WantedShrinks, Untouched

\* The host takes up another layer.
LEMMA NextLayer ==
    ASSUME TypeOK, StreamInv, UNCHANGED <<queue, device>>, Value' \in Values,
           Earlier(Value, Value'), overlap' = NoOverlap
    PROVE  StreamInv'
<1>1. Main' = Main /\ Shared' = Shared
  BY DEF Main, Shared
<1>2. \A o \in Main \cup Shared : o.value \in Values /\ ~Earlier(Value, o.value)
  BY MainOpIs, SharedOpIs, RangeOfSeq DEF StreamInv, StreamTypes, HostIsAhead, Main, Shared
<1>3. \A e \in device.events : e[2] \in Values /\ ~Earlier(Value, e[2])
  BY DEF StreamInv, StreamTypes, HostIsAhead
<1>4. \A v \in Values : ~Earlier(Value, v) => ~Earlier(Value', v) /\ v # Value'
  BY ValueType, EarlierIsAnOrder
<1>5. HostIsAhead'
  BY <1>1, <1>2, <1>3, <1>4 DEF HostIsAhead
<1>6. OverlapInv'
  BY DEF OverlapInv, NoOverlap
<1>7. overlap'.launched = FALSE
  BY DEF NoOverlap
<1>8. QED
  BY <1>5, <1>6, <1>7, WantedShrinks, Untouched

\* The boot, the entry of the layer and the routing queue nothing.
LEMMA QuietActions ==
    ASSUME HostInv, StreamInv,
           \/ Register \/ DeviceModuleLoads \/ AdaptPatch \/ Build
           \/ ResolveAtEntry \/ EnterRefused \/ Enter
           \/ Route \/ Stage \/ Select \/ SplitKernel \/ RoutedWaves \/ RaiseEarly
    PROVE  StreamInv'
<1>1. TypeOK /\ pc \in Pieces
  BY DEF HostInv, BuildInv
<1>2. UNCHANGED <<queue, device, overlap>>
  BY DEF Register, DeviceModuleLoads, AdaptPatch, Build, ResolveAtEntry, EnterRefused,
     Enter, Route, Stage, Select, SplitKernel, RoutedWaves, RaiseEarly, streamVars
<1>3. Value' = Value
  <2>1. CASE Enter
    <3>1. forward' = [forward EXCEPT !.index = IF model.sentinel THEN Current ELSE 0]
      BY <2>1, SentinelNamesThisLayer DEF Enter
    <3>2. QED
      BY <1>1, <3>1 DEF Value, Current, TypeOK
  <2>2. CASE ~Enter
    BY <2>2 DEF Register, DeviceModuleLoads, AdaptPatch, Build, ResolveAtEntry,
       EnterRefused, Route, Stage, Select, SplitKernel, RoutedWaves, RaiseEarly,
       Value, Current
  <2>3. QED
    BY <2>1, <2>2
<1>4. /\ pc' \in Pieces
      /\ Progress(pc) <= Progress(pc')
      /\ pc \in Inside => pc' \in Inside
  BY DEF Register, DeviceModuleLoads, AdaptPatch, Build, ResolveAtEntry, EnterRefused,
     Enter, Route, Stage, Select, SplitKernel, RoutedWaves, RaiseEarly, Progress,
     Pieces, BeforeRouter, InSeam, Injecting, Inside, BeforeHidden
<1>5. OverlapInv'
  BY <1>2, <1>4 DEF StreamInv, OverlapInv
<1>6. QED
  BY <1>1, <1>2, <1>3, <1>4, <1>5, SameLayer

\* A layer that raises leaves its operations in the queues; nobody will use them.
LEMMA RaiseKeepsStreams == HostInv /\ StreamInv /\ Raise => StreamInv'
<1> SUFFICES ASSUME HostInv, StreamInv, Raise PROVE StreamInv'
  OBVIOUS
<1>1. /\ TypeOK /\ pc \in Pieces /\ pc' \in Pieces /\ pc' \notin Inside
      /\ Progress(pc) <= Progress(pc') /\ Value' = Value
      /\ UNCHANGED <<queue, device>> /\ overlap' = NoOverlap
  BY DEF HostInv, BuildInv, Raise, Pieces, BeforeRouter, InSeam, Injecting, Inside,
     BeforeHidden, Progress, Value, Current
<1>2. OverlapInv'
  BY <1>1 DEF OverlapInv, NoOverlap
<1>3. QED
  BY <1>1, <1>2, SameLayer

LEMMA BeginForwardKeepsStreams == HostInv /\ StreamInv /\ BeginForward => StreamInv'
<1> SUFFICES ASSUME HostInv, StreamInv, BeginForward PROVE StreamInv'
  OBVIOUS
<1>1. /\ TypeOK /\ pc = "idle" /\ UNCHANGED <<queue, device, overlap>>
      /\ \/ pc' = "refused" /\ UNCHANGED forward
         \/ forward'.n = forward.n + 1 /\ forward'.layer = 1
  BY DEF HostInv, BeginForward, streamVars
<1>2. overlap = NoOverlap
  BY <1>1 DEF StreamInv, OverlapInv, Injecting, Inside, NoOverlap, TypeOK
<1>3. CASE pc' = "refused" /\ UNCHANGED forward
  <2>1. Value' = Value /\ OverlapInv'
    BY <1>1, <1>2, <1>3 DEF Value, Current, OverlapInv, NoOverlap
  <2>2. pc \in Pieces /\ pc' \in Pieces /\ Progress(pc) <= Progress(pc')
    BY <1>1, <1>3 DEF Pieces, BeforeRouter, Progress, Injecting, Inside, BeforeHidden
  <2>3. QED
    BY <1>1, <2>1, <2>2, SameLayer
<1>4. CASE forward'.n = forward.n + 1 /\ forward'.layer = 1
  <2>1. TypeOK'
    BY HostNext DEF HostInv, Next
  <2>2. Value' \in Values
    BY <2>1, ValueType, ConstantsType DEF TypeOK, Value, Values, Current, Layers
  <2>3. Earlier(Value, Value')
    BY <1>1, <1>4 DEF Earlier, Value, TypeOK
  <2>4. QED
    BY <1>1, <1>2, <2>2, <2>3, NextLayer
<1>5. QED
  BY <1>1, <1>3, <1>4

--------------------------------------------------------------------------
(***************************************************************************)
(* Steps of the host that queue operations of its layer.                   *)
(***************************************************************************)
\* What is queued of other layers precedes what this one queues.
LEMMA OthersPrecede ==
    ASSUME TypeOK, StreamInv
    PROVE  /\ \A o \in Main : o \in MainOps /\ o.value \in Values
           /\ \A o \in Shared : o \in SharedOps /\ o.value \in Values
           /\ \A o \in Main \cup Shared : \A p :
                p.value = Value /\ o.value # Value => Precedes(o, p)
           /\ \A v \in Values : \A event, p :
                Recorded(event, v) /\ p.value = Value /\ v # Value =>
                    Precedes(Op("record", event, v), p)
<1>1. /\ \A o \in Main : o \in MainOps /\ o.value \in Values
      /\ \A o \in Shared : o \in SharedOps /\ o.value \in Values
  BY MainOpIs, SharedOpIs, RangeOfSeq DEF StreamInv, StreamTypes, Main, Shared
<1>2. ASSUME NEW v \in Values, ~Earlier(Value, v), v # Value PROVE Earlier(v, Value)
  BY <1>2, ValueType, EarlierIsAnOrder
<1>3. ASSUME NEW o \in Main \cup Shared, NEW p, p.value = Value, o.value # Value
      PROVE  Precedes(o, p)
  BY <1>1, <1>2, <1>3 DEF StreamInv, HostIsAhead, Precedes
<1>4. ASSUME NEW v \in Values, NEW event, NEW p, Recorded(event, v), p.value = Value,
             v # Value
      PROVE  Precedes(Op("record", event, v), p)
  <2>1. ~Earlier(Value, v)
    BY <1>4 DEF Recorded, StreamInv, HostIsAhead
  <2>2. Op("record", event, v).value = v
    BY DEF Op
  <2>3. QED
    BY <1>2, <1>4, <2>1, <2>2 DEF Precedes
<1>5. QED
  BY <1>1, <1>3, <1>4

\* The queues after the host has put operations of its layer behind them.
LEMMA EnqueuedQueues ==
    ASSUME TypeOK, StreamInv, UNCHANGED device, pc \in BeforeHidden \cup Inside,
           NEW main \in Seq(MainOps), NEW shared \in Seq(SharedOps),
           Enqueue(main, shared), Ordered(main), Ordered(shared),
           \A p \in Range(main) \cup Range(shared) : p.value = Value,
           \A o \in Main, p \in Range(main) : o.value = Value => Precedes(o, p),
           \A o \in Shared, p \in Range(shared) : o.value = Value => Precedes(o, p),
           pc \in Inside => \A p \in Range(main) : Place(p) \in {1, 2, 3}
    PROVE  /\ StreamTypes' /\ Ordered(queue.main)' /\ Ordered(queue.shared)'
           /\ Main' = Main \cup Range(main) /\ Shared' = Shared \cup Range(shared)
           /\ \A v \in Values : Recorded("dispatch", v) =>
                \A o \in Range(main) : Precedes(Op("record", "dispatch", v), o)
           /\ \A v \in Values : Recorded("shared", v) =>
                \A o \in Range(shared) : Precedes(Op("record", "shared", v), o)
<1>1. /\ queue.main \in Seq(MainOps) /\ queue.shared \in Seq(SharedOps)
      /\ Ordered(queue.main) /\ Ordered(queue.shared)
  BY DEF StreamInv, StreamTypes
<1>2. queue' = [main |-> queue.main \o main, shared |-> queue.shared \o shared]
  BY DEF Enqueue
<1>3. /\ \A o \in Range(queue.main), p \in Range(main) : Precedes(o, p)
      /\ \A o \in Range(queue.shared), p \in Range(shared) : Precedes(o, p)
  BY OthersPrecede DEF Main, Shared
<1>4. /\ queue.main \o main \in Seq(MainOps) /\ Ordered(queue.main \o main)
      /\ Range(queue.main \o main) = Main \cup Range(main)
  BY <1>1, <1>3, QueuedBehind DEF Main
<1>5. /\ queue.shared \o shared \in Seq(SharedOps) /\ Ordered(queue.shared \o shared)
      /\ Range(queue.shared \o shared) = Shared \cup Range(shared)
  BY <1>1, <1>3, QueuedBehind DEF Shared
<1>6. queue'.main = queue.main \o main /\ queue'.shared = queue.shared \o shared
  BY <1>2
<1>7. StreamTypes'
  BY <1>2, <1>4, <1>5 DEF StreamInv, StreamTypes
<1>8. ASSUME NEW v \in Values, Recorded("dispatch", v), NEW o \in Range(main)
      PROVE  Precedes(Op("record", "dispatch", v), o)
  <2>1. CASE v # Value
    BY <1>8, <2>1, OthersPrecede
  <2>2. CASE v = Value
    <3>1. pc \in Inside
      BY <1>8, <2>2 DEF StreamInv, HostIsAhead, Recorded
    <3>2. Place(o) \in {1, 2, 3} /\ o.value = v
      BY <2>2, <3>1
    <3>3. /\ Place(Op("record", "dispatch", v)) = 1
          /\ Op("record", "dispatch", v).value = v
      BY PlacesAre DEF Op
    <3>4. QED
      BY <3>2, <3>3, PrecedesByPlace
  <2>3. QED
    BY <2>1, <2>2
<1>9. ASSUME NEW v \in Values, Recorded("shared", v), NEW o \in Range(shared)
      PROVE  Precedes(Op("record", "shared", v), o)
  <2>1. v # Value
    BY <1>9 DEF StreamInv, HostIsAhead, Recorded
  <2>2. QED
    BY <1>9, <2>1, OthersPrecede
<1>10. QED
  BY <1>4, <1>5, <1>6, <1>7, <1>8, <1>9 DEF Main, Shared

\* The host stays inside its layer, ahead of the streams.
LEMMA StillAhead ==
    ASSUME TypeOK, StreamInv, UNCHANGED device, Value' = Value,
           pc \in BeforeHidden \cup Inside, pc' \in Inside,
           NEW newMain, NEW newShared,
           Main' = Main \cup newMain, Shared' = Shared \cup newShared,
           \A p \in newMain : p.value = Value /\ Place(p) \in {0, 1},
           \A p \in newShared :
             /\ p.value = Value
             /\ \/ Place(p) \in {4, 5} /\ overlap'.launched
                \/ Place(p) \in {6, 7} /\ overlap'.finished,
           overlap.launched => overlap'.launched, overlap.finished => overlap'.finished
    PROVE  HostIsAhead'
<1> DEFINE InPlace(o) == \/ Place(o) \in {0, 1}
                         \/ Place(o) \in {4, 5} /\ overlap'.launched
                         \/ Place(o) \in {6, 7} /\ overlap'.finished
<1>1. pc' \notin BeforeHidden
  BY DEF Inside, Injecting, BeforeHidden
<1>2. ~Earlier(Value, Value)
  BY ValueType, EarlierIsAnOrder
<1>3. ASSUME NEW o \in Main \cup Shared
      PROVE  ~Earlier(Value, o.value) /\ (o.value = Value => InPlace(o))
  BY <1>3 DEF StreamInv, HostIsAhead
<1>4. \A o \in newMain \cup newShared : ~Earlier(Value, o.value) /\ InPlace(o)
  BY <1>2
<1>5. \A o \in Main' \cup Shared' :
        ~Earlier(Value, o.value) /\ (o.value = Value => InPlace(o))
  BY <1>3, <1>4
<1>6. \A e \in device.events :
        ~Earlier(Value, e[2]) /\ (e[2] = Value => e[1] # "shared")
  BY DEF StreamInv, HostIsAhead
<1>7. QED
  BY <1>1, <1>5, <1>6 DEF HostIsAhead

\* What of the layer in hand is queued already.
LEMMA QueuedInside ==
    ASSUME TypeOK, StreamInv, pc \in Inside
    PROVE  /\ \A o \in Main : o.value = Value => Place(o) \in {0, 1}
           /\ \A o \in Shared : o.value = Value =>
                \/ Place(o) \in {4, 5} /\ overlap.launched
                \/ Place(o) \in {6, 7} /\ overlap.finished
<1>1. /\ \A o \in Main : Place(o) \in 0 .. 3
      /\ \A o \in Shared : Place(o) \in 4 .. 8
  BY OthersPrecede, MainOpIs, SharedOpIs
<1>2. \A o \in Main \cup Shared : o.value = Value =>
        \/ Place(o) \in {0, 1}
        \/ Place(o) \in {4, 5} /\ overlap.launched
        \/ Place(o) \in {6, 7} /\ overlap.finished
  BY DEF StreamInv, HostIsAhead
<1>3. QED
  BY <1>1, <1>2

LEMMA ValueOfOp == ASSUME TypeOK PROVE \A op, what : Op(op, what, Value).value = Value
  BY DEF Op

\* An overlapped layer begins: its hidden states are queued.
LEMMA BeginOverlapKeepsStreams ==
    ASSUME HostInv, StreamInv, BeginOverlap, Value' = Value,
           pc \in {"mlp", "enter"}, pc' \in {"select", "native"}
    PROVE  StreamInv'
<1>1. /\ TypeOK /\ UNCHANGED device /\ overlap' = NewOverlap /\ Value \in Values
      /\ pc \in BeforeHidden /\ pc' \in Inside
  BY ValueType DEF HostInv, BeginOverlap, BeforeHidden, Inside, Injecting
<1>2. /\ overlap = NoOverlap /\ overlap.layer = 0
      /\ overlap.launched = FALSE /\ overlap.finished = FALSE
  BY <1>1 DEF StreamInv, OverlapInv, Inside, Injecting, BeforeHidden, TypeOK, NoOverlap
<1>3. overlap'.launched = FALSE /\ overlap'.finished = FALSE
  BY <1>1 DEF NewOverlap, NoOverlap
<1>4. OverlapInv'
  BY <1>1, <1>3 DEF OverlapInv
<1>5. CASE NewOverlap = NoOverlap
  <2>1. UNCHANGED queue
    BY <1>5 DEF BeginOverlap
  <2>2. pc \in Pieces /\ pc' \in Pieces /\ Progress(pc) <= Progress(pc')
    BY <1>1 DEF Pieces, BeforeRouter, InSeam, Progress, Inside, Injecting, BeforeHidden
  <2>3. QED
    BY <1>1, <1>2, <1>4, <1>5, <2>1, <2>2, SameLayer
<1>6. CASE NewOverlap # NoOverlap
  <2> DEFINE main == <<Run("hidden")>>
             shared == <<>>
             newMain == Range(main)
             newShared == Range(shared)
  <2>1. Enqueue(main, shared)
    BY <1>6 DEF BeginOverlap
  <2>2. /\ main \in Seq(MainOps) /\ Ordered(main)
        /\ newMain = {Op("run", "hidden", Value)}
        /\ shared \in Seq(SharedOps) /\ Ordered(shared) /\ newShared = {}
    BY <1>1, SchedulesOfALayer, ShortQueues
  <2> HIDE DEF main, shared
  <2>3. \A o \in Main \cup Shared : o.value # Value
    BY <1>1 DEF StreamInv, HostIsAhead
  <2>4. /\ \A p \in newMain \cup newShared : p.value = Value
        /\ \A p \in newMain : Place(p) = 0
    BY <1>1, <2>2, ValueOfOp, PlacesAre
  <2>5. pc \notin Inside
    BY DEF Inside, Injecting
  <2>6. /\ StreamTypes' /\ Ordered(queue.main)' /\ Ordered(queue.shared)'
        /\ Main' = Main \cup newMain /\ Shared' = Shared \cup newShared
        /\ \A v \in Values : Recorded("dispatch", v) =>
              \A o \in newMain : Precedes(Op("record", "dispatch", v), o)
        /\ \A v \in Values : Recorded("shared", v) =>
              \A o \in newShared : Precedes(Op("record", "shared", v), o)
    BY <1>1, <2>1, <2>2, <2>3, <2>4, <2>5, EnqueuedQueues
  <2> HIDE DEF newMain, newShared
  <2>7. HostIsAhead'
    <3>1. \A p \in newMain : p.value = Value /\ Place(p) \in {0, 1}
      BY <2>4
    <3>2. \A p : p \notin newShared
      BY <2>2
    <3>3. QED
      BY <1>1, <1>2, <2>6, <3>1, <3>2, StillAhead
  <2>8. \A v \in Values :
          /\ Wanted(v)' => Wanted(v) \/ (v = Value /\ Op("run", "hidden", v) \in newMain)
          /\ Started(v)' => Started(v)
          /\ Finished(v)' => Finished(v)
    <3>1. \A v \in Values : Awaited(v)' => Awaited(v)
      BY <2>2, <2>6 DEF Awaited, Op
    <3>2. QED
      BY <1>3, <2>2, <3>1 DEF Wanted, Started, Finished
  <2>9. /\ newMain \in SUBSET MainOps /\ newShared \in SUBSET SharedOps
        /\ Op("run", "use", Value) \notin newMain
        /\ \A o : o \notin newShared
    BY <1>1, <2>2, OpsAreOps DEF Op
  <2>10. QED
    BY <1>1, <1>2, <1>3, <1>4, <2>4, <2>6, <2>7, <2>8, <2>9, Enqueued
<1>7. QED
  BY <1>5, <1>6

LEMMA MlpKeepsStreams == HostInv /\ StreamInv /\ Mlp => StreamInv'
<1> SUFFICES ASSUME HostInv, StreamInv, Mlp PROVE StreamInv'
  OBVIOUS
<1>1. pc = "mlp" /\ pc' = "select" /\ BeginOverlap /\ Value' = Value
  BY DEF Mlp, Value, Current
<1>2. QED
  BY <1>1, BeginOverlapKeepsStreams

LEMMA EnterNativelyKeepsStreams == HostInv /\ StreamInv /\ EnterNatively => StreamInv'
<1> SUFFICES ASSUME HostInv, StreamInv, EnterNatively PROVE StreamInv'
  OBVIOUS
<1>1. TypeOK /\ pc = "enter" /\ pc' = "native" /\ BeginOverlap /\ forward' = Consumed
  BY DEF HostInv, EnterNatively
<1>2. Value' = Value
  BY <1>1, SentinelNamesThisLayer DEF Value, Current, TypeOK
<1>3. QED
  BY <1>1, <1>2, BeginOverlapKeepsStreams

\* The routed kernel of an overlapped layer, whatever computes it.
LEMMA RoutedKernelKeepsStreams ==
    ASSUME HostInv, StreamInv, RoutedKernel, Value' = Value,
           pc \in Inside, pc' = "leave"
    PROVE  StreamInv'
<1>1. TypeOK /\ UNCHANGED <<overlap, device>> /\ Value \in Values /\ pc' \in Inside
  BY ValueType DEF HostInv, RoutedKernel, Inside, Injecting
<1>2. OverlapInv'
  BY <1>1 DEF StreamInv, OverlapInv
<1>3. CASE overlap.layer = 0
  <2>1. UNCHANGED queue
    BY <1>3 DEF RoutedKernel
  <2>2. pc \in Pieces /\ pc' \in Pieces /\ Progress(pc) <= Progress(pc')
    BY <1>1 DEF HostInv, BuildInv, Pieces, Progress, Inside, Injecting, BeforeHidden
  <2>3. QED
    BY <1>1, <1>2, <2>1, <2>2, SameLayer
<1>4. CASE overlap.layer # 0
  <2> DEFINE main == <<Run("routed"), Record("combine")>>
             shared == <<>>
             newMain == Range(main)
             newShared == Range(shared)
  <2>1. Enqueue(main, shared)
    BY <1>4 DEF RoutedKernel
  <2>2. /\ main \in Seq(MainOps) /\ Ordered(main) /\ newMain = RoutedOps
        /\ shared \in Seq(SharedOps) /\ Ordered(shared) /\ newShared = {}
    BY <1>1, SchedulesOfALayer, ShortQueues
  <2> HIDE DEF main, shared
  <2>3. \A p \in newMain \cup newShared : p.value = Value /\ Place(p) = 1
    BY <1>1, <2>2, ValueOfOp, PlacesAre DEF RoutedOps
  <2>4. \A o \in Main, p \in newMain : o.value = Value => Precedes(o, p)
    BY <1>1, <2>3, QueuedInside, PrecedesByPlace
  <2>5. /\ StreamTypes' /\ Ordered(queue.main)' /\ Ordered(queue.shared)'
        /\ Main' = Main \cup newMain /\ Shared' = Shared \cup newShared
        /\ \A v \in Values : Recorded("dispatch", v) =>
              \A o \in newMain : Precedes(Op("record", "dispatch", v), o)
        /\ \A v \in Values : Recorded("shared", v) =>
              \A o \in newShared : Precedes(Op("record", "shared", v), o)
    BY <1>1, <2>1, <2>2, <2>3, <2>4, EnqueuedQueues
  <2>6. /\ newMain \in SUBSET MainOps /\ newShared \in SUBSET SharedOps
        /\ \A v : Op("run", "hidden", v) \notin newMain
        /\ \A v : Op("run", "use", v) \notin newMain
        /\ \A o : o \notin newShared
    <3>1. newMain \in SUBSET MainOps
      BY <1>1, <2>2, OpsAreOps DEF RoutedOps
    <3>2. \A v : Op("run", "hidden", v) \notin newMain /\ Op("run", "use", v) \notin newMain
      BY <2>3, PlacesAre
    <3>3. QED
      BY <2>2, <3>1, <3>2
  <2> HIDE DEF newMain, newShared
  <2>7. HostIsAhead'
    BY <1>1, <2>3, <2>5, <2>6, StillAhead
  <2>8. \A v \in Values : /\ Wanted(v)' => Wanted(v)
                          /\ Started(v)' => Started(v)
                          /\ Finished(v)' => Finished(v)
    <3>1. \A v \in Values : Awaited(v)' => Awaited(v)
      BY <2>5, <2>6 DEF Awaited
    <3>2. QED
      BY <1>1, <3>1 DEF Wanted, Started, Finished
  <2>9. QED
    BY <1>1, <1>2, <2>3, <2>5, <2>6, <2>7, <2>8, Enqueued
<1>5. QED
  BY <1>3, <1>4

LEMMA KernelsKeepStreams ==
    ASSUME HostInv, StreamInv, NativeKernel \/ WholeKernel \/ FallBack \/ SuffixKernel
    PROVE  StreamInv'
<1>1. RoutedKernel /\ pc \in Inside /\ pc' = "leave" /\ Value' = Value
  BY DEF NativeKernel, WholeKernel, FallBack, SuffixKernel, Inside, Injecting, Value, Current
<1>2. QED
  BY <1>1, RoutedKernelKeepsStreams

\* The first projection is launched.
LEMMA LaunchSharedKeepsStreams == HostInv /\ StreamInv /\ LaunchShared => StreamInv'
<1> SUFFICES ASSUME HostInv, StreamInv, LaunchShared PROVE StreamInv'
  OBVIOUS
<1>1. /\ TypeOK /\ UNCHANGED <<pc, device>> /\ Value \in Values /\ Value' = Value
      /\ pc \in Inside /\ overlap.layer # 0 /\ ~overlap.launched
  BY ValueType DEF HostInv, LaunchShared, Inside, Injecting, Value, Current
<1>2. /\ ~overlap.finished
      /\ overlap'.layer # 0 /\ overlap'.launched /\ overlap'.finished = overlap.finished
  BY <1>1 DEF LaunchShared, StreamInv, OverlapInv, TypeOK
<1>3. OverlapInv'
  BY <1>1, <1>2 DEF OverlapInv
<1> DEFINE main == <<Record("dispatch")>>
           newMain == Range(main)
           newShared == Range(Launch)
<1>4. Enqueue(main, Launch)
  BY DEF LaunchShared
<1>5. /\ main \in Seq(MainOps) /\ Ordered(main) /\ newMain = {Op("record", "dispatch", Value)}
      /\ Launch \in Seq(SharedOps) /\ Ordered(Launch)
      /\ newShared = {Op("wait", "dispatch", Value), Op("run", "part1", Value)}
  BY <1>1, SchedulesOfALayer
<1> HIDE DEF main
<1>6. /\ \A p \in newMain : p.value = Value /\ Place(p) = 1
      /\ \A p \in newShared : p.value = Value /\ Place(p) \in {4, 5}
  BY <1>1, <1>5, ValueOfOp, PlacesAre
<1>7. /\ \A o \in Main, p \in newMain : o.value = Value => Precedes(o, p)
      /\ \A o \in Shared : o.value # Value
  BY <1>1, <1>2, <1>6, QueuedInside, PrecedesByPlace
<1>8. /\ StreamTypes' /\ Ordered(queue.main)' /\ Ordered(queue.shared)'
      /\ Main' = Main \cup newMain /\ Shared' = Shared \cup newShared
      /\ \A v \in Values : Recorded("dispatch", v) =>
            \A o \in newMain : Precedes(Op("record", "dispatch", v), o)
      /\ \A v \in Values : Recorded("shared", v) =>
            \A o \in newShared : Precedes(Op("record", "shared", v), o)
  BY <1>1, <1>4, <1>5, <1>6, <1>7, EnqueuedQueues
<1>9. /\ newMain \in SUBSET MainOps /\ newShared \in SUBSET SharedOps
      /\ \A v : Op("run", "hidden", v) \notin newMain
      /\ \A v : Op("run", "use", v) \notin newMain
      /\ \A v : Op("run", "part2", v) \notin newShared
      /\ Op("wait", "dispatch", Value) \in newShared
      /\ Op("run", "part1", Value) \in newShared
  <2>1. newMain \in SUBSET MainOps /\ newShared \in SUBSET SharedOps
    BY <1>1, <1>5, OpsAreOps
  <2>2. /\ \A v : Op("run", "hidden", v) \notin newMain /\ Op("run", "use", v) \notin newMain
        /\ \A v : Op("run", "part2", v) \notin newShared
    BY <1>6, PlacesAre
  <2>3. QED
    BY <1>5, <2>1, <2>2
<1> HIDE DEF newMain, newShared
<1>10. HostIsAhead'
  BY <1>1, <1>2, <1>6, <1>8, StillAhead
<1>11. \A v \in Values :
         /\ Wanted(v)' => Wanted(v)
         /\ Started(v)' => Started(v) \/ (v = Value /\ Op("run", "part1", v) \in newShared)
         /\ Finished(v)' => Finished(v)
  <2>1. \A v \in Values : Awaited(v)' => Awaited(v)
    BY <1>8, <1>9 DEF Awaited
  <2>2. QED
    BY <1>1, <1>2, <1>9, <2>1 DEF Wanted, Started, Finished
<1>12. QED
  BY <1>1, <1>2, <1>3, <1>6, <1>8, <1>9, <1>10, <1>11, Enqueued

\* The second projection follows the first.
LEMMA FinishSharedKeepsStreams == HostInv /\ StreamInv /\ FinishShared => StreamInv'
<1> SUFFICES ASSUME HostInv, StreamInv, FinishShared PROVE StreamInv'
  OBVIOUS
<1>1. /\ TypeOK /\ UNCHANGED <<pc, device>> /\ Value \in Values /\ Value' = Value
      /\ pc \in Inside /\ overlap.launched /\ ~overlap.finished
  BY ValueType DEF HostInv, FinishShared, Inside, Injecting, Value, Current
<1>2. overlap'.layer = overlap.layer /\ overlap'.launched /\ overlap'.finished
  BY <1>1 DEF FinishShared, TypeOK
<1>3. OverlapInv'
  BY <1>1, <1>2 DEF StreamInv, OverlapInv
<1>4. PICK combine \in BOOLEAN : Enqueue(<<>>, SecondHalf(combine))
  BY DEF FinishShared
<1> DEFINE main == <<>>
           shared == SecondHalf(combine)
           newMain == Range(main)
           newShared == Range(shared)
<1>5. /\ main \in Seq(MainOps) /\ Ordered(main) /\ newMain = {}
      /\ shared \in Seq(SharedOps) /\ Ordered(shared)
      /\ Op("run", "part2", Value) \in newShared
      /\ newShared \subseteq {Op("wait", "combine", Value), Op("run", "part2", Value)}
  BY <1>1, SchedulesOfALayer, ShortQueues
<1>e. Enqueue(main, shared)
  BY <1>4
<1> HIDE DEF main, shared
<1>6. \A p \in newShared : p.value = Value /\ Place(p) \in {6, 7}
  BY <1>1, <1>5, ValueOfOp, PlacesAre
<1>7. \A o \in Shared, p \in newShared : o.value = Value => Precedes(o, p)
  BY <1>1, <1>6, QueuedInside, PrecedesByPlace
<1>8. /\ StreamTypes' /\ Ordered(queue.main)' /\ Ordered(queue.shared)'
      /\ Main' = Main \cup newMain /\ Shared' = Shared \cup newShared
      /\ \A v \in Values : Recorded("dispatch", v) =>
            \A o \in newMain : Precedes(Op("record", "dispatch", v), o)
      /\ \A v \in Values : Recorded("shared", v) =>
            \A o \in newShared : Precedes(Op("record", "shared", v), o)
  BY <1>1, <1>e, <1>5, <1>6, <1>7, EnqueuedQueues
<1>9. /\ newMain \in SUBSET MainOps /\ newShared \in SUBSET SharedOps
      /\ \A o : o \notin newMain
      /\ \A v : Op("run", "part1", v) \notin newShared
  <2>1. newShared \in SUBSET SharedOps
    BY <1>1, <1>5, OpsAreOps
  <2>2. \A v : Op("run", "part1", v) \notin newShared
    BY <1>6, PlacesAre
  <2>3. QED
    BY <1>5, <2>1, <2>2
<1> HIDE DEF newMain, newShared
<1>10. HostIsAhead'
  BY <1>1, <1>2, <1>6, <1>8, <1>9, StillAhead
<1>11. \A v \in Values :
         /\ Wanted(v)' => Wanted(v)
         /\ Started(v)' => Started(v)
         /\ Finished(v)' => Finished(v) \/ (v = Value /\ Op("run", "part2", v) \in newShared)
  <2>1. \A v \in Values : Awaited(v)' => Awaited(v)
    BY <1>8, <1>9 DEF Awaited
  <2>2. QED
    BY <1>1, <1>2, <1>5, <2>1 DEF Wanted, Started, Finished
<1>12. Op("wait", "dispatch", Value) \in Shared' \/ Recorded("dispatch", Value)
  BY <1>1, <1>8 DEF StreamInv, WaitsAreQueued
<1>13. QED
  BY <1>1, <1>2, <1>3, <1>6, <1>8, <1>9, <1>10, <1>11, <1>12, Enqueued

(***************************************************************************)
(* The layer is left: the main stream waits for the overlap, if there is   *)
(* one.                                                                    *)
(***************************************************************************)
LEMMA LeaveAdvances ==
    ASSUME HostInv, Leave
    PROVE  /\ TypeOK /\ pc = "leave" /\ Value' \in Values
           /\ \/ pc' = "idle" /\ Value' = Value
              \/ pc' = "enter" /\ Earlier(Value, Value')
<1>1. TypeOK /\ pc = "leave"
  BY DEF HostInv, Leave
<1>2. TypeOK'
  BY HostNext DEF HostInv, Next, RunLayer
<1>3. Value' \in Values
  BY <1>2, ConstantsType DEF TypeOK, Value, Values, Current, Layers
<1>4. CASE Current = NumLayers
  BY <1>1, <1>3, <1>4 DEF Leave, Value, Current
<1>5. CASE Current # NumLayers
  <2>1. /\ pc' = "enter" /\ forward' = [forward EXCEPT !.layer = @ + 1]
        /\ forward \in [n : 0 .. MaxForwards, layer : Layers, index : 0 .. NumLayers,
                        phase : {"prefill", "decode", "mixed", "unknown"},
                        profile : BOOLEAN]
    BY <1>1, <1>5 DEF Leave, TypeOK
  <2>2. Value = <<forward.n, forward.layer>> /\ Value' = <<forward.n, forward.layer + 1>>
    BY <2>1 DEF Value, Current
  <2>3. Earlier(Value, Value')
    BY <2>1, <2>2, ConstantsType DEF Earlier, Layers
  <2>4. QED
    BY <1>1, <1>3, <2>1, <2>3
<1>6. QED
  BY <1>4, <1>5

LEMMA LeaveKeepsStreams == HostInv /\ StreamInv /\ Leave => StreamInv'
<1> SUFFICES ASSUME HostInv, StreamInv, Leave PROVE StreamInv'
  OBVIOUS
<1>1. /\ TypeOK /\ pc = "leave" /\ Value \in Values /\ Value' \in Values
      /\ \/ pc' = "idle" /\ Value' = Value
         \/ pc' = "enter" /\ Earlier(Value, Value')
      /\ pc \in Inside /\ pc' \notin Inside
  BY LeaveAdvances, ValueType DEF Inside, Injecting
<1>2. overlap' = NoOverlap /\ UNCHANGED device
  BY DEF Leave
<1>3. OverlapInv'
  BY <1>2 DEF OverlapInv, NoOverlap
<1>4. CASE overlap.layer = 0
  <2>1. UNCHANGED queue
    BY <1>4 DEF Leave
  <2>2. CASE pc' = "idle" /\ Value' = Value
    <3>1. pc \in Pieces /\ pc' \in Pieces /\ Progress(pc) <= Progress(pc')
      BY <1>1, <2>2 DEF Pieces, BeforeRouter, Progress, Injecting, Inside, BeforeHidden
    <3>2. QED
      BY <1>1, <1>2, <1>3, <2>1, <2>2, <3>1, SameLayer
  <2>3. CASE Earlier(Value, Value')
    BY <1>1, <1>2, <2>1, <2>3, NextLayer
  <2>4. QED
    BY <1>1, <2>2, <2>3
<1>5. CASE overlap.layer # 0
  <2> DEFINE shared == <<Record("shared")>>
             newMain == Range(Join)
             newShared == Range(shared)
  <2>1. Enqueue(Join, shared) /\ overlap.finished /\ overlap.launched
    BY <1>5 DEF Leave, StreamInv, OverlapInv
  <2>2. /\ Join \in Seq(MainOps) /\ Ordered(Join)
        /\ newMain = {Op("wait", "shared", Value), Op("run", "use", Value)}
        /\ shared \in Seq(SharedOps) /\ Ordered(shared)
        /\ newShared = {Op("record", "shared", Value)}
    BY <1>1, SchedulesOfALayer
  <2> HIDE DEF shared
  <2>3. /\ \A p \in newMain : p.value = Value /\ Place(p) \in {2, 3}
        /\ \A p \in newShared : p.value = Value /\ Place(p) = 8
    BY <1>1, <2>2, ValueOfOp, PlacesAre
  <2>4. /\ \A o \in Main : o.value = Value => Place(o) \in {0, 1}
        /\ \A o \in Shared : o.value = Value => Place(o) \in {4, 5, 6, 7}
    BY <1>1, QueuedInside
  <2>5. /\ \A o \in Main, p \in newMain : o.value = Value => Precedes(o, p)
        /\ \A o \in Shared, p \in newShared : o.value = Value => Precedes(o, p)
    BY <2>3, <2>4, PrecedesByPlace
  <2>6. /\ StreamTypes' /\ Ordered(queue.main)' /\ Ordered(queue.shared)'
        /\ Main' = Main \cup newMain /\ Shared' = Shared \cup newShared
        /\ \A v \in Values : Recorded("dispatch", v) =>
              \A o \in newMain : Precedes(Op("record", "dispatch", v), o)
        /\ \A v \in Values : Recorded("shared", v) =>
              \A o \in newShared : Precedes(Op("record", "shared", v), o)
    BY <1>1, <1>2, <2>1, <2>2, <2>3, <2>5, EnqueuedQueues
  <2>7. HostIsAhead'
    <3>1. \A o \in Main' \cup Shared' : o.value \in Values /\ ~Earlier(Value, o.value)
      <4>1. \A o \in Main \cup Shared : o.value \in Values /\ ~Earlier(Value, o.value)
        BY <1>1, OthersPrecede DEF StreamInv, HostIsAhead
      <4>2. ~Earlier(Value, Value)
        BY <1>1, EarlierIsAnOrder
      <4>3. QED
        BY <1>1, <2>3, <2>6, <4>1, <4>2
    <3>2. \A e \in device.events : e[2] \in Values /\ ~Earlier(Value, e[2])
      BY DEF StreamInv, HostIsAhead, StreamTypes
    <3>3. CASE pc' = "idle" /\ Value' = Value
      BY <1>1, <1>2, <3>1, <3>2, <3>3 DEF HostIsAhead, BeforeHidden
    <3>4. CASE Earlier(Value, Value')
      <4>1. \A v \in Values : ~Earlier(Value, v) => ~Earlier(Value', v) /\ v # Value'
        BY <1>1, <3>4, EarlierIsAnOrder
      <4>2. QED
        BY <1>2, <3>1, <3>2, <4>1 DEF HostIsAhead
    <3>5. QED
      BY <1>1, <3>3, <3>4
  <2>8. /\ newMain \in SUBSET MainOps /\ newShared \in SUBSET SharedOps
        /\ Op("run", "hidden", Value) \notin newMain
        /\ Op("run", "part1", Value) \notin newShared
        /\ Op("run", "part2", Value) \notin newShared
        /\ Op("wait", "shared", Value) \in newMain
    <3>1. newMain \in SUBSET MainOps /\ newShared \in SUBSET SharedOps
      BY <1>1, <2>2, OpsAreOps
    <3>2. /\ Op("run", "hidden", Value) \notin newMain
          /\ Op("run", "part1", Value) \notin newShared
          /\ Op("run", "part2", Value) \notin newShared
      BY <2>3, PlacesAre
    <3>3. QED
      BY <2>2, <3>1, <3>2
  <2> HIDE DEF newMain, newShared
  <2>9. \A v \in Values : /\ Wanted(v)' => Wanted(v)
                          /\ Started(v)' => Started(v)
                          /\ Finished(v)' => Finished(v)
    <3>1. \A v \in Values : Awaited(v)' => Awaited(v) \/ v = Value
      BY <2>3, <2>6 DEF Awaited, Op
    <3>2. /\ NoOverlap.layer = 0 /\ NoOverlap.launched = FALSE
          /\ NoOverlap.finished = FALSE
      BY DEF NoOverlap
    <3>3. \A v \in Values : /\ Wanted(v)' => Awaited(v)'
                            /\ Started(v)' => Awaited(v)'
                            /\ Finished(v)' => Awaited(v)'
      BY <1>2, <3>2 DEF Wanted, Started, Finished
    <3>4. QED
      BY <1>5, <2>1, <3>1, <3>3 DEF Wanted, Started, Finished
  <2>10. Op("wait", "dispatch", Value) \in Shared' \/ Recorded("dispatch", Value)
    BY <2>1, <2>6 DEF StreamInv, WaitsAreQueued
  <2>11. overlap'.launched = FALSE
    BY <1>2 DEF NoOverlap
  <2>12. QED
    BY <1>1, <1>2, <1>3, <2>3, <2>6, <2>7, <2>8, <2>9, <2>10, <2>11, Enqueued
<1>6. QED
  BY <1>4, <1>5

--------------------------------------------------------------------------
(***************************************************************************)
(* Steps of the streams.                                                   *)
(***************************************************************************)
\* What one operation does to the events and to each buffer.
LEMMA Executed ==
    ASSUME NEW o \in MainOps \cup SharedOps, Execute(o), StreamTypes
    PROVE  /\ o.op = "wait" => Recorded(o.what, o.value)
           /\ device'.events = device.events \cup
                (IF o.op = "record" THEN {<<o.what, o.value>>} ELSE {})
           /\ device'.hidden =
                IF o = Op("run", "hidden", o.value) THEN o.value ELSE device.hidden
           /\ device'.part1 =
                IF o = Op("run", "part1", o.value) THEN device.hidden ELSE device.part1
           /\ device'.output =
                IF o = Op("run", "part2", o.value) THEN device.part1 ELSE device.output
           /\ device'.used =
                IF o = Op("run", "use", o.value) THEN {<<o.value, device.output>>}
                ELSE device.used
           /\ device' \in [events : SUBSET ({"dispatch", "combine", "shared"} \X Values),
                           hidden : Values, part1 : Values, output : Values,
                           used : SUBSET (Values \X Values)]
<1>1. device \in [events : SUBSET ({"dispatch", "combine", "shared"} \X Values),
                  hidden : Values, part1 : Values, output : Values,
                  used : SUBSET (Values \X Values)]
  BY DEF StreamTypes
<1>2. o.value \in Values
  BY MainOpIs, SharedOpIs
<1>3. \/ o = Op("record", "dispatch", o.value)
      \/ o = Op("record", "combine", o.value)
      \/ o = Op("record", "shared", o.value)
      \/ o = Op("wait", "dispatch", o.value)
      \/ o = Op("wait", "combine", o.value)
      \/ o = Op("wait", "shared", o.value)
      \/ o = Op("run", "hidden", o.value)
      \/ o = Op("run", "routed", o.value)
      \/ o = Op("run", "use", o.value)
      \/ o = Op("run", "part1", o.value)
      \/ o = Op("run", "part2", o.value)
  BY MainOpIs, SharedOpIs
<1>4. \A op, what, v : /\ Op(op, what, v).op = op /\ Op(op, what, v).what = what
                       /\ Op(op, what, v).value = v
  BY DEF Op
<1>5. CASE o.op = "record"
  <2>1. device' = [device EXCEPT !.events = @ \cup {<<o.what, o.value>>}]
    BY <1>5 DEF Execute
  <2>2. o.what \in {"dispatch", "combine", "shared"}
    BY <1>3, <1>4, <1>5
  <2>3. \A what : o # Op("run", what, o.value)
    BY <1>4, <1>5
  <2>4. QED
    BY <1>1, <1>2, <1>5, <2>1, <2>2, <2>3
<1>6. CASE o.op = "wait"
  <2>1. device' = device /\ <<o.what, o.value>> \in device.events
    BY <1>6 DEF Execute
  <2>2. \A what : o # Op("run", what, o.value)
    BY <1>4, <1>6
  <2>3. QED
    BY <1>1, <1>6, <2>1, <2>2 DEF Recorded
<1>7. CASE o.op = "run"
  <2>1. \A what : o = Op("run", what, o.value) <=> o.what = what
    BY <1>3, <1>4, <1>7
  <2>2. o.what \in {"hidden", "routed", "use", "part1", "part2"}
    BY <1>3, <1>4, <1>7
  <2>3. device' = CASE o.what = "hidden" -> [device EXCEPT !.hidden = o.value]
                    [] o.what = "part1" -> [device EXCEPT !.part1 = device.hidden]
                    [] o.what = "part2" -> [device EXCEPT !.output = device.part1]
                    [] o.what = "use" ->
                         [device EXCEPT !.used = {<<o.value, device.output>>}]
                    [] o.what = "routed" -> device
    BY <1>7 DEF Execute
  <2>4. CASE o.what = "hidden"
    BY <1>1, <1>2, <1>7, <2>1, <2>3, <2>4
  <2>5. CASE o.what = "part1"
    BY <1>1, <1>2, <1>7, <2>1, <2>3, <2>5
  <2>6. CASE o.what = "part2"
    BY <1>1, <1>2, <1>7, <2>1, <2>3, <2>6
  <2>7. CASE o.what = "use"
    <3>1. {<<o.value, device.output>>} \in SUBSET (Values \X Values)
      BY <1>1, <1>2
    <3>2. device' = [device EXCEPT !.used = {<<o.value, device.output>>}]
      BY <2>3, <2>7
    <3>3. /\ o = Op("run", "use", o.value)
          /\ \A what \in {"hidden", "part1", "part2"} : o # Op("run", what, o.value)
      BY <2>1, <2>7
    <3> HIDE DEF Op
    <3>4. QED
      BY <1>1, <1>7, <3>1, <3>2, <3>3
  <2>8. CASE o.what = "routed"
    BY <1>1, <1>2, <1>7, <2>1, <2>3, <2>8
  <2>9. QED
    BY <2>2, <2>4, <2>5, <2>6, <2>7, <2>8
<1>8. QED
  BY <1>3, <1>4, <1>5, <1>6, <1>7

\* A stream takes the head of its queue; the host stays where it is.
LEMMA Dequeued ==
    ASSUME TypeOK, StreamInv, NEW s \in {"main", "shared"}, StreamRuns(s),
           NEW o, o = Head(queue[s])
    PROVE  /\ o \in MainOps \cup SharedOps /\ o.value \in Values /\ Execute(o)
           /\ UNCHANGED <<overlap, pc, forward>> /\ Value' = Value
           /\ StreamTypes' /\ Ordered(queue.main)' /\ Ordered(queue.shared)'
           /\ s = "main" => /\ o \in MainOps /\ Main = {o} \cup Main' /\ Shared' = Shared
                            /\ \A p \in Main' : Precedes(o, p)
           /\ s = "shared" => /\ o \in SharedOps /\ Shared = {o} \cup Shared' /\ Main' = Main
                              /\ \A p \in Shared' : Precedes(o, p)
<1>1. /\ queue[s] # <<>> /\ Execute(o) /\ queue' = [queue EXCEPT ![s] = Tail(@)]
      /\ UNCHANGED <<overlap, pc, forward>>
  BY DEF StreamRuns
<1>2. /\ queue \in [main : Seq(MainOps), shared : Seq(SharedOps)]
      /\ Ordered(queue.main) /\ Ordered(queue.shared)
  BY DEF StreamInv, StreamTypes
<1>3. Value' = Value
  BY <1>1 DEF Value, Current
<1>4. CASE s = "main"
  <2>1. queue.main # <<>> /\ o = Head(queue.main)
    BY <1>1, <1>4
  <2>2. /\ o \in MainOps /\ Tail(queue.main) \in Seq(MainOps)
        /\ Range(queue.main) = {o} \cup Range(Tail(queue.main))
        /\ Ordered(Tail(queue.main)) /\ \A p \in Range(Tail(queue.main)) : Precedes(o, p)
    BY <1>2, <2>1, HeadOfQueue
  <2>3. /\ queue' = [queue EXCEPT !.main = Tail(queue.main)]
        /\ queue'.main = Tail(queue.main) /\ queue'.shared = queue.shared
    BY <1>1, <1>2, <1>4
  <2>4. StreamTypes'
    BY <1>1, <1>2, <2>2, <2>3, Executed DEF StreamInv, StreamTypes
  <2>5. QED
    BY <1>1, <1>2, <1>3, <1>4, <2>2, <2>3, <2>4, MainOpIs DEF Main, Shared
<1>5. CASE s = "shared"
  <2>1. queue.shared # <<>> /\ o = Head(queue.shared)
    BY <1>1, <1>5
  <2>2. /\ o \in SharedOps /\ Tail(queue.shared) \in Seq(SharedOps)
        /\ Range(queue.shared) = {o} \cup Range(Tail(queue.shared))
        /\ Ordered(Tail(queue.shared)) /\ \A p \in Range(Tail(queue.shared)) : Precedes(o, p)
    BY <1>2, <2>1, HeadOfQueue
  <2>3. /\ queue' = [queue EXCEPT !.shared = Tail(queue.shared)]
        /\ queue'.shared = Tail(queue.shared) /\ queue'.main = queue.main
    BY <1>1, <1>2, <1>5
  <2>4. StreamTypes'
    BY <1>1, <1>2, <2>2, <2>3, Executed DEF StreamInv, StreamTypes
  <2>5. QED
    BY <1>1, <1>2, <1>3, <1>5, <2>2, <2>3, <2>4, SharedOpIs DEF Main, Shared
<1>6. QED
  BY <1>4, <1>5

\* The first projection of a layer is only reached when its routed path has
\* recorded its event; whatever is then still used on the main stream is later.
LEMMA ProjectionsFollowDispatch ==
    ASSUME TypeOK, StreamInv, NEW w \in Values, Recorded("dispatch", w)
    PROVE  /\ Op("run", "hidden", w) \notin Main
           /\ \A v \in Values : Awaited(v) => v = w \/ Earlier(w, v)
<1> DEFINE r == Op("record", "dispatch", w)
<1>1. r.value = w /\ Place(r) = 1
  BY PlacesAre DEF Op
<1>2. \A p \in Main : Precedes(r, p)
  BY DEF StreamInv, EventsAreBehind
<1> HIDE DEF r
<1>3. ASSUME NEW v \in Values, NEW what, Op("run", what, v) \in Main,
             Place(Op("run", what, v)) \in Nat
      PROVE  /\ v = w \/ Earlier(w, v)
             /\ v = w => 1 <= Place(Op("run", what, v))
  <2> DEFINE p == Op("run", what, v)
  <2>1. p.value = v /\ Precedes(r, p) /\ Place(p) \in Nat
    BY <1>2, <1>3 DEF Op
  <2> HIDE DEF p
  <2>2. QED
    BY <1>1, <2>1, PrecedesMeans DEF p
<1>4. QED
  BY <1>3, PlacesAre DEF Awaited

\* The projections of a layer are behind the event that its routed path records.
LEMMA ProjectionsWait ==
    ASSUME TypeOK, StreamInv, StreamRuns("shared"),
           NEW o, o = Head(queue.shared), o.what \in {"part1", "part2"}
    PROVE  Recorded("dispatch", o.value)
<1>1. o \in SharedOps /\ o.value \in Values /\ Shared = {o} \cup Shared'
  BY Dequeued
<1>2. \A p \in Shared' : Precedes(o, p)
  BY Dequeued
<1>3. Place(o) \in {5, 7}
  BY DEF Place
<1> DEFINE p == Op("wait", "dispatch", o.value)
<1>4. p.value = o.value /\ Place(p) = 4
  BY PlacesAre DEF Op
<1>5. p \in Shared \/ Recorded("dispatch", o.value)
  BY <1>1 DEF StreamInv, WaitsAreQueued
<1> HIDE DEF p
<1>6. p \notin Shared'
  <2>1. SUFFICES ASSUME Precedes(o, p) PROVE FALSE
    BY <1>2
  <2>2. QED
    BY <1>1, <1>3, <1>4, <2>1, PrecedesMeans
<1>7. p # o
  BY <1>3, <1>4
<1>8. QED
  BY <1>1, <1>5, <1>6, <1>7

LEMMA EventsStayOrdered ==
    ASSUME HostInv, StreamInv, NEW s \in {"main", "shared"}, StreamRuns(s)
    PROVE  HostIsAhead' /\ OverlapInv' /\ EventsAreBehind' /\ WaitsAreQueued'
<1> DEFINE o == Head(queue[s])
<1>1. TypeOK /\ pc \in Pieces
  BY DEF HostInv, BuildInv
<1>2. /\ o \in MainOps \cup SharedOps /\ o.value \in Values /\ Execute(o)
      /\ UNCHANGED <<overlap, pc, forward>> /\ Value' = Value
      /\ Main' \subseteq Main /\ Shared' \subseteq Shared /\ o \in Main \cup Shared
  BY <1>1, Dequeued
<1>3. /\ s = "main" => o \in MainOps /\ \A p \in Main' : Precedes(o, p)
      /\ s = "shared" => o \in SharedOps /\ \A p \in Shared' : Precedes(o, p)
      /\ s = "main" => Main = {o} \cup Main' /\ Shared' = Shared
      /\ s = "shared" => Shared = {o} \cup Shared' /\ Main' = Main
  BY <1>1, Dequeued
<1> HIDE DEF o
<1>4. /\ o.op = "wait" => Recorded(o.what, o.value)
      /\ device'.events = device.events \cup
           (IF o.op = "record" THEN {<<o.what, o.value>>} ELSE {})
  BY <1>2, Executed DEF StreamInv
<1>5. o.op = "record" =>
        /\ s = "main" => o = Op("record", "dispatch", o.value) \/ o = Op("record", "combine", o.value)
        /\ s = "shared" => o = Op("record", "shared", o.value)
  <2>1. \A op, what, v : Op(op, what, v).op = op
    BY DEF Op
  <2>2. s = "main" \/ s = "shared"
    OBVIOUS
  <2>3. CASE s = "main"
    BY <1>3, <2>1, <2>3, MainOpIs
  <2>4. CASE s = "shared"
    BY <1>3, <2>1, <2>4, SharedOpIs
  <2>5. QED
    BY <2>2, <2>3, <2>4
<1>6. HostIsAhead'
  <2>1. \A p \in Main \cup Shared :
         /\ ~Earlier(Value, p.value)
         /\ p.value = Value => pc \notin BeforeHidden
         /\ p.value = Value /\ pc \in Inside =>
              \/ Place(p) \in {0, 1}
              \/ Place(p) \in {4, 5} /\ overlap.launched
              \/ Place(p) \in {6, 7} /\ overlap.finished
    BY DEF StreamInv, HostIsAhead
  <2>2. ASSUME NEW e \in device'.events
        PROVE  /\ ~Earlier(Value, e[2])
               /\ e[2] = Value => pc \notin BeforeHidden
               /\ e[2] = Value /\ pc \in Inside => e[1] # "shared"
    <3>1. CASE e \in device.events
      BY <3>1 DEF StreamInv, HostIsAhead
    <3>2. CASE o.op = "record" /\ e = <<o.what, o.value>>
      <4>1. o.what \in {"dispatch", "combine", "shared"}
        BY <1>5, <3>2 DEF Op
      <4>2. o.what = "shared" => Place(o) = 8
        BY <3>2 DEF Place
      <4>3. e[1] = o.what /\ e[2] = o.value
        BY <3>2
      <4>4. QED
        BY <1>2, <2>1, <4>2, <4>3
    <3>3. QED
      BY <1>4, <3>1, <3>2
  <2>3. QED
    BY <1>2, <2>1, <2>2 DEF HostIsAhead
<1>7. OverlapInv'
  BY <1>2 DEF StreamInv, OverlapInv
<1>8. EventsAreBehind'
  <2>1. ASSUME NEW v \in Values, Recorded("dispatch", v)'
        PROVE  \A p \in Main' : Precedes(Op("record", "dispatch", v), p)
    <3>1. CASE Recorded("dispatch", v)
      BY <1>2, <3>1 DEF StreamInv, EventsAreBehind
    <3>2. CASE o.op = "record" /\ o.what = "dispatch" /\ o.value = v
      <4>1. s = "main" /\ o = Op("record", "dispatch", v)
        BY <1>5, <3>2 DEF Op
      <4>2. QED
        BY <1>3, <4>1
    <3>3. QED
      BY <1>4, <2>1, <3>1, <3>2 DEF Recorded
  <2>2. ASSUME NEW v \in Values, Recorded("shared", v)'
        PROVE  \A p \in Shared' : Precedes(Op("record", "shared", v), p)
    <3>1. CASE Recorded("shared", v)
      BY <1>2, <3>1 DEF StreamInv, EventsAreBehind
    <3>2. CASE o.op = "record" /\ o.what = "shared" /\ o.value = v
      <4>1. s = "shared" /\ o = Op("record", "shared", v)
        BY <1>5, <3>2 DEF Op
      <4>2. QED
        BY <1>3, <4>1
    <3>3. QED
      BY <1>4, <2>2, <3>1, <3>2 DEF Recorded
  <2>3. QED
    BY <2>1, <2>2 DEF EventsAreBehind
<1>9. WaitsAreQueued'
  <2>1. \A event, v : Recorded(event, v) => Recorded(event, v)'
    BY <1>4 DEF Recorded
  <2>2. ASSUME NEW v \in Values, NEW event,
               Op("wait", event, v) \in Main \/ Op("wait", event, v) \in Shared
        PROVE  /\ Op("wait", event, v) \in Main => Op("wait", event, v) \in Main' \/ Recorded(event, v)'
               /\ Op("wait", event, v) \in Shared => Op("wait", event, v) \in Shared' \/ Recorded(event, v)'
    <3>1. CASE o = Op("wait", event, v)
      BY <1>4, <2>1, <3>1 DEF Op
    <3>2. CASE o # Op("wait", event, v)
      BY <1>3, <3>2
    <3>3. QED
      BY <3>1, <3>2
  <2>3. /\ \A p \in Main : p.value \in Values
        /\ \A p \in Shared : p.value \in Values
    BY <1>1, OthersPrecede
  <2>4. ASSUME NEW p \in Shared', p.what # "dispatch"
        PROVE  Op("wait", "dispatch", p.value) \in Shared' \/ Recorded("dispatch", p.value)'
    BY <1>2, <2>1, <2>2, <2>3, <2>4 DEF StreamInv, WaitsAreQueued
  <2>5. ASSUME NEW p \in Main', p.what = "use"
        PROVE  Op("wait", "shared", p.value) \in Main' \/ Recorded("shared", p.value)'
    BY <1>2, <2>1, <2>2, <2>3, <2>5 DEF StreamInv, WaitsAreQueued
  <2>6. ASSUME overlap.launched
        PROVE  Op("wait", "dispatch", Value) \in Shared' \/ Recorded("dispatch", Value)'
    <3> DEFINE v == Value
    <3>1. /\ v \in Values /\ v' = v
          /\ Op("wait", "dispatch", v) \in Shared \/ Recorded("dispatch", v)
      BY <1>1, <1>2, <2>6, ValueType DEF StreamInv, WaitsAreQueued
    <3>2. Recorded("dispatch", v)' <=> <<"dispatch", v>> \in device'.events
      BY <3>1 DEF Recorded
    <3> HIDE DEF v
    <3>3. Op("wait", "dispatch", v) \in Shared' \/ <<"dispatch", v>> \in device'.events
      BY <2>1, <2>2, <3>1 DEF Recorded
    <3>4. QED
      BY <3>2, <3>3 DEF v
  <2>7. QED
    BY <1>2, <2>4, <2>5, <2>6 DEF WaitsAreQueued
<1>10. QED
  BY <1>6, <1>7, <1>8, <1>9

\* The main stream overwrites the hidden states only when nobody needs the old
\* ones, and uses an output that is there.
LEMMA MainStreamKeepsBuffers ==
    ASSUME HostInv, StreamInv, StreamRuns("main")
    PROVE  HiddenIsKept' /\ FirstHalfIsKept' /\ OutputIsKept' /\ SharedOutputsAreComplete'
<1> DEFINE o == Head(queue.main)
           w == o.value
<1>1. TypeOK
  BY DEF HostInv
<1>2. /\ o \in MainOps /\ w \in Values /\ Execute(o)
      /\ UNCHANGED <<overlap, pc, forward>> /\ Value' = Value
      /\ Main = {o} \cup Main' /\ Shared' = Shared /\ \A p \in Main' : Precedes(o, p)
  BY <1>1, Dequeued
<1> HIDE DEF o
<1>3. /\ device'.hidden = IF o = Op("run", "hidden", w) THEN w ELSE device.hidden
      /\ device'.part1 = device.part1 /\ device'.output = device.output
      /\ device'.used = IF o = Op("run", "use", w) THEN {<<w, device.output>>} ELSE device.used
  <2>1. \A u : o # Op("run", "part1", u) /\ o # Op("run", "part2", u)
    BY <1>2, MainOpIs DEF Op
  <2>2. QED
    BY <1>2, <2>1, Executed DEF StreamInv
<1>4. \A v \in Values : /\ Awaited(v)' => Awaited(v)
                        /\ Wanted(v)' => Wanted(v)
                        /\ Started(v)' => Started(v)
                        /\ Finished(v)' => Finished(v)
  <2>1. \A v \in Values : Awaited(v)' => Awaited(v)
    BY <1>2 DEF Awaited
  <2>2. QED
    BY <1>2, <2>1 DEF Wanted, Started, Finished
<1> HIDE DEF w
<1>5. HiddenIsKept'
  <2> SUFFICES ASSUME NEW v \in Values, Wanted(v)'
               PROVE  \/ Op("run", "hidden", v) \in Main'
                      \/ /\ device'.hidden = v
                         /\ \A u \in Values : Op("run", "hidden", u) \in Main' => Earlier(v, u)
    BY DEF HiddenIsKept
  <2>1. Wanted(v)
    BY <1>4
  <2>2. \/ Op("run", "hidden", v) \in Main
        \/ /\ device.hidden = v
           /\ \A u \in Values : Op("run", "hidden", u) \in Main => Earlier(v, u)
    BY <2>1 DEF StreamInv, HiddenIsKept
  <2>3. CASE o # Op("run", "hidden", w)
    <3>1. o # Op("run", "hidden", v)
      BY <2>3 DEF w, Op
    <3>2. QED
      BY <1>2, <1>3, <2>2, <2>3, <3>1
  <2>4. CASE o = Op("run", "hidden", w) /\ v = w
    <3>1. ASSUME NEW u \in Values, Op("run", "hidden", u) \in Main' PROVE Earlier(w, u)
      <4> DEFINE p == Op("run", "hidden", u)
      <4>1. p.value = u /\ o.value = w /\ Place(p) = 0 /\ Place(o) = 0 /\ Precedes(o, p)
        BY <1>2, <2>4, <3>1, PlacesAre DEF Op
      <4> HIDE DEF p
      <4>2. QED
        BY <1>2, <4>1, PrecedesMeans
    <3>2. QED
      BY <1>3, <2>4, <3>1
  <2>5. CASE o = Op("run", "hidden", w) /\ v # w
    <3>1. CASE Op("run", "hidden", v) \in Main
      <4>1. o # Op("run", "hidden", v)
        BY <2>5 DEF Op
      <4>2. QED
        BY <1>2, <3>1, <4>1
    <3>2. CASE Op("run", "hidden", v) \notin Main
      <4>1. Earlier(v, w)
        BY <1>2, <2>2, <2>5, <3>2
      <4>2. ~Earlier(w, v)
        BY <1>2, <4>1, EarlierIsAnOrder
      <4>3. ~Awaited(v)'
        <5> SUFFICES ASSUME Op("run", "use", v) \in Main' PROVE FALSE
          BY DEF Awaited
        <5> DEFINE p == Op("run", "use", v)
        <5>1. p.value = v /\ o.value = w /\ Place(p) = 3 /\ Place(o) = 0 /\ Precedes(o, p)
          BY <1>2, <2>5, PlacesAre DEF Op
        <5> HIDE DEF p
        <5>2. QED
          BY <1>2, <2>5, <4>2, <5>1, PrecedesMeans
      <4>4. v = Value
        BY <1>2, <4>3 DEF Wanted
      <4>5. ~Earlier(Value, w)
        BY <1>2 DEF w, StreamInv, HostIsAhead
      <4>6. Earlier(Value, w)
        BY <4>1, <4>4
      <4>7. QED
        BY <4>5, <4>6
    <3>3. QED
      BY <3>1, <3>2
  <2>6. QED
    BY <2>3, <2>4, <2>5
<1>6. FirstHalfIsKept'
  BY <1>2, <1>3, <1>4 DEF StreamInv, FirstHalfIsKept
<1>7. OutputIsKept'
  BY <1>2, <1>3, <1>4 DEF StreamInv, OutputIsKept
<1>8. SharedOutputsAreComplete'
  <2>1. CASE o # Op("run", "use", w)
    BY <1>3, <2>1 DEF StreamInv, SharedOutputsAreComplete
  <2>2. CASE o = Op("run", "use", w)
    <3>1. o.value = w /\ Place(o) = 3 /\ o.what = "use"
      BY <2>2, PlacesAre DEF Op
    <3>2. Recorded("shared", w)
      <4> DEFINE p == Op("wait", "shared", w)
      <4>1. p.value = w /\ Place(p) = 2
        BY PlacesAre DEF Op
      <4>2. p \in Main \/ Recorded("shared", w)
        BY <1>2, <3>1 DEF StreamInv, WaitsAreQueued
      <4> HIDE DEF p
      <4>3. p # o
        BY <3>1, <4>1
      <4>4. ~Precedes(o, p)
        BY <1>2, <3>1, <4>1, PrecedesMeans
      <4>5. QED
        BY <1>2, <4>2, <4>3, <4>4
    <3>3. Op("run", "part2", w) \notin Shared
      <4> SUFFICES ASSUME Op("run", "part2", w) \in Shared PROVE FALSE
        OBVIOUS
      <4> DEFINE r == Op("record", "shared", w)
                 p == Op("run", "part2", w)
      <4>1. /\ r.value = w /\ p.value = w /\ Place(r) = 8 /\ Place(p) = 7
            /\ Precedes(r, p)
        BY <1>2, <3>2, PlacesAre DEF Op, StreamInv, EventsAreBehind
      <4> HIDE DEF r, p
      <4>2. QED
        BY <1>2, <4>1, PrecedesMeans
    <3>4. Awaited(w)
      BY <1>2, <2>2 DEF Awaited
    <3>5. device.output = w
      BY <1>2, <3>3, <3>4 DEF StreamInv, OutputIsKept, Finished
    <3>6. QED
      BY <1>3, <2>2, <3>5 DEF SharedOutputsAreComplete
  <2>3. QED
    BY <2>1, <2>2
<1>9. QED
  BY <1>5, <1>6, <1>7, <1>8

\* The shared stream overwrites its buffers only when nobody needs the old ones.
LEMMA SharedStreamKeepsBuffers ==
    ASSUME HostInv, StreamInv, StreamRuns("shared")
    PROVE  HiddenIsKept' /\ FirstHalfIsKept' /\ OutputIsKept' /\ SharedOutputsAreComplete'
<1> DEFINE o == Head(queue.shared)
           w == o.value
<1>1. TypeOK
  BY DEF HostInv
<1>2. /\ o \in SharedOps /\ w \in Values /\ Execute(o)
      /\ UNCHANGED <<overlap, pc, forward>> /\ Value' = Value
      /\ Shared = {o} \cup Shared' /\ Main' = Main /\ \A p \in Shared' : Precedes(o, p)
  BY <1>1, Dequeued
<1>3. o.what \in {"part1", "part2"} => Recorded("dispatch", w)
  BY <1>1, ProjectionsWait
<1> HIDE DEF o
<1>4. /\ device'.hidden = device.hidden
      /\ device'.part1 = IF o = Op("run", "part1", w) THEN device.hidden ELSE device.part1
      /\ device'.output = IF o = Op("run", "part2", w) THEN device.part1 ELSE device.output
      /\ device'.used = device.used
  <2>1. \A u : o # Op("run", "hidden", u) /\ o # Op("run", "use", u)
    BY <1>2, SharedOpIs DEF Op
  <2>2. QED
    BY <1>2, <2>1, Executed DEF StreamInv
<1>5. \A v \in Values : /\ Awaited(v)' = Awaited(v)
                        /\ Wanted(v)' = Wanted(v)
                        /\ Started(v)' = Started(v)
                        /\ Finished(v)' = Finished(v)
  <2>1. \A v \in Values : Awaited(v)' = Awaited(v)
    BY <1>2 DEF Awaited
  <2>2. QED
    BY <1>2, <2>1 DEF Wanted, Started, Finished
<1>6. ASSUME NEW what, NEW u \in Values, o = Op("run", what, w), what \in {"part1", "part2"},
             Op("run", what, u) \in Shared'
      PROVE  Earlier(w, u)
  <2> DEFINE p == Op("run", what, u)
  <2>1. p.value = u /\ o.value = w /\ Place(p) = Place(o) /\ Place(o) \in {5, 7}
    BY <1>6, PlacesAre DEF Op
  <2>2. Precedes(o, p)
    BY <1>2, <1>6
  <2> HIDE DEF p
  <2>3. QED
    BY <1>2, <2>1, <2>2, PrecedesMeans
<1>7. ASSUME NEW v \in Values, Awaited(v) \/ (overlap.launched /\ v = Value),
             Recorded("dispatch", w), Earlier(v, w)
      PROVE  FALSE
  <2>1. CASE Awaited(v)
    <3>1. v = w \/ Earlier(w, v)
      BY <1>1, <1>2, <1>7, <2>1, ProjectionsFollowDispatch
    <3>2. QED
      BY <1>2, <1>7, <3>1, EarlierIsAnOrder
  <2>2. CASE v = Value
    <3>1. ~Earlier(Value, w)
      BY <1>2 DEF w, StreamInv, HostIsAhead
    <3>2. QED
      BY <1>7, <2>2, <3>1
  <2>3. QED
    BY <1>7, <2>1, <2>2
<1>8. ASSUME Started(w), Recorded("dispatch", w) PROVE device.hidden = w
  <2>1. Wanted(w)
    BY <1>8 DEF Started, Wanted, StreamInv, OverlapInv
  <2>2. Op("run", "hidden", w) \notin Main
    BY <1>1, <1>2, <1>8, ProjectionsFollowDispatch
  <2>3. QED
    BY <1>2, <2>1, <2>2 DEF StreamInv, HiddenIsKept
<1>9. o.value = w
  BY DEF w
<1> HIDE DEF w
<1>10. HiddenIsKept'
  BY <1>2, <1>4, <1>5 DEF StreamInv, HiddenIsKept
<1>11. FirstHalfIsKept'
  <2> SUFFICES ASSUME NEW v \in Values, Started(v)
               PROVE  \/ Op("run", "part1", v) \in Shared'
                      \/ /\ device'.part1 = v
                         /\ \A u \in Values : Op("run", "part1", u) \in Shared' => Earlier(v, u)
    BY <1>5 DEF FirstHalfIsKept
  <2>1. \/ Op("run", "part1", v) \in Shared
        \/ /\ device.part1 = v
           /\ \A u \in Values : Op("run", "part1", u) \in Shared => Earlier(v, u)
    BY DEF StreamInv, FirstHalfIsKept
  <2>2. CASE o # Op("run", "part1", w)
    <3>1. o # Op("run", "part1", v)
      BY <1>9, <2>2 DEF Op
    <3>2. QED
      BY <1>2, <1>4, <2>1, <2>2, <3>1
  <2>3. CASE o = Op("run", "part1", w) /\ v = w
    <3>1. Recorded("dispatch", w)
      BY <1>3, <2>3 DEF Op
    <3>2. QED
      BY <1>4, <1>6, <1>8, <2>3, <3>1
  <2>4. CASE o = Op("run", "part1", w) /\ v # w
    <3>1. Recorded("dispatch", w) /\ o # Op("run", "part1", v)
      BY <1>3, <2>4 DEF Op
    <3>2. ~Earlier(v, w)
      BY <1>7, <3>1 DEF Started
    <3>3. QED
      BY <1>2, <2>1, <2>4, <3>1, <3>2
  <2>5. QED
    BY <2>2, <2>3, <2>4
<1>12. OutputIsKept'
  <2> SUFFICES ASSUME NEW v \in Values, Finished(v)
               PROVE  \/ Op("run", "part2", v) \in Shared'
                      \/ /\ device'.output = v
                         /\ \A u \in Values : Op("run", "part2", u) \in Shared' => Earlier(v, u)
    BY <1>5 DEF OutputIsKept
  <2>1. \/ Op("run", "part2", v) \in Shared
        \/ /\ device.output = v
           /\ \A u \in Values : Op("run", "part2", u) \in Shared => Earlier(v, u)
    BY DEF StreamInv, OutputIsKept
  <2>2. CASE o # Op("run", "part2", w)
    <3>1. o # Op("run", "part2", v)
      BY <1>9, <2>2 DEF Op
    <3>2. QED
      BY <1>2, <1>4, <2>1, <2>2, <3>1
  <2>3. CASE o = Op("run", "part2", w) /\ v = w
    <3>1. Op("run", "part1", w) \notin Shared
      <4> DEFINE p == Op("run", "part1", w)
      <4>1. p.value = w /\ Place(p) = 5 /\ Place(o) = 7
        BY <2>3, PlacesAre DEF Op
      <4> HIDE DEF p
      <4>2. ~Precedes(o, p) /\ p # o
        BY <1>2, <1>9, <4>1, PrecedesMeans
      <4>3. QED
        BY <1>2, <4>2 DEF p
    <3>2. Started(w)
      BY <2>3 DEF Finished, Started, StreamInv, OverlapInv
    <3>3. device.part1 = w
      BY <1>2, <3>1, <3>2 DEF StreamInv, FirstHalfIsKept
    <3>4. QED
      BY <1>4, <1>6, <2>3, <3>3
  <2>4. CASE o = Op("run", "part2", w) /\ v # w
    <3>1. Recorded("dispatch", w) /\ o # Op("run", "part2", v)
      BY <1>3, <2>4 DEF Op
    <3>2. ~Earlier(v, w)
      BY <1>7, <3>1 DEF Finished, StreamInv, OverlapInv
    <3>3. QED
      BY <1>2, <2>1, <2>4, <3>1, <3>2
  <2>5. QED
    BY <2>2, <2>3, <2>4
<1>13. SharedOutputsAreComplete'
  BY <1>4 DEF StreamInv, SharedOutputsAreComplete
<1>14. QED
  BY <1>10, <1>11, <1>12, <1>13

LEMMA StreamsKeepStreams ==
    ASSUME HostInv, StreamInv, NEW s \in {"main", "shared"}, StreamRuns(s)
    PROVE  StreamInv'
<1>1. StreamTypes' /\ Ordered(queue.main)' /\ Ordered(queue.shared)'
  BY Dequeued DEF HostInv
<1>2. HostIsAhead' /\ OverlapInv' /\ EventsAreBehind' /\ WaitsAreQueued'
  BY EventsStayOrdered
<1>3. HiddenIsKept' /\ FirstHalfIsKept' /\ OutputIsKept' /\ SharedOutputsAreComplete'
  BY MainStreamKeepsBuffers, SharedStreamKeepsBuffers
<1>4. QED
  BY <1>1, <1>2, <1>3 DEF StreamInv

LEMMA StreamInit == Init => StreamInv
<1> SUFFICES ASSUME Init PROVE StreamInv
  OBVIOUS
<1>1. /\ queue = [main |-> <<>>, shared |-> <<>>]
      /\ device = [events |-> {}, hidden |-> NoValue, part1 |-> NoValue,
                   output |-> NoValue, used |-> {}]
      /\ overlap = NoOverlap
  BY DEF Init
<1>2. NoValue \in Values
  BY ConstantsType DEF NoValue, Values
<1>3. Main = {} /\ Shared = {}
  BY <1>1, ShortQueues DEF Main, Shared
<1>4. StreamTypes
  BY <1>1, <1>2, ShortQueues DEF StreamTypes
<1>5. Ordered(queue.main) /\ Ordered(queue.shared)
  BY <1>1, ShortQueues
<1>6. HostIsAhead /\ OverlapInv
  BY <1>1, <1>3 DEF HostIsAhead, OverlapInv, NoOverlap
<1>7. EventsAreBehind /\ WaitsAreQueued
  BY <1>1, <1>3 DEF EventsAreBehind, WaitsAreQueued, Recorded, NoOverlap
<1>8. HiddenIsKept /\ FirstHalfIsKept /\ OutputIsKept
  BY <1>1, <1>3 DEF HiddenIsKept, FirstHalfIsKept, OutputIsKept, Wanted, Started, Finished,
     Awaited, NoOverlap
<1>9. SharedOutputsAreComplete
  BY <1>1 DEF SharedOutputsAreComplete
<1>10. QED
  BY <1>4, <1>5, <1>6, <1>7, <1>8, <1>9 DEF StreamInv

LEMMA StreamNext == HostInv /\ StreamInv /\ [Next]_vars => StreamInv'
<1> SUFFICES ASSUME HostInv, StreamInv, [Next]_vars PROVE StreamInv'
  OBVIOUS
<1>1. CASE UNCHANGED vars
  <2>1. UNCHANGED <<queue, device, overlap, pc>> /\ Value' = Value
    BY <1>1 DEF vars, Value, Current
  <2>2. Main' = Main /\ Shared' = Shared
    BY <2>1 DEF Main, Shared
  <2>3. HostIsAhead' /\ OverlapInv'
    BY <2>1, <2>2 DEF StreamInv, HostIsAhead, OverlapInv
  <2>4. QED
    BY <2>1, <2>3, WantedShrinks, Untouched
<1>2. CASE Boot
  BY <1>2, QuietActions DEF Boot
<1>3. CASE BeginForward
  BY <1>3, BeginForwardKeepsStreams
<1>4. CASE EnterLayer
  BY <1>4, QuietActions, EnterNativelyKeepsStreams DEF EnterLayer
<1>5. CASE RunLayer
  BY <1>5, QuietActions, MlpKeepsStreams, KernelsKeepStreams, LaunchSharedKeepsStreams,
     FinishSharedKeepsStreams, LeaveKeepsStreams, RaiseKeepsStreams DEF RunLayer
<1>6. CASE \E s \in {"main", "shared"} : StreamRuns(s)
  BY <1>6, StreamsKeepStreams
<1>7. QED
  BY <1>1, <1>2, <1>3, <1>4, <1>5, <1>6 DEF Next

\* On every run the output of the shared expert that the main stream uses is the
\* one of its own layer and forward, complete and not yet overwritten: the
\* events and waits that _ExternalSharedOverlapState puts on the two streams
\* suffice, however the streams are delayed, whoever launched the projection,
\* and also after a layer that raised with one or both projections already queued.
THEOREM SharedOutputsTheorem == Spec => []SharedOutputsAreComplete
<1>1. Init => StreamInv
  BY StreamInit
<1>2. HostInv /\ StreamInv /\ [Next]_vars => StreamInv'
  BY StreamNext
<1>3. StreamInv => SharedOutputsAreComplete
  BY DEF StreamInv
<1>4. QED
  BY <1>1, <1>2, <1>3, HostInvHolds, PTL DEF Spec
===========================================================================
