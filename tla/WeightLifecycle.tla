-------------------------- MODULE WeightLifecycle --------------------------
(***************************************************************************)
(* Where the expert weights of a layer are, from their creation to the     *)
(* graphs that read them (cpu_first_loader.py, host_store.py, runtime.py,  *)
(* the quant-method patch).  A layer is created on the CPU or on the NPU,  *)
(* formatted, registered (host store, slot bank, log2phy), released if so  *)
(* configured, and then serves: through its slots, at the addresses of a   *)
(* captured graph, or natively from its own parameters.                    *)
(*                                                                         *)
(* Which slot holds which expert is FixedSlots' subject; here a slot bank  *)
(* is its address and the experts log2phy maps.                            *)
(***************************************************************************)
EXTENDS Integers, FiniteSets

CONSTANTS
    Layers,             \* MoE layers, all of one geometry
    Experts,            \* routed experts of a layer
    Shared,             \* fused shared experts, pinned in lanes of their own
    Deployments,        \* configurations to serve with
    MaxRegistrations    \* bound: registrations of one layer

ASSUME LifecycleAssumption ==
    /\ IsFiniteSet(Experts) /\ Experts # {} /\ Experts \cap Shared = {}
    /\ MaxRegistrations \in Nat \ {0}
    /\ \A d \in Deployments :
         /\ d.numSlots \in Nat \ {0} /\ d.resident \subseteq Layers
         /\ {d.cpuFirst, d.release} \subseteq BOOLEAN

VARIABLES
    config,     \* the deployment: numSlots, resident, cpuFirst, release
    params,     \* w13_weight and w2_weight: none, raw, formatted, released
    home,       \* the device they are on
    processed,  \* CPU_FIRST_PROCESSED_MARKER
    loaded,     \* process_weights_after_loading has returned
    store,      \* _layer_signatures and _weights of HostExpertStore
    originals,  \* layers with _original_expert_weight_bytes_by_layer > 0
    released,   \* _released_original_weight_layers
    bank,       \* _slot_banks: the address of the layer's bank, 0 for none
    table,      \* _log2phy_buffers: the layers that have one
    mapped,     \* the logical ids that log2phy maps to a row with their weights
    locked,     \* _graph_slot_address_fingerprints, 0 for none
    captured,   \* the address in the layer's captured graph, 0 for none
    scratch,    \* prefill stage pool and full-layer pool
    sharedBytes,\* _resident_shared_weight_bytes_by_layer
    ledger,     \* _memory_ledger_cache
    cut,        \* history: has a registration raised since the cache was last set?
    kernels     \* MLP kernels of the last forward

vars == <<config, params, home, processed, loaded, store, originals, released,
          bank, table, mapped, locked, captured, scratch, sharedBytes, ledger, cut,
          kernels>>

weightVars == <<params, home, processed, loaded>>
slotVars == <<store, originals, released, bank, table, mapped>>
graphVars == <<locked, captured, kernels>>
ledgerVars == <<ledger, cut>>

--------------------------------------------------------------------------
FixedSlot(l) == l \notin config.resident

\* is_static_residency_regime: every routed expert has a slot.
Static == config.numSlots >= Cardinality(Experts)

CpuFirst(l) == config.cpuFirst /\ FixedSlot(l)

Registered(l) == bank[l] # 0

Serving == loaded = Layers

NoLedger == [computed |-> FALSE]

\* memory_ledger, each entry by what it is the sum over; banks that several
\* layers refer to count once.
ActualLedger(origs, banks, stored, pools, shared) ==
    [computed |-> TRUE,
     originals |-> origs,
     registered |-> {l \in Layers : banks[l] # 0},
     hosted |-> {p \in Layers \X Experts : p[2] \in stored[p[1]].bundles},
     stageBanks |-> pools.stage /\ pools.users # {},
     stageMappings |-> pools.mappings,
     fullLayer |-> pools.full,
     shared |-> shared]

Ledger == ActualLedger(originals \ released, bank, store, scratch, sharedBytes)

Compute(value) == ledger' = value /\ cut' = FALSE

\* _invalidate_memory_ledger_cache.
Invalidate == Compute(NoLedger)

NoScratch == [stage |-> FALSE, users |-> {}, mappings |-> {}, full |-> FALSE]

Init ==
    /\ config \in Deployments
    /\ params = [l \in Layers |-> "none"]
    /\ home = [l \in Layers |-> "npu"]
    /\ processed = [l \in Layers |-> FALSE]
    /\ loaded = {}
    /\ store = [l \in Layers |-> [signed |-> FALSE, bundles |-> {}]]
    /\ originals = {} /\ released = {}
    /\ bank = [l \in Layers |-> 0]
    /\ table = {}
    /\ mapped = [l \in Layers |-> {}]
    /\ locked = [l \in Layers |-> 0]
    /\ captured = [l \in Layers |-> 0]
    /\ scratch = NoScratch
    /\ sharedBytes = {}
    /\ ledger = NoLedger /\ cut = FALSE
    /\ kernels = {}

--------------------------------------------------------------------------
(***************************************************************************)
(* Loading.                                                                *)
(***************************************************************************)
\* create_weights: on the CPU for a CPU-first layer, else as vLLM does.
CreateWeights(l) ==
    /\ params[l] = "none"
    /\ params' = [params EXCEPT ![l] = "raw"]
    /\ home' = [home EXCEPT ![l] = IF CpuFirst(l) THEN "cpu" ELSE "npu"]
    /\ UNCHANGED <<config, processed, loaded, slotVars, graphVars, scratch,
                   sharedBytes, ledgerVars>>

\* The guards of register_layer_for_fixed_slots: a captured graph keeps the
\* addresses, and a released layer has no rows.
\* Slip: the fingerprints of captured layers are not looked at.
RegistrableWhenCaptured(l) == params[l] # "released"

Registrable(l) == locked[l] = 0 /\ params[l] # "released"

\* Slip: the rows that were copied stay.
HostCopyKeepsARow(l) ==
    /\ store' = [store EXCEPT ![l].bundles = {CHOOSE e \in Experts : TRUE}]
    /\ UNCHANGED <<originals, released, bank, table, mapped, scratch>>

\* The host copy raises: the old rows are gone; an old signature is not, nor are
\* an old bank and table.
HostCopyRaises(l) ==
    /\ store' = [store EXCEPT ![l].bundles = {}]
    /\ UNCHANGED <<originals, released, bank, table, mapped, scratch>>

HostCopied(l) ==
    /\ store' = [store EXCEPT ![l] = [signed |-> TRUE, bundles |-> Experts]]
    /\ originals' = originals \cup {l}
    /\ UNCHANGED released

\* The bank does not fit: the host store is complete, the slots are not there,
\* or are the old ones.
BankRaises(l) ==
    /\ HostCopied(l)
    /\ UNCHANGED <<bank, table, mapped, scratch>>

WithoutStagePlan(l) == [scratch EXCEPT !.users = @ \ {l}, !.mappings = @ \ {l}]

\* The bank is there and empty, but its shared rows cannot be installed, or
\* log2phy cannot be allocated: an old table stays, and is right about installed
\* lanes only.
LanesRaise(l) ==
    /\ HostCopied(l)
    /\ bank' = [bank EXCEPT ![l] = @ + 1]
    /\ \/ /\ Shared # {}
          /\ mapped' = [mapped EXCEPT ![l] = {}]
          /\ UNCHANGED scratch
       \/ /\ mapped' = [mapped EXCEPT ![l] = IF l \in table THEN Shared ELSE {}]
          /\ scratch' = WithoutStagePlan(l)
    /\ UNCHANGED table

\* However it ends, the ledger's cache is as it was.
RegistrationRaises(l) ==
    /\ HostCopyRaises(l) \/ BankRaises(l) \/ LanesRaise(l)
    /\ cut' = TRUE
    /\ UNCHANGED ledger

\* register_layer_for_fixed_slots to its end, with what its caller does next:
\* the release, and the full-residency staging.
\* The profile events compute the ledger again.
RegisterFully(l, releases, stages) ==
    /\ store' = [store EXCEPT ![l] = [signed |-> TRUE, bundles |-> Experts]]
    /\ originals' = IF releases THEN originals \ {l} ELSE originals \cup {l}
    /\ released' = IF releases THEN released \cup {l} ELSE released
    /\ bank' = [bank EXCEPT ![l] = @ + 1]
    /\ table' = table \cup {l}
    /\ mapped' = [mapped EXCEPT ![l] = IF stages THEN Experts \cup Shared ELSE Shared]
    /\ scratch' = WithoutStagePlan(l)
    /\ Compute(ActualLedger(originals' \ released', bank', store', scratch',
                            sharedBytes))

\* process_weights_after_loading of a layer that is not CPU-first.
ProcessNative(l) ==
    /\ params[l] = "raw" /\ ~CpuFirst(l)
    /\ IF ~FixedSlot(l)
       THEN /\ params' = [params EXCEPT ![l] = "formatted"]
            /\ loaded' = loaded \cup {l}
            /\ UNCHANGED <<slotVars, scratch, ledgerVars>>
       ELSE \/ /\ RegistrationRaises(l)
               /\ params' = [params EXCEPT ![l] = "formatted"]
               /\ UNCHANGED loaded
            \/ /\ RegisterFully(l, config.release, Static)
               /\ params' = [params EXCEPT ![l] =
                                IF config.release THEN "released" ELSE "formatted"]
               /\ loaded' = loaded \cup {l}
    /\ UNCHANGED <<config, home, processed, graphVars, sharedBytes>>

\* maybe_process_unquantized_cpu_first_weights: the marker is set before the
\* registration, and the caller returns before the full-residency staging.
ProcessCpuFirst(l) ==
    /\ params[l] = "raw" /\ CpuFirst(l)
    /\ processed' = [processed EXCEPT ![l] = TRUE]
    /\ \/ /\ RegistrationRaises(l)
          /\ params' = [params EXCEPT ![l] = "formatted"]
          /\ UNCHANGED loaded
       \/ /\ RegisterFully(l, config.release, FALSE)
          /\ params' = [params EXCEPT ![l] =
                           IF config.release THEN "released" ELSE "formatted"]
          /\ loaded' = loaded \cup {l}
    /\ UNCHANGED <<config, home, graphVars, sharedBytes>>

\* A second call finds the marker and reports the layer as handled.
ProcessAgain(l) ==
    /\ processed[l] /\ l \notin loaded
    /\ loaded' = loaded \cup {l}
    /\ UNCHANGED <<config, params, home, processed, slotVars, graphVars, scratch,
                   sharedBytes, ledgerVars>>

\* A caller registers a formatted layer, again or after a registration that
\* raised; and it may raise.  Only a dynamic mapping is filled again by the next
\* stage.
RegisterAgain(l) ==
    /\ params[l] \in {"formatted", "released"} /\ FixedSlot(l)
    /\ bank[l] < MaxRegistrations
    /\ Registrable(l)
    /\ Static => l \notin loaded
    /\ RegisterFully(l, FALSE, FALSE) \/ RegistrationRaises(l)
    /\ UNCHANGED <<config, weightVars, graphVars, sharedBytes>>

\* stage_full_residency_slot_plan, called directly, outside a capture.
StageFullResidency(l) ==
    /\ FixedSlot(l) /\ Registered(l) /\ l \in table /\ Static
    /\ locked[l] \in {0, bank[l]}
    /\ ~(Experts \subseteq mapped[l])
    /\ mapped' = [mapped EXCEPT ![l] = @ \cup Experts]
    /\ UNCHANGED <<config, weightVars, store, originals, released, bank, table,
                   graphVars, scratch, sharedBytes, ledgerVars>>

\* plan_original_weight_release: no blockers.
StoreIsComplete(l) == store[l].signed /\ store[l].bundles = Experts

\* Slip: a layer needs its host rows, not its slots.
ReadyWithoutSlots(l) == StoreIsComplete(l)

ReadyToRelease(l) == Registered(l) /\ StoreIsComplete(l)

\* release_original_expert_weights_if_ready.
Release(l) ==
    /\ config.release /\ FixedSlot(l) /\ params[l] = "formatted"
    /\ ReadyToRelease(l)
    /\ params' = [params EXCEPT ![l] = "released"]
    /\ originals' = originals \ {l}
    /\ released' = released \cup {l}
    /\ Compute(ActualLedger(originals' \ released', bank, store, scratch,
                            sharedBytes))
    /\ UNCHANGED <<config, home, processed, loaded, store, bank, table, mapped,
                   graphVars, scratch, sharedBytes>>

--------------------------------------------------------------------------
(***************************************************************************)
(* What else the ledger counts.                                            *)
(***************************************************************************)
\* The stage bank and mapping of prepare_prefill_stage_plan.  A pooled bank is
\* only referred to; the mapping is the layer's own.
\* Slip: a mapping is allocated and the ledger kept.
StagePlanKeepsLedger(l) ==
    /\ FixedSlot(l) /\ Registered(l) /\ l \notin scratch.users
    /\ scratch' = [scratch EXCEPT !.stage = TRUE, !.users = @ \cup {l},
                                  !.mappings = @ \cup {l}]
    /\ UNCHANGED <<config, weightVars, slotVars, graphVars, sharedBytes, ledgerVars>>

StagePlan(l) ==
    /\ FixedSlot(l) /\ Registered(l) /\ l \notin scratch.users
    /\ scratch' = [scratch EXCEPT !.stage = TRUE, !.users = @ \cup {l},
                                  !.mappings = @ \cup {l}]
    /\ Invalidate
    /\ UNCHANGED <<config, weightVars, slotVars, graphVars, sharedBytes>>

\* The shared bank and mapping of prepare_full_layer_prefill_plan.
FullLayerPlan(l) ==
    /\ FixedSlot(l) /\ Registered(l) /\ ~scratch.full
    /\ scratch' = [scratch EXCEPT !.full = TRUE]
    /\ Invalidate
    /\ UNCHANGED <<config, weightVars, slotVars, graphVars, sharedBytes>>

RegisterResidentShared(l) ==
    /\ l \notin sharedBytes
    /\ sharedBytes' = sharedBytes \cup {l}
    /\ Invalidate
    /\ UNCHANGED <<config, weightVars, slotVars, graphVars, scratch>>

\* memory_ledger, from any profile event.
ReadLedger ==
    /\ ledger = NoLedger
    /\ Compute(Ledger)
    /\ UNCHANGED <<config, weightVars, slotVars, graphVars, scratch, sharedBytes>>

--------------------------------------------------------------------------
(***************************************************************************)
(* Serving, in graph-compatible mode.  active is what the router chose.    *)
(***************************************************************************)
\* Active sets the slots hold; larger ones run in waves.
Routings == {A \in SUBSET Experts : A # {} /\ Cardinality(A) <= config.numSlots}

SlotKernel(l, A) == [layer |-> l, source |-> "slots", active |-> A, address |-> bank[l]]
NativeKernel(l, A) == [layer |-> l, source |-> "params", active |-> A, address |-> 0]

\* moe_offload_stage: nothing to do with a static mapping, else the mapping of
\* the active experts; an address that changed under a graph raises.
Stage(l, A) ==
    /\ FixedSlot(l) /\ Registered(l)
    /\ IF Static THEN UNCHANGED mapped
       ELSE /\ locked[l] \in {0, bank[l]}
            /\ A \subseteq store[l].bundles
            /\ l \in table
            /\ mapped' = [mapped EXCEPT ![l] = A \cup (@ \cap Shared)]

\* _graph_capture_slot_weights, from a forward or a capture: refused when the
\* layer has no bank or no table, or its addresses have changed.
LockAddresses(l) ==
    /\ Registered(l) /\ l \in table /\ locked[l] \in {0, bank[l]}
    /\ locked' = [locked EXCEPT ![l] = bank[l]]

ForwardThroughSlots(l, A) ==
    /\ Serving /\ Stage(l, A) /\ LockAddresses(l)
    /\ kernels' = {SlotKernel(l, A)}
    /\ UNCHANGED <<config, weightVars, store, originals, released, bank, table,
                   captured, scratch, sharedBytes, ledgerVars>>

ForwardNatively(l, A) ==
    /\ Serving /\ ~FixedSlot(l)
    /\ kernels' = {NativeKernel(l, A)}
    /\ UNCHANGED <<config, weightVars, slotVars, locked, captured, scratch,
                   sharedBytes, ledgerVars>>

\* The boundary comparison runs the layer twice: with the fixed slots suspended,
\* or through them when the original weights are not on the device.
\* Slip: the native run is taken whenever weights are not configured away.
OriginalsUnavailableIfReleased == config.release

OriginalsUnavailable == config.cpuFirst \/ config.release

CompareBoundary(l, A) ==
    /\ Serving /\ Stage(l, A) /\ LockAddresses(l)
    /\ kernels' = {SlotKernel(l, A)} \cup
                  (IF OriginalsUnavailable THEN {} ELSE {NativeKernel(l, A)})
    /\ UNCHANGED <<config, weightVars, store, originals, released, bank, table,
                   captured, scratch, sharedBytes, ledgerVars>>

\* Capture: the stage op does nothing, the graph records the addresses.
Capture(l) ==
    /\ Serving /\ FixedSlot(l) /\ captured[l] = 0
    /\ LockAddresses(l)
    /\ captured' = [captured EXCEPT ![l] = bank[l]]
    /\ kernels' = {}
    /\ UNCHANGED <<config, weightVars, slotVars, scratch, sharedBytes, ledgerVars>>

\* Replay: the stage op runs between the graph's pieces.
Replay(l, A) ==
    /\ Serving /\ captured[l] # 0
    /\ Stage(l, A)
    /\ kernels' = {[SlotKernel(l, A) EXCEPT !.address = captured[l]]}
    /\ UNCHANGED <<config, weightVars, store, originals, released, bank, table, locked,
                   captured, scratch, sharedBytes, ledgerVars>>

--------------------------------------------------------------------------
Load(l) ==
    \/ CreateWeights(l) \/ ProcessNative(l) \/ ProcessCpuFirst(l)
    \/ ProcessAgain(l) \/ RegisterAgain(l) \/ StageFullResidency(l) \/ Release(l)

Account(l) == StagePlan(l) \/ FullLayerPlan(l) \/ RegisterResidentShared(l)

Serve(l) ==
    \/ Capture(l)
    \/ \E A \in Routings :
         \/ ForwardThroughSlots(l, A) \/ ForwardNatively(l, A)
         \/ CompareBoundary(l, A) \/ Replay(l, A)

Next ==
    \/ ReadLedger
    \/ \E l \in Layers : Load(l) \/ Account(l) \/ Serve(l)

Spec == Init /\ [][Next]_vars

--------------------------------------------------------------------------
(***************************************************************************)
(* Properties.                                                             *)
(***************************************************************************)
\* The values of the variables.
TypeOK ==
    /\ config \in Deployments
    /\ params \in [Layers -> {"none", "raw", "formatted", "released"}]
    /\ home \in [Layers -> {"cpu", "npu"}]
    /\ processed \in [Layers -> BOOLEAN]
    /\ loaded \subseteq Layers
    /\ store \in [Layers -> [signed : BOOLEAN, bundles : {{}, Experts}]]
    /\ originals \subseteq Layers /\ released \subseteq Layers
    /\ bank \in [Layers -> 0 .. MaxRegistrations]
    /\ table \subseteq Layers
    /\ mapped \in [Layers -> SUBSET (Experts \cup Shared)]
    /\ locked \in [Layers -> 0 .. MaxRegistrations]
    /\ captured \in [Layers -> 0 .. MaxRegistrations]
    /\ scratch \in [stage : BOOLEAN, users : SUBSET Layers,
                    mappings : SUBSET Layers, full : BOOLEAN]
    /\ sharedBytes \subseteq Layers
    /\ cut \in BOOLEAN

\* What a kernel finds at the place it reads.
Found(k) ==
    IF k.source = "slots"
    THEN IF k.address = bank[k.layer] THEN mapped[k.layer] \ Shared ELSE {}
    ELSE IF params[k.layer] = "formatted" /\ home[k.layer] = "npu"
         THEN Experts ELSE {}

\* Every kernel finds the experts it was routed to: through log2phy at the bank
\* the layer has now, or in parameters that are formatted and on the device;
\* whatever was released, kept on the CPU, registered again or left unregistered.
KernelsHaveWeights == \A k \in kernels : k.active \subseteq Found(k)

\* decide_layered_path.  With the layered runtime off there is nothing to decide.
LayeredPath(layered, l, A, threshold) ==
    IF ~layered THEN "slot_cache"
    ELSE IF Cardinality(A) > threshold
         THEN IF l \notin released THEN "full_weight" ELSE "fail_closed"
         ELSE IF FixedSlot(l) /\ Registered(l) THEN "slot_cache" ELSE "fail_closed"

\* Weights are given up only by a layer that has slots and all of its experts in
\* the host store, also after registrations that raised half way; and the layered
\* path decision never sends a forward to weights that were given up, nor, when
\* there is one, to slots that are not there.
ReleasesAreSafe ==
    \A l \in Layers :
        /\ params[l] = "released" => Registered(l) /\ StoreIsComplete(l)
        /\ \A layered \in BOOLEAN, A \in SUBSET Experts,
              threshold \in 0 .. config.numSlots :
             LET path == LayeredPath(layered, l, A, threshold) IN
             /\ path = "full_weight" => params[l] # "released"
             /\ layered /\ path = "slot_cache" => Registered(l)

\* The bank a graph has recorded stays the layer's bank.
CapturedAddressesStay ==
    [][\A l \in Layers : captured[l] # 0 => bank'[l] = captured[l]]_vars

\* A cached ledger says what computing it again would, unless a registration has
\* raised since it was computed.
LedgerIsFresh == ledger = NoLedger \/ ledger = Ledger \/ cut

\* Before a graph is captured, a static mapping has been filled for all experts
\* (the comment of moe_offload_stage: "the log2phy mapping is STATIC and was
\* already filled for all experts before capture").
StaticMappingsAreFilled ==
    \A l \in Layers :
        Static /\ captured[l] # 0 => mapped[l] = Experts \cup Shared
===========================================================================
