---------------------------- MODULE FixedSlots ----------------------------
(***************************************************************************)
(* The fixed-slot expert cache of one MoE layer while it serves forwards:  *)
(* MoeOffloadRuntime (moe_offload/runtime.py) on the host, which decides   *)
(* which expert occupies which slot, the TransferEngine's H2D stream,      *)
(* which fills the slots, and the compute stream, whose MLP kernels read   *)
(* the slots that the log2phy table names.                                 *)
(*                                                                         *)
(* The host is one thread; what is concurrent with it are the two device   *)
(* streams.  A copy or a kernel is issued by the host and takes effect     *)
(* later, when its stream reaches it.  `result' is a history variable: the *)
(* weights the last finished kernel found in the slots of its experts.     *)
(***************************************************************************)
EXTENDS SlotBank

CONSTANTS
    AsyncLoad,        \* config.async_load
    GraphMode,        \* decode replays ACL graphs (and captures them)
    StaticResidency,  \* Regime A: every expert is staged once, before serving
    SharedSuffix,     \* fused mix-placement: the B2 path runs a shared suffix
    Faults,           \* host-store reads and copies may raise
    MaxPlans,         \* bound: plans staged in a behaviour
    MaxMlps           \* bound: MLP launches in a behaviour

ASSUME ModeAssumption ==
    /\ AsyncLoad \in BOOLEAN /\ GraphMode \in BOOLEAN
    /\ StaticResidency \in BOOLEAN /\ SharedSuffix \in BOOLEAN
    /\ Faults \in BOOLEAN
    /\ MaxPlans \in Nat /\ MaxMlps \in Nat

VARIABLES
    pc,          \* where the host is in the staging of a plan
    plan,        \* unique_active_experts of the plan being staged
    placed,      \* the slot given so far to each expert of the plan
    misses,      \* the experts of the plan that have to be loaded
    stepId,      \* _step_counter
    log2phy,     \* the persistent logical -> physical table
    activeSlots, \* _active_slot_ids_by_layer[layer]
    doneEvents,  \* _slot_compute_done_events: (slot, version) -> MLP to wait for
    raised,      \* the exceptions raised so far, by origin
    copies,      \* copies the H2D stream has still to do
    copySeq,     \* the batches issued to the H2D stream so far
    waitTicket,  \* the last batch the compute stream has been told to wait for
    content,     \* the expert whose weights are physically in each slot
    mlps,        \* the MLP kernels the compute stream has still to finish
    mlpSeq,      \* the MLP kernels issued so far
    result       \* history: what the last finished kernel read, per expert

hostVars == <<pc, plan, placed, misses, stepId, log2phy, activeSlots,
              doneEvents, raised>>
deviceVars == <<copies, copySeq, waitTicket, content, mlps, mlpSeq, result>>
vars == <<bankVars, hostVars, deviceVars>>

NoPlan == [e \in Experts |-> NoSlot]
Remaining == {e \in plan : placed[e] = NoSlot}
LoadSlots == {placed[e] : e \in misses}

Init ==
    /\ BankInit
    /\ pc = "idle" /\ plan = {} /\ placed = NoPlan /\ misses = {}
    /\ stepId = 0
    /\ log2phy = NoPlan
    /\ activeSlots = {}
    /\ doneEvents = {}
    /\ raised = {}
    /\ copies = {} /\ copySeq = 0 /\ waitTicket = 0
    /\ content = [s \in Slots |-> None]
    /\ mlps = {} /\ mlpSeq = 0
    /\ result = [e \in Experts |-> None]

--------------------------------------------------------------------------
(***************************************************************************)
(* Staging.  stage_fixed_slot_plan -> prepare_fixed_slot_plan_into_log2phy *)
(***************************************************************************)

\* A forward asks for a plan.  An oversized working set is rejected before
\* anything changes, so only plans that fit are of interest.
RequestPlan(A) ==
    /\ pc = "idle" /\ stepId < MaxPlans
    /\ A # {} /\ Cardinality(A) <= NumSlots
    /\ StaticResidency => A = Experts /\ stepId = 0
    /\ pc' = "draining" /\ plan' = A
    /\ UNCHANGED <<bankVars, placed, misses, stepId, log2phy, activeSlots,
                   doneEvents, raised, deviceVars>>

HasEvent(s) ==
    \E ev \in doneEvents : ev.slot = s /\ ev.version = slotVersion[s]

\* _synchronize_event blocks the host until the kernel the event follows,
\* and therefore every earlier one, is finished.
EventsReached(S) ==
    \A ev \in doneEvents : ev.slot \in S => \A m \in mlps : m.id > ev.mlp

\* What _drain_slot_bank_inflight_work cannot drain: a reservation without a
\* copy behind it, a compute without a completion event.
Undrainable ==
    \/ SlotsIn("loading") # {}
    \/ \E s \in SlotsIn("computing") : ~HasEvent(s)

\* Slip: the slots are taken back without waiting for their events.
DrainWithoutWait ==
    /\ pc = "draining"
    /\ ~Undrainable
    /\ doneEvents' = {ev \in doneEvents : ev.slot \notin SlotsIn("computing")}
    /\ SetState(SlotsIn("computing"), "ready")
    /\ stepId' = stepId + 1
    /\ placed' = NoPlan /\ misses' = {}
    /\ pc' = "placing"
    /\ UNCHANGED <<plan, log2phy, activeSlots, raised, deviceVars>>

\* Slip: the events are looked up but not removed.
DrainKeepsEvents ==
    /\ pc = "draining"
    /\ ~Undrainable
    /\ GraphMode => mlps = {}
    /\ EventsReached(SlotsIn("computing"))
    /\ SetState(SlotsIn("computing"), "ready")
    /\ stepId' = stepId + 1
    /\ placed' = NoPlan /\ misses' = {}
    /\ pc' = "placing"
    /\ UNCHANGED <<plan, log2phy, activeSlots, doneEvents, raised, deviceVars>>

\* The preceding execution completes before the plan reserves its misses.  In
\* graph mode the stage op has just copied topk_ids to the host, which waits
\* for everything on the compute stream, graph replays included.
Drain ==
    /\ pc = "draining"
    /\ ~Undrainable
    /\ GraphMode => mlps = {}
    /\ EventsReached(SlotsIn("computing"))
    /\ doneEvents' = {ev \in doneEvents : ev.slot \notin SlotsIn("computing")}
    /\ SetState(SlotsIn("computing"), "ready")
    /\ stepId' = stepId + 1
    /\ placed' = NoPlan /\ misses' = {}
    /\ pc' = "placing"
    /\ UNCHANGED <<plan, log2phy, activeSlots, raised, deviceVars>>

\* Slip: the drain goes on waiting for a LOADING slot instead of raising.
DrainAwaitsLoading ==
    /\ pc = "draining"
    /\ Undrainable
    /\ SlotsIn("loading") = {}
    /\ doneEvents' = {ev \in doneEvents :
                         \E s \in SlotsIn("computing") : s < ev.slot /\ ~HasEvent(s)}
    /\ raised' = raised \cup {"drain"}
    /\ pc' = "idle"
    /\ UNCHANGED <<bankVars, plan, placed, misses, stepId, log2phy,
                   activeSlots, deviceVars>>

\* The drain raises.  For a LOADING slot it first waits for the H2D stream; for
\* a COMPUTING one, the events of the slots it had already visited are gone,
\* and those slots stay COMPUTING.
DrainRaises ==
    /\ pc = "draining"
    /\ Undrainable
    /\ SlotsIn("loading") # {} => copies = {}
    /\ doneEvents' = IF SlotsIn("loading") # {} THEN doneEvents
                     ELSE {ev \in doneEvents :
                             \E s \in SlotsIn("computing") : s < ev.slot /\ ~HasEvent(s)}
    /\ raised' = raised \cup {"drain"}
    /\ pc' = "idle"
    /\ UNCHANGED <<bankVars, plan, placed, misses, stepId, log2phy,
                   activeSlots, deviceVars>>

\* One iteration of the placement loop, for an expert that is READY.
PlaceHit(e) ==
    /\ pc = "placing" /\ e \in Remaining
    /\ resident[e] # NoSlot /\ slotState[resident[e]] = "ready"
    /\ Touch(resident[e], stepId)
    /\ placed' = [placed EXCEPT ![e] = resident[e]]
    /\ UNCHANGED <<pc, plan, misses, stepId, log2phy, activeSlots, doneEvents,
                   raised, deviceVars>>

\* ... and for one that has to be brought in.
PlaceMiss(e) ==
    /\ pc = "placing" /\ e \in Remaining
    /\ resident[e] = NoSlot
    /\ \E s \in Slots :
          /\ Allocatable(s)
          /\ Reserve(s, e, stepId)
          /\ placed' = [placed EXCEPT ![e] = s]
    /\ misses' = misses \cup {e}
    /\ UNCHANGED <<pc, plan, stepId, log2phy, activeSlots, doneEvents, raised,
                   deviceVars>>

\* host_store.get raises after the slot was reserved: nothing is undone.
HostStoreRaises(e) ==
    /\ Faults
    /\ pc = "placing" /\ e \in Remaining
    /\ resident[e] = NoSlot
    /\ \E s \in Slots : Allocatable(s) /\ Reserve(s, e, stepId)
    /\ raised' = raised \cup {"host_store"}
    /\ pc' = "idle"
    /\ UNCHANGED <<plan, placed, misses, stepId, log2phy, activeSlots,
                   doneEvents, deviceVars>>

\* Every expert of the plan was a hit: there is nothing to load.
AllHits ==
    /\ pc = "placing" /\ Remaining = {} /\ misses = {}
    /\ pc' = "publishing"
    /\ UNCHANGED <<bankVars, plan, placed, misses, stepId, log2phy,
                   activeSlots, doneEvents, raised, deviceVars>>

\* load_many_sync copies on the current stream, hence after the kernels that
\* are queued there, and blocks until the weights are in place.
LoadSync ==
    /\ ~AsyncLoad
    /\ pc = "placing" /\ Remaining = {} /\ misses # {}
    /\ mlps = {}
    /\ content' = [s \in Slots |-> IF s \in LoadSlots THEN slotKey[s] ELSE content[s]]
    /\ SetState(LoadSlots, "ready")
    /\ pc' = "publishing"
    /\ UNCHANGED <<plan, placed, misses, stepId, log2phy, activeSlots,
                   doneEvents, raised, copies, copySeq, waitTicket, mlps,
                   mlpSeq, result>>

CopiesInto(S, ticket) ==
    {[slot |-> s, expert |-> slotKey[s], ticket |-> ticket] : s \in S}

\* load_many_async queues one batch on the H2D stream and records its event.
LoadAsync ==
    /\ AsyncLoad
    /\ pc = "placing" /\ Remaining = {} /\ misses # {}
    /\ copySeq' = copySeq + 1
    /\ copies' = copies \cup CopiesInto(LoadSlots, copySeq + 1)
    /\ pc' = "waiting"
    /\ UNCHANGED <<bankVars, plan, placed, misses, stepId, log2phy,
                   activeSlots, doneEvents, raised, waitTicket, content, mlps,
                   mlpSeq, result>>

\* Slip: the failed batch is not rolled back.
LoadRaisesKeepsSlots(S) ==
    /\ Faults
    /\ pc = "placing" /\ Remaining = {} /\ misses # {}
    /\ S = {}
    /\ raised' = raised \cup {"load"}
    /\ pc' = "idle"
    /\ UNCHANGED <<bankVars, plan, placed, misses, stepId, log2phy,
                   activeSlots, doneEvents, deviceVars>>

\* A load raises half way, after the copies of some of the slots: the
\* reservations that are still LOADING are released.
LoadRaises(S) ==
    /\ Faults
    /\ pc = "placing" /\ Remaining = {} /\ misses # {}
    /\ S \subseteq LoadSlots
    /\ IF AsyncLoad
         THEN /\ copySeq' = copySeq + 1
              /\ copies' = copies \cup CopiesInto(S, copySeq + 1)
              /\ UNCHANGED content
         ELSE /\ mlps = {}
              /\ content' = [s \in Slots |-> IF s \in S THEN slotKey[s] ELSE content[s]]
              /\ UNCHANGED <<copySeq, copies>>
    /\ Clear(LoadSlots)
    /\ raised' = raised \cup {"load"}
    /\ pc' = "idle"
    /\ UNCHANGED <<plan, placed, misses, stepId, log2phy, activeSlots,
                   doneEvents, waitTicket, mlps, mlpSeq, result>>

\* Slip: READY is published, the dependency is not installed.
InstallNoWait ==
    /\ pc = "waiting"
    /\ SetState(LoadSlots, "ready")
    /\ pc' = "publishing"
    /\ UNCHANGED <<plan, placed, misses, stepId, log2phy, activeSlots,
                   doneEvents, raised, deviceVars>>

\* install_consumer_dependency: the compute stream waits for the batch, and
\* only then the slots are called READY.
InstallWait ==
    /\ pc = "waiting"
    /\ waitTicket' = copySeq
    /\ SetState(LoadSlots, "ready")
    /\ pc' = "publishing"
    /\ UNCHANGED <<plan, placed, misses, stepId, log2phy, activeSlots,
                   doneEvents, raised, copies, copySeq, content, mlps, mlpSeq,
                   result>>

\* Slip: an entry that was written once is taken to be still right.
PublishOnlyNew ==
    /\ pc = "publishing"
    /\ log2phy' = [e \in Experts |-> IF e \in plan /\ log2phy[e] = NoSlot
                                      THEN placed[e] ELSE log2phy[e]]
    /\ activeSlots' = {placed[e] : e \in plan}
    /\ pc' = IF StaticResidency THEN "idle" ELSE "prepared"
    /\ UNCHANGED <<bankVars, plan, placed, misses, stepId, doneEvents, raised,
                   deviceVars>>

\* Slip: logical ids are remembered where slot ids are meant.
PublishLogicalIds ==
    /\ pc = "publishing"
    /\ log2phy' = [e \in Experts |-> IF e \in plan THEN placed[e] ELSE log2phy[e]]
    /\ activeSlots' = plan
    /\ pc' = IF StaticResidency THEN "idle" ELSE "prepared"
    /\ UNCHANGED <<bankVars, plan, placed, misses, stepId, doneEvents, raised,
                   deviceVars>>

\* The table gets the entries of the active experts; the entries of experts
\* that were evicted stay as they are.
Publish ==
    /\ pc = "publishing"
    /\ log2phy' = [e \in Experts |-> IF e \in plan THEN placed[e] ELSE log2phy[e]]
    /\ activeSlots' = {placed[e] : e \in plan}
    /\ pc' = IF StaticResidency THEN "idle" ELSE "prepared"
    /\ UNCHANGED <<bankVars, plan, placed, misses, stepId, doneEvents, raised,
                   deviceVars>>

--------------------------------------------------------------------------
(***************************************************************************)
(* Computing.  fused_experts brackets an eager MLP with begin_slot_compute *)
(* and end_slot_compute; a graph replay runs neither.                      *)
(***************************************************************************)

\* In Regime A the forwards that follow the one staging compute straight away.
Serving ==
    \/ pc = "prepared"
    \/ StaticResidency /\ pc = "idle" /\ activeSlots # {}

\* The kernel resolves the experts of the plan through log2phy, after the
\* copies its stream has been told to wait for.
Launch ==
    /\ mlpSeq < MaxMlps
    /\ mlpSeq' = mlpSeq + 1
    /\ mlps' = mlps \cup {[id |-> mlpSeq + 1, experts |-> plan,
                           reads |-> log2phy, after |-> waitTicket]}
    /\ UNCHANGED <<copies, copySeq, waitTicket, content, result>>

\* end_slot_compute: one completion event per leased slot.
EventsAt(S, mlp) ==
    {[slot |-> s, version |-> slotVersion[s], mlp |-> mlp] : s \in S}

EagerCompute ==
    /\ Serving
    /\ \A s \in activeSlots : slotState[s] = "ready"
    /\ SetState(activeSlots, "computing")
    /\ Launch
    /\ doneEvents' = doneEvents \cup EventsAt(activeSlots, mlpSeq + 1)
    /\ pc' = "idle"
    /\ UNCHANGED <<plan, placed, misses, stepId, log2phy, activeSlots, raised>>

\* begin_slot_compute finds a slot that is not READY and raises, in a forward or
\* for the shared suffix (below).
BeginRaises ==
    /\ Serving \/ (SharedSuffix /\ pc = "idle")
    /\ \E s \in activeSlots : slotState[s] # "ready"
    /\ raised' = raised \cup {"begin"}
    /\ pc' = "idle"
    /\ UNCHANGED <<bankVars, plan, placed, misses, stepId, log2phy,
                   activeSlots, doneEvents, deviceVars>>

\* A captured graph is replayed: no host code runs around its MLP.
Replay ==
    /\ GraphMode
    /\ Serving
    /\ Launch
    /\ pc' = "idle"
    /\ UNCHANGED <<bankVars, plan, placed, misses, stepId, log2phy,
                   activeSlots, doneEvents, raised>>

\* Graph capture records the MLP without running it.  A slot that an eager
\* forward left COMPUTING is handed over: its completion event is dropped, not
\* waited for, and the event recorded by the capture stream, which follows the
\* kernels launched so far, takes its place.
Capture ==
    /\ GraphMode
    /\ pc = "idle" /\ activeSlots # {}
    /\ \A s \in activeSlots :
          \/ slotState[s] = "ready"
          \/ slotState[s] = "computing" /\ HasEvent(s)
    /\ doneEvents' = {ev \in doneEvents : ev.slot \notin activeSlots}
                       \cup EventsAt(activeSlots, mlpSeq)
    /\ SetState(activeSlots, "computing")
    /\ UNCHANGED <<pc, plan, placed, misses, stepId, log2phy, activeSlots,
                   raised, deviceVars>>

\* _run_b2_fused_shared_once: the layer's forward overflowed, so nothing was
\* staged for it; the shared suffix is bracketed by begin_slot_compute alone,
\* for the slots of the last plan.  However the native kernel inside ends,
\* fused_experts leaves before the try block whose finally calls
\* end_slot_compute.
SharedSuffixCompute ==
    /\ SharedSuffix
    /\ pc = "idle" /\ activeSlots # {}
    /\ \A s \in activeSlots : slotState[s] = "ready"
    /\ SetState(activeSlots, "computing")
    /\ UNCHANGED <<hostVars, deviceVars>>

--------------------------------------------------------------------------
(***************************************************************************)
(* The device.  Each stream works through what it was given in order.      *)
(***************************************************************************)
CopyDone(c) ==
    /\ c \in copies
    /\ \A d \in copies : c.ticket <= d.ticket
    /\ copies' = copies \ {c}
    /\ content' = [content EXCEPT ![c.slot] = c.expert]
    /\ UNCHANGED <<bankVars, hostVars, copySeq, waitTicket, mlps, mlpSeq, result>>

\* The kernel at the head of the compute stream has nothing left to wait for.
Runnable(m) ==
    /\ \A n \in mlps : m.id <= n.id
    /\ \A c \in copies : c.ticket > m.after

WeightsFor(m, e) ==
    IF e \in m.experts /\ m.reads[e] # NoSlot THEN content[m.reads[e]] ELSE None

MlpDone(m) ==
    /\ m \in mlps
    /\ Runnable(m)
    /\ mlps' = mlps \ {m}
    /\ result' = [e \in Experts |-> WeightsFor(m, e)]
    /\ UNCHANGED <<bankVars, hostVars, copies, copySeq, waitTicket, content, mlpSeq>>

--------------------------------------------------------------------------
Staging ==
    \/ Drain
    \/ DrainRaises
    \/ \E e \in Experts : PlaceHit(e) \/ PlaceMiss(e)
    \/ AllHits
    \/ LoadSync
    \/ LoadAsync
    \/ InstallWait
    \/ Publish

HostFault ==
    \/ \E e \in Experts : HostStoreRaises(e)
    \/ \E S \in SUBSET Slots : LoadRaises(S)

Computing ==
    \/ EagerCompute
    \/ BeginRaises
    \/ Replay
    \/ Capture
    \/ SharedSuffixCompute

Device ==
    \/ \E c \in copies : CopyDone(c)
    \/ \E m \in mlps : MlpDone(m)

Next ==
    \/ \E A \in SUBSET Experts : RequestPlan(A)
    \/ Staging
    \/ HostFault
    \/ Computing
    \/ Device

Spec == Init /\ [][Next]_vars

\* The host runs on, and the device streams make progress.  Whether a forward
\* asks for a plan, and whether it then computes, is up to the caller.
FairSpec == Spec /\ WF_vars(Staging) /\ WF_vars(Device)

--------------------------------------------------------------------------
CopyRecord == [slot : Slots, expert : Experts, ticket : Nat]
EventRecord == [slot : Slots, version : Nat, mlp : Nat]
MlpRecord == [id : Nat, experts : SUBSET Experts,
              reads : [Experts -> Slots \cup {NoSlot}], after : Nat]

PcValues == {"idle", "draining", "placing", "waiting", "publishing", "prepared"}
Origins == {"drain", "begin", "host_store", "load"}

\* The bank, the table, the plan in hand and both streams stay in their domains.
TypeOK ==
    /\ BankTypeOK
    /\ pc \in PcValues
    /\ plan \in SUBSET Experts
    /\ placed \in [Experts -> Slots \cup {NoSlot}]
    /\ misses \in SUBSET Experts
    /\ stepId \in Nat
    /\ log2phy \in [Experts -> Slots \cup {NoSlot}]
    /\ activeSlots \in SUBSET Slots
    /\ doneEvents \in SUBSET EventRecord
    /\ raised \in SUBSET Origins
    /\ copies \in SUBSET CopyRecord
    /\ copySeq \in Nat /\ waitTicket \in Nat
    /\ content \in [Slots -> Experts \cup {None}]
    /\ mlps \in SUBSET MlpRecord
    /\ mlpSeq \in Nat
    /\ result \in [Experts -> Experts \cup {None}]

(***************************************************************************)
(* A kernel that may be running finds, in the slot that log2phy gave to    *)
(* each of its experts, the weights of that expert, for as long as it may  *)
(* run: no eviction, refill or late copy overtakes it.  (README: "event    *)
(* ordering between compute and transfer streams guarantees that           *)
(* asynchronous loads never overwrite a slot still referenced by in-flight *)
(* compute".)                                                              *)
(***************************************************************************)
KernelsReadTheirExperts ==
    \A m \in mlps : Runnable(m) =>
        \A e \in m.experts : WeightsFor(m, e) = e

(***************************************************************************)
(* Every copy on its way into a slot that an unfinished kernel reads is    *)
(* one that the kernel's stream waits for first: nothing is copied under a *)
(* reader.                                                                 *)
(***************************************************************************)
NoCopyUnderAReader ==
    \A m \in mlps : \A c \in copies : \A e \in m.experts :
        m.reads[e] = c.slot => c.ticket <= m.after

(***************************************************************************)
(* A plan that fits the bank is always placed: while it is staged, each    *)
(* expert that is still to be placed is either READY or absent, and in the *)
(* second case there is a slot to take that no expert of the same plan has *)
(* been given.  So the drain inside the placement loop and the one of      *)
(* _allocate_slot_with_loading_fallback are never needed, and the LRU      *)
(* never takes the slot of an expert placed a moment ago.                  *)
(***************************************************************************)
PlansAreServiceable ==
    pc = "placing" => \A e \in Remaining :
        \/ resident[e] # NoSlot /\ slotState[resident[e]] = "ready"
        \/ /\ resident[e] = NoSlot
           /\ \E s \in Slots : Allocatable(s)
           /\ \A s \in Slots : Allocatable(s) =>
                 \A x \in plan : placed[x] # s

(***************************************************************************)
(* A completion event stands for exactly one leased slot: it is there only *)
(* while its slot is COMPUTING in the generation it was recorded for.  No  *)
(* event outlives its lease, to be mistaken for that of a later owner.     *)
(***************************************************************************)
EventsMatchLeases ==
    \A ev \in doneEvents :
        /\ slotState[ev.slot] = "computing"
        /\ slotVersion[ev.slot] = ev.version
        /\ \A f \in doneEvents : f.slot = ev.slot => f = ev

(***************************************************************************)
(* What is published is usable: between the publication of a plan and its  *)
(* compute, every expert of the plan is mapped to a READY slot it owns,    *)
(* and no two experts share one.                                           *)
(***************************************************************************)
PublishedPlanIsOwned ==
    pc = "prepared" => \A e \in plan :
        /\ log2phy[e] \in activeSlots
        /\ slotKey[log2phy[e]] = e
        /\ slotState[log2phy[e]] = "ready"

(***************************************************************************)
(* From the first placement to the compute, a plan that fits the bank is   *)
(* served: each of its experts can be placed while it is staged, and owns  *)
(* the slot it is mapped to once it is published.                          *)
(***************************************************************************)
PlansAreSound == PlansAreServiceable /\ PublishedPlanIsOwned

(***************************************************************************)
(* The runtime's own sanity checks never trip on its own account: the      *)
(* drain finds an event for every computing slot and a copy for every      *)
(* loading one, unless the host store raised earlier.                      *)
(***************************************************************************)
DrainNeedsAStoreFailure == "drain" \in raised => "host_store" \in raised

\* begin_slot_compute accepts every forward whose weights are staged.
BeginNeverRaises == "begin" \notin raised

(***************************************************************************)
(* Every lease is on its way back: a COMPUTING slot has the completion     *)
(* event of its generation.  (The drain's assertion "computing slot has no *)
(* completion event".)                                                     *)
(***************************************************************************)
LeasesHaveEvents == \A s \in SlotsIn("computing") : HasEvent(s)

(***************************************************************************)
(* Leases and completion events are one to one: each COMPUTING slot has    *)
(* the event of its generation, and no other event exists.                 *)
(***************************************************************************)
LeasesAreAccounted == EventsMatchLeases /\ LeasesHaveEvents

(***************************************************************************)
(* A failed load leaves the bank as if the plan had not been asked for: no *)
(* reservation survives it.                                                *)
(***************************************************************************)
NoLeftoverReservation ==
    pc = "idle" /\ "host_store" \notin raised => SlotsIn("loading") = {}

(***************************************************************************)
(* A copy that raises is contained: its plan gives its reservations back   *)
(* and the drains that follow find nothing they would have to refuse.      *)
(***************************************************************************)
FailuresAreContained == NoLeftoverReservation /\ DrainNeedsAStoreFailure

(***************************************************************************)
(* While a kernel may be running the weights of the slots it reads stay    *)
(* under the same lease: their owner and generation do not change.         *)
(***************************************************************************)
LeasesOutliveKernels ==
    [][\A m \in mlps \cap mlps' : \A e \in m.experts :
          LET s == m.reads[e] IN
            s \in Slots => slotKey'[s] = slotKey[s]
                           /\ slotVersion'[s] = slotVersion[s]]_vars

(***************************************************************************)
(* A requested plan is always settled: the drain does not wait for an      *)
(* event that cannot come, and the staging ends, with the weights prepared *)
(* or with an exception.                                                   *)
(***************************************************************************)
PlansSettle == pc = "draining" ~> pc \in {"idle", "prepared"}

(***************************************************************************)
(* Refinement: the cache is transparent.  Launches and completions are     *)
(* those of a layer whose experts are all resident; staging, eviction and  *)
(* copying do not show.                                                    *)
(***************************************************************************)
MoeQueue == {[id |-> m.id, experts |-> m.experts] : m \in mlps}

Abstract == INSTANCE MoeLayer WITH issued <- mlpSeq, queue <- MoeQueue,
                                   used <- result

\* The cache is transparent: seen from the compute stream, the fixed slots are
\* a layer whose weights are all resident (MoeLayer).
AbstractSpec == Abstract!Spec
===========================================================================
