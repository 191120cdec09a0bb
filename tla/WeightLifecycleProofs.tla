----------------------- MODULE WeightLifecycleProofs -----------------------
(***************************************************************************)
(* Proofs about WeightLifecycle, for all layers, experts and deployments:  *)
(* released weights are in the host store, captured addresses stay, the    *)
(* memory ledger is fresh, and, where static mappings are loaded natively, *)
(* kernels find their weights.                                             *)
(***************************************************************************)
EXTENDS WeightLifecycle, TLAPS

(***************************************************************************)
(* The inductive invariant.  The lock is what ties a layer to its bank: an *)
(* address is locked before a graph or a kernel depends on it, and nothing *)
(* is registered under a lock.                                             *)
(***************************************************************************)
UnloadedHasNoBank == \A l \in Layers : params[l] \in {"none", "raw"} => bank[l] = 0
LockIsTheBank == \A l \in Layers : locked[l] \in {0, bank[l]}
CaptureIsLocked == \A l \in Layers : captured[l] \in {0, locked[l]}

ReleasedIsStored ==
    \A l \in Layers : params[l] = "released" =>
        /\ l \in released /\ Registered(l) /\ StoreIsComplete(l)
        /\ config.release /\ FixedSlot(l)

GraphInv ==
    /\ TypeOK
    /\ UnloadedHasNoBank
    /\ LockIsTheBank
    /\ CaptureIsLocked
    /\ ReleasedIsStored

\* No deployment gives every expert a slot and loads the layers CPU-first: the
\* mapping of such a layer is never filled (StaticMappingsAreFilled).
StaticIsLoadedNatively ==
    \A d \in Deployments : d.cpuFirst => ~(d.numSlots >= Cardinality(Experts))

NativeIsOnDevice == \A l \in Layers : ~CpuFirst(l) => home[l] = "npu"
MarkedIsCpuFirst ==
    \A l \in Layers : processed[l] =>
        CpuFirst(l) /\ params[l] \in {"formatted", "released"}
LoadedIsFormatted == \A l \in loaded : params[l] \in {"formatted", "released"}
StaticIsMapped ==
    \A l \in loaded : Static /\ FixedSlot(l) => Experts \subseteq mapped[l]

SlotKernelReads(k) ==
    /\ k.address = bank[k.layer] /\ locked[k.layer] = bank[k.layer]
    /\ Registered(k.layer)
    /\ k.active \subseteq mapped[k.layer]
NativeKernelReads(k) ==
    /\ params[k.layer] = "formatted" /\ home[k.layer] = "npu"
    /\ ~config.release \/ ~FixedSlot(k.layer)
    /\ k.active \subseteq Experts
KernelReads(k) ==
    /\ k.layer \in loaded /\ k.active \cap Shared = {}
    /\ IF k.source = "slots" THEN SlotKernelReads(k) ELSE NativeKernelReads(k)

KernelInv ==
    /\ NativeIsOnDevice
    /\ MarkedIsCpuFirst
    /\ LoadedIsFormatted
    /\ StaticIsMapped
    /\ \A k \in kernels : KernelReads(k)

--------------------------------------------------------------------------
(***************************************************************************)
(* The steps that only account leave all of this alone.                    *)
(***************************************************************************)
Kept ==
    UNCHANGED <<config, params, home, processed, loaded, store, released, bank,
                mapped, locked, captured, kernels>>

LEMMA KeepsInvariant ==
    ASSUME Kept
    PROVE  /\ UnloadedHasNoBank' = UnloadedHasNoBank
           /\ LockIsTheBank' = LockIsTheBank
           /\ CaptureIsLocked' = CaptureIsLocked
           /\ ReleasedIsStored' = ReleasedIsStored
           /\ KernelInv' = KernelInv
BY DEF Kept, UnloadedHasNoBank, LockIsTheBank, CaptureIsLocked, ReleasedIsStored,
       KernelInv, NativeIsOnDevice, MarkedIsCpuFirst, LoadedIsFormatted,
       StaticIsMapped, KernelReads, SlotKernelReads, NativeKernelReads, Registered,
       StoreIsComplete, FixedSlot, CpuFirst, Static

LEMMA AccountingKeeps ==
    ASSUME NEW l \in Layers, Account(l) \/ ReadLedger \/ UNCHANGED vars
    PROVE  Kept
BY DEF Kept, Account, StagePlan, FullLayerPlan, RegisterResidentShared, ReadLedger,
       vars, weightVars, slotVars, graphVars

--------------------------------------------------------------------------
(***************************************************************************)
(* Registrations, on an invariant's variables.                             *)
(***************************************************************************)
Bundles == [signed : BOOLEAN, bundles : {{}, Experts}]
Pools == [stage : BOOLEAN, users : SUBSET Layers, mappings : SUBSET Layers,
          full : BOOLEAN]

SlotTypes ==
    /\ store \in [Layers -> Bundles]
    /\ originals \subseteq Layers /\ released \subseteq Layers
    /\ bank \in [Layers -> 0 .. MaxRegistrations]
    /\ table \subseteq Layers
    /\ mapped \in [Layers -> SUBSET (Experts \cup Shared)]
    /\ scratch \in Pools

LEMMA StagePlanDropped ==
    ASSUME SlotTypes, NEW l \in Layers
    PROVE  WithoutStagePlan(l) \in Pools
<1>1. scratch \in Pools
  BY DEF SlotTypes
<1>2. /\ scratch.users \ {l} \in SUBSET Layers
      /\ scratch.mappings \ {l} \in SUBSET Layers
  BY <1>1 DEF Pools
<1> QED BY <1>1, <1>2 DEF WithoutStagePlan, Pools

LEMMA FullRegistrationTypes ==
    ASSUME SlotTypes, NEW l \in Layers, bank[l] < MaxRegistrations,
           NEW releases \in BOOLEAN, NEW stages \in BOOLEAN,
           RegisterFully(l, releases, stages)
    PROVE  SlotTypes'
<1>1. store' \in [Layers -> Bundles]
  BY DEF SlotTypes, RegisterFully, Bundles
<1>2. originals' \subseteq Layers /\ released' \subseteq Layers
  BY DEF SlotTypes, RegisterFully
<1>3. bank' \in [Layers -> 0 .. MaxRegistrations]
  BY LifecycleAssumption DEF SlotTypes, RegisterFully
<1>4. mapped' \in [Layers -> SUBSET (Experts \cup Shared)]
  BY DEF SlotTypes, RegisterFully
<1>5. scratch' \in Pools
  BY StagePlanDropped DEF RegisterFully
<1>6. table' \subseteq Layers
  BY DEF SlotTypes, RegisterFully
<1> QED BY <1>1, <1>2, <1>3, <1>4, <1>5, <1>6 DEF SlotTypes

LEMMA FailedRegistrationTypes ==
    ASSUME SlotTypes, NEW l \in Layers, bank[l] < MaxRegistrations,
           RegistrationRaises(l)
    PROVE  SlotTypes'
<1>1. CASE HostCopyRaises(l)
  <2>1. store' \in [Layers -> Bundles]
    BY <1>1 DEF SlotTypes, HostCopyRaises, Bundles
  <2> QED BY <1>1, <2>1 DEF SlotTypes, HostCopyRaises
<1>2. ASSUME HostCopied(l)
      PROVE  /\ store' \in [Layers -> Bundles]
             /\ originals' \subseteq Layers /\ released' \subseteq Layers
  BY <1>2 DEF SlotTypes, HostCopied, Bundles
<1>3. CASE BankRaises(l)
  BY <1>2, <1>3 DEF SlotTypes, BankRaises
<1>4. CASE LanesRaise(l)
  <2>1. bank' \in [Layers -> 0 .. MaxRegistrations]
    BY <1>4, LifecycleAssumption DEF SlotTypes, LanesRaise
  <2>2. mapped' \in [Layers -> SUBSET (Experts \cup Shared)]
    BY <1>4 DEF SlotTypes, LanesRaise
  <2>3. scratch' \in Pools
    BY <1>4, StagePlanDropped DEF SlotTypes, LanesRaise
  <2> QED BY <1>2, <1>4, <2>1, <2>2, <2>3 DEF SlotTypes, LanesRaise
<1> QED BY <1>1, <1>3, <1>4 DEF RegistrationRaises

(***************************************************************************)
(* A registration that failed leaves the other layers alone.               *)
(***************************************************************************)
LEMMA FailureLeaves ==
    ASSUME SlotTypes, NEW l \in Layers, RegistrationRaises(l)
    PROVE  /\ released' = released
           /\ \A k \in Layers : k # l =>
                 /\ store'[k] = store[k] /\ bank'[k] = bank[k]
                 /\ mapped'[k] = mapped[k]
<1>1. CASE HostCopyRaises(l)
  BY <1>1 DEF SlotTypes, HostCopyRaises
<1>2. CASE BankRaises(l)
  BY <1>2 DEF SlotTypes, BankRaises, HostCopied
<1>3. CASE LanesRaise(l)
  <2>1. /\ store' = [store EXCEPT ![l] = [signed |-> TRUE, bundles |-> Experts]]
        /\ bank' = [bank EXCEPT ![l] = @ + 1]
        /\ released' = released
        /\ \E m \in {{}, Shared} : mapped' = [mapped EXCEPT ![l] = m]
    BY <1>3 DEF LanesRaise, HostCopied
  <2> QED BY <2>1 DEF SlotTypes
<1> QED BY <1>1, <1>2, <1>3 DEF RegistrationRaises

(***************************************************************************)
(* What a registration to the end gives the layer.                         *)
(***************************************************************************)
LEMMA RegistrationGives ==
    ASSUME SlotTypes, NEW l \in Layers, NEW releases \in BOOLEAN,
           NEW stages \in BOOLEAN, RegisterFully(l, releases, stages)
    PROVE  /\ Registered(l)' /\ StoreIsComplete(l)'
           /\ releases => l \in released'
           /\ released \subseteq released'
           /\ mapped'[l] = IF stages THEN Experts \cup Shared ELSE Shared
           /\ \A k \in Layers : k # l =>
                 /\ store'[k] = store[k] /\ bank'[k] = bank[k]
                 /\ mapped'[k] = mapped[k]
<1>1. bank' = [bank EXCEPT ![l] = @ + 1] /\ bank[l] \in Nat
  BY LifecycleAssumption DEF SlotTypes, RegisterFully
<1>2. store' = [store EXCEPT ![l] = [signed |-> TRUE, bundles |-> Experts]]
  BY DEF RegisterFully
<1>3. Registered(l)' /\ StoreIsComplete(l)'
  BY <1>1, <1>2 DEF SlotTypes, Registered, StoreIsComplete
<1> QED BY <1>1, <1>2, <1>3 DEF SlotTypes, RegisterFully

--------------------------------------------------------------------------
(***************************************************************************)
(* Types, and the facts about locks and releases.                          *)
(***************************************************************************)
LEMMA TypesOfSlots == TypeOK => SlotTypes
BY DEF TypeOK, SlotTypes, Bundles, Pools

LEMMA DeploymentTypes ==
    ASSUME TypeOK
    PROVE  /\ config.numSlots \in Nat \ {0} /\ config.resident \subseteq Layers
           /\ config.cpuFirst \in BOOLEAN /\ config.release \in BOOLEAN
           /\ Static \in BOOLEAN
BY LifecycleAssumption DEF TypeOK, Static

Loading == UNCHANGED <<config, locked, captured, kernels, sharedBytes>>

\* A registration of a layer that has no bank yet, or no lock.
RegistersUnlocked(l) ==
    /\ Loading /\ home' = home /\ bank[l] < MaxRegistrations
    /\ locked[l] = 0 /\ params[l] # "released"
    /\ \/ /\ RegistrationRaises(l)
          /\ params' = [params EXCEPT ![l] = "formatted"]
          /\ params[l] \in {"raw", "formatted"}
       \/ \E releases, stages \in BOOLEAN :
             /\ RegisterFully(l, releases, stages)
             /\ params' = [params EXCEPT ![l] = IF releases THEN "released" ELSE "formatted"]
             /\ releases => config.release /\ FixedSlot(l)

LEMMA RegistrationKeepsGraphInv ==
    ASSUME GraphInv, NEW l \in Layers, RegistersUnlocked(l)
    PROVE  /\ SlotTypes' /\ params' \in [Layers -> {"none", "raw", "formatted", "released"}]
           /\ UnloadedHasNoBank' /\ LockIsTheBank' /\ CaptureIsLocked'
           /\ ReleasedIsStored'
<1> USE DEF GraphInv
<1>0. SlotTypes
  BY TypesOfSlots
<1>1. /\ params \in [Layers -> {"none", "raw", "formatted", "released"}]
      /\ config' = config /\ locked' = locked /\ captured' = captured
      /\ locked[l] = 0
  BY DEF TypeOK, RegistersUnlocked, Loading
<1>2. CASE /\ RegistrationRaises(l)
           /\ params' = [params EXCEPT ![l] = "formatted"]
           /\ params[l] \in {"raw", "formatted"}
  <2>1. SlotTypes'
    BY <1>0, <1>2, FailedRegistrationTypes DEF RegistersUnlocked
  <2>2. /\ released' = released
        /\ \A k \in Layers : k # l => store'[k] = store[k] /\ bank'[k] = bank[k]
    BY <1>0, <1>2, FailureLeaves
  <2>3. params' \in [Layers -> {"none", "raw", "formatted", "released"}]
        /\ params'[l] = "formatted" /\ \A k \in Layers : k # l => params'[k] = params[k]
    BY <1>1, <1>2
  <2>4. UnloadedHasNoBank' /\ LockIsTheBank' /\ CaptureIsLocked'
    BY <1>1, <2>2, <2>3 DEF UnloadedHasNoBank, LockIsTheBank, CaptureIsLocked
  <2>5. ReleasedIsStored'
    BY <1>1, <2>2, <2>3 DEF ReleasedIsStored, Registered, StoreIsComplete, FixedSlot
  <2> QED BY <2>1, <2>3, <2>4, <2>5
<1>3. ASSUME NEW releases \in BOOLEAN, NEW stages \in BOOLEAN,
             RegisterFully(l, releases, stages),
             params' = [params EXCEPT ![l] = IF releases THEN "released" ELSE "formatted"],
             releases => config.release /\ FixedSlot(l)
      PROVE  /\ SlotTypes'
             /\ params' \in [Layers -> {"none", "raw", "formatted", "released"}]
             /\ UnloadedHasNoBank' /\ LockIsTheBank' /\ CaptureIsLocked'
             /\ ReleasedIsStored'
  <2>1. SlotTypes'
    BY <1>0, <1>3, FullRegistrationTypes DEF RegistersUnlocked
  <2>2. /\ Registered(l)' /\ StoreIsComplete(l)'
        /\ releases => l \in released'
        /\ released \subseteq released'
        /\ \A k \in Layers : k # l => store'[k] = store[k] /\ bank'[k] = bank[k]
    BY <1>0, <1>3, RegistrationGives
  <2>3. /\ params' \in [Layers -> {"none", "raw", "formatted", "released"}]
        /\ params'[l] \in {"formatted", "released"}
        /\ params'[l] = "released" => releases
        /\ \A k \in Layers : k # l => params'[k] = params[k]
    BY <1>1, <1>3
  <2>4. UnloadedHasNoBank' /\ LockIsTheBank' /\ CaptureIsLocked'
    BY <1>1, <2>2, <2>3 DEF UnloadedHasNoBank, LockIsTheBank, CaptureIsLocked
  <2>5. ReleasedIsStored'
    <3> SUFFICES ASSUME NEW k \in Layers, params'[k] = "released"
                 PROVE  /\ k \in released' /\ Registered(k)' /\ StoreIsComplete(k)'
                        /\ config'.release /\ FixedSlot(k)'
      BY DEF ReleasedIsStored
    <3>1. CASE k = l
      BY <1>1, <1>3, <2>2, <2>3, <3>1 DEF FixedSlot
    <3>2. CASE k # l
      BY <1>1, <2>2, <2>3, <3>2 DEF ReleasedIsStored, Registered, StoreIsComplete, FixedSlot
    <3> QED BY <3>1, <3>2
  <2> QED BY <2>1, <2>3, <2>4, <2>5
<1> QED BY <1>2, <1>3 DEF RegistersUnlocked

(***************************************************************************)
(* All registrations are of this kind.                                     *)
(***************************************************************************)
LEMMA AllRegistrations ==
    ASSUME GraphInv, NEW l \in Layers,
           \/ ProcessNative(l) /\ FixedSlot(l)
           \/ ProcessCpuFirst(l) \/ RegisterAgain(l)
    PROVE  RegistersUnlocked(l)
<1> USE DEF RegistersUnlocked, Loading, graphVars
<1>1. params[l] = "raw" => params[l] # "released" /\ bank[l] < MaxRegistrations /\ locked[l] = 0
  BY LifecycleAssumption DEF GraphInv, UnloadedHasNoBank, LockIsTheBank
<1>2. config.release \in BOOLEAN /\ Static \in BOOLEAN
  BY DeploymentTypes DEF GraphInv
<1>3. CASE ProcessNative(l) /\ FixedSlot(l)
  <2>1. CASE /\ RegistrationRaises(l)
             /\ params' = [params EXCEPT ![l] = "formatted"]
    BY <1>1, <1>3, <2>1 DEF ProcessNative
  <2>2. CASE /\ RegisterFully(l, config.release, Static)
             /\ params' = [params EXCEPT ![l] =
                              IF config.release THEN "released" ELSE "formatted"]
    BY <1>1, <1>2, <1>3, <2>2 DEF ProcessNative
  <2> QED BY <1>3, <2>1, <2>2 DEF ProcessNative
<1>4. CASE ProcessCpuFirst(l)
  <2>1. CASE /\ RegistrationRaises(l)
             /\ params' = [params EXCEPT ![l] = "formatted"]
    BY <1>1, <1>4, <2>1 DEF ProcessCpuFirst
  <2>2. CASE /\ RegisterFully(l, config.release, FALSE)
             /\ params' = [params EXCEPT ![l] =
                              IF config.release THEN "released" ELSE "formatted"]
    BY <1>1, <1>2, <1>4, <2>2 DEF ProcessCpuFirst, CpuFirst
  <2> QED BY <1>4, <2>1, <2>2 DEF ProcessCpuFirst
<1>5. CASE RegisterAgain(l)
  <2>1. params[l] = "formatted" /\ locked[l] = 0
    BY <1>5 DEF RegisterAgain, Registrable
  <2>2. params' = [params EXCEPT ![l] = "formatted"]
    BY <1>5, <2>1 DEF RegisterAgain, weightVars, GraphInv, TypeOK
  <2>3. RegistrationRaises(l) \/ RegisterFully(l, FALSE, FALSE)
    BY <1>5 DEF RegisterAgain
  <2>4. Loading /\ home' = home /\ bank[l] < MaxRegistrations
    BY <1>5 DEF RegisterAgain, weightVars
  <2> QED BY <2>1, <2>2, <2>3, <2>4
<1> QED BY <1>3, <1>4, <1>5

(***************************************************************************)
(* Types, locks and releases are kept by every step.                       *)
(***************************************************************************)
LEMMA LoadKeepsGraphInv ==
    ASSUME GraphInv, NEW l \in Layers, Load(l)
    PROVE  GraphInv'
<1> USE DEF GraphInv
<1> DEFINE Rest == /\ config' = config
                   /\ home' \in [Layers -> {"cpu", "npu"}]
                   /\ processed' \in [Layers -> BOOLEAN]
                   /\ loaded' \subseteq Layers /\ sharedBytes' \subseteq Layers
                   /\ locked' = locked /\ captured' = captured /\ cut' \in BOOLEAN
<1>0. cut' \in BOOLEAN
  BY DEF TypeOK, Load, CreateWeights, ProcessNative, ProcessCpuFirst, ProcessAgain,
     RegisterAgain, StageFullResidency, Release, RegistrationRaises, RegisterFully,
     Compute, ledgerVars
<1>1. Rest
  <2> USE <1>0 DEF TypeOK, weightVars, graphVars
  <2>1. CASE CreateWeights(l)
    BY <2>1 DEF CreateWeights
  <2>2. CASE ProcessNative(l)
    BY <2>2 DEF ProcessNative
  <2>3. CASE ProcessCpuFirst(l)
    BY <2>3 DEF ProcessCpuFirst
  <2>4. CASE ProcessAgain(l)
    BY <2>4 DEF ProcessAgain
  <2>5. CASE RegisterAgain(l) \/ StageFullResidency(l) \/ Release(l)
    BY <2>5 DEF RegisterAgain, StageFullResidency, Release
  <2> QED BY <2>1, <2>2, <2>3, <2>4, <2>5 DEF Load
<1>2. ASSUME RegistersUnlocked(l) PROVE GraphInv'
  <2>1. TypeOK'
    BY <1>1, <1>2, RegistrationKeepsGraphInv DEF TypeOK, SlotTypes, Bundles, Pools
  <2> QED BY <1>2, <2>1, RegistrationKeepsGraphInv
<1>3. CASE CreateWeights(l)
  <2>1. /\ params' = [params EXCEPT ![l] = "raw"] /\ params[l] = "none"
        /\ UNCHANGED <<store, originals, released, bank, table, mapped, scratch>>
    BY <1>3 DEF CreateWeights, slotVars
  <2>2. TypeOK'
    BY <1>1, <2>1 DEF TypeOK
  <2> QED BY <1>1, <2>1, <2>2 DEF TypeOK, UnloadedHasNoBank, LockIsTheBank,
            CaptureIsLocked, ReleasedIsStored, Registered, StoreIsComplete, FixedSlot
<1>4. CASE ProcessNative(l)
  <2>1. CASE FixedSlot(l)
    BY <1>2, <1>4, <2>1, AllRegistrations
  <2>2. CASE ~FixedSlot(l)
    <3>1. /\ params' = [params EXCEPT ![l] = "formatted"]
          /\ UNCHANGED <<store, originals, released, bank, table, mapped, scratch>>
      BY <1>4, <2>2 DEF ProcessNative, slotVars
    <3>2. TypeOK'
      BY <1>1, <3>1 DEF TypeOK
    <3> QED BY <1>1, <3>1, <3>2 DEF TypeOK, UnloadedHasNoBank, LockIsTheBank,
              CaptureIsLocked, ReleasedIsStored, Registered, StoreIsComplete, FixedSlot
  <2> QED BY <2>1, <2>2
<1>5. CASE ProcessCpuFirst(l) \/ RegisterAgain(l)
  BY <1>2, <1>5, AllRegistrations
<1>6. CASE ProcessAgain(l)
  <2>1. UNCHANGED <<params, store, originals, released, bank, table, mapped,
                    scratch>>
    BY <1>6 DEF ProcessAgain, slotVars
  <2> QED BY <1>1, <2>1 DEF TypeOK, UnloadedHasNoBank, LockIsTheBank, CaptureIsLocked,
            ReleasedIsStored, Registered, StoreIsComplete, FixedSlot
<1>7. CASE StageFullResidency(l)
  <2>1. /\ UNCHANGED <<params, store, originals, released, bank, table, scratch>>
        /\ mapped' = [mapped EXCEPT ![l] = @ \cup Experts]
    BY <1>7 DEF StageFullResidency, weightVars
  <2> QED BY <1>1, <2>1 DEF TypeOK, UnloadedHasNoBank, LockIsTheBank, CaptureIsLocked,
            ReleasedIsStored, Registered, StoreIsComplete, FixedSlot
<1>8. CASE Release(l)
  <2>1. /\ config.release /\ FixedSlot(l) /\ Registered(l) /\ StoreIsComplete(l)
        /\ params[l] = "formatted"
        /\ params' = [params EXCEPT ![l] = "released"]
        /\ originals' = originals \ {l} /\ released' = released \cup {l}
        /\ UNCHANGED <<store, bank, table, mapped, scratch>>
    BY <1>8 DEF Release, ReadyToRelease
  <2>2. TypeOK'
    BY <1>1, <2>1 DEF TypeOK
  <2> QED BY <1>1, <2>1, <2>2 DEF TypeOK, UnloadedHasNoBank, LockIsTheBank,
            CaptureIsLocked, ReleasedIsStored, Registered, StoreIsComplete, FixedSlot
<1> QED BY <1>3, <1>4, <1>5, <1>6, <1>7, <1>8 DEF Load

LEMMA ServeKeepsGraphInv ==
    ASSUME GraphInv, NEW l \in Layers, Serve(l)
    PROVE  GraphInv'
<1> USE DEF GraphInv
<1>1. /\ UNCHANGED <<config, params, home, processed, loaded, store, originals,
                     released, bank, table, scratch, sharedBytes, cut>>
      /\ mapped' \in [Layers -> SUBSET (Experts \cup Shared)]
  <2>1. /\ UNCHANGED <<config, params, home, processed, loaded, store, originals,
                       released, bank, table, scratch, sharedBytes, cut>>
        /\ mapped' = mapped \/ \E A \in Routings : Stage(l, A)
    BY DEF Serve, Capture, ForwardThroughSlots, ForwardNatively, CompareBoundary,
           Replay, weightVars, slotVars, ledgerVars
  <2> QED BY <2>1 DEF TypeOK, Stage, Routings
<1>2. ReleasedIsStored' /\ UnloadedHasNoBank'
  BY <1>1 DEF ReleasedIsStored, UnloadedHasNoBank, Registered, StoreIsComplete, FixedSlot
<1>3. \/ UNCHANGED <<locked, captured>>
      \/ LockAddresses(l) /\ captured' \in {captured, [captured EXCEPT ![l] = bank[l]]}
  BY DEF Serve, Capture, ForwardThroughSlots, ForwardNatively, CompareBoundary, Replay
<1>4. CASE UNCHANGED <<locked, captured>>
  BY <1>1, <1>2, <1>4 DEF TypeOK, LockIsTheBank, CaptureIsLocked
<1>5. CASE LockAddresses(l) /\ captured' \in {captured, [captured EXCEPT ![l] = bank[l]]}
  <2>1. /\ locked' = [locked EXCEPT ![l] = bank[l]] /\ locked[l] \in {0, bank[l]}
        /\ captured' \in {captured, [captured EXCEPT ![l] = bank[l]]}
    BY <1>5 DEF LockAddresses
  <2>2. TypeOK' /\ LockIsTheBank'
    BY <1>1, <2>1 DEF TypeOK, LockIsTheBank
  <2>3. CaptureIsLocked'
    BY <2>1 DEF TypeOK, CaptureIsLocked
  <2> QED BY <1>2, <2>2, <2>3
<1> QED BY <1>3, <1>4, <1>5

LEMMA AccountKeepsGraphInv ==
    ASSUME GraphInv, NEW l \in Layers, Account(l) \/ ReadLedger \/ UNCHANGED vars
    PROVE  GraphInv'
<1>1. Kept
  BY AccountingKeeps
<1>2. /\ originals' = originals /\ table' = table /\ sharedBytes' \subseteq Layers
      /\ cut' \in BOOLEAN
  <2>1. CASE Account(l)
    <3>1. originals' = originals /\ table' = table /\ cut' = FALSE
      BY <2>1 DEF Account, StagePlan, FullLayerPlan, RegisterResidentShared, Invalidate,
         Compute, slotVars
    <3>2. sharedBytes' \in {sharedBytes, sharedBytes \cup {l}}
      BY <2>1 DEF Account, StagePlan, FullLayerPlan, RegisterResidentShared
    <3>3. sharedBytes \subseteq Layers
      BY DEF GraphInv, TypeOK
    <3> QED BY <3>1, <3>2, <3>3
  <2>2. CASE ReadLedger \/ UNCHANGED vars
    BY <2>2 DEF GraphInv, TypeOK, ReadLedger, Compute, vars, slotVars
  <2> QED BY <2>1, <2>2
<1>3. scratch' \in Pools
  <2>1. \/ scratch' = scratch
        \/ scratch' = [scratch EXCEPT !.full = TRUE]
        \/ scratch' = [scratch EXCEPT !.stage = TRUE, !.users = @ \cup {l},
                                      !.mappings = @ \cup {l}]
    BY DEF Account, StagePlan, FullLayerPlan, RegisterResidentShared, ReadLedger, vars
  <2>2. scratch \in Pools
    BY DEF GraphInv, TypeOK, Pools
  <2>3. CASE scratch' = scratch
    BY <2>2, <2>3
  <2>4. CASE scratch' = [scratch EXCEPT !.full = TRUE]
    BY <2>2, <2>4 DEF Pools
  <2>5. CASE scratch' = [scratch EXCEPT !.stage = TRUE, !.users = @ \cup {l},
                                        !.mappings = @ \cup {l}]
    <3>1. /\ scratch.users \cup {l} \in SUBSET Layers
          /\ scratch.mappings \cup {l} \in SUBSET Layers
      BY <2>2 DEF Pools
    <3> QED BY <2>2, <2>5, <3>1 DEF Pools
  <2> QED BY <2>1, <2>3, <2>4, <2>5
<1>4. TypeOK'
  BY <1>1, <1>2, <1>3 DEF GraphInv, TypeOK, Kept, Pools
<1> QED BY <1>1, <1>4, KeepsInvariant DEF GraphInv

LEMMA GraphInvariance == Spec => []GraphInv
<1>1. Init => GraphInv
  <2> SUFFICES ASSUME Init PROVE GraphInv
    OBVIOUS
  <2>1. UnloadedHasNoBank /\ LockIsTheBank /\ CaptureIsLocked /\ ReleasedIsStored
    BY DEF Init, UnloadedHasNoBank, LockIsTheBank, CaptureIsLocked, ReleasedIsStored
  <2>2. scratch \in Pools
    BY DEF Init, NoScratch, Pools
  <2>3. 0 \in 0 .. MaxRegistrations
    BY LifecycleAssumption
  <2>4. /\ bank \in [Layers -> 0 .. MaxRegistrations]
        /\ locked \in [Layers -> 0 .. MaxRegistrations]
        /\ captured \in [Layers -> 0 .. MaxRegistrations]
    BY <2>3 DEF Init
  <2>5. cut \in BOOLEAN
    BY DEF Init
  <2>6. TypeOK
    BY <2>2, <2>4, <2>5 DEF Init, TypeOK, Pools
  <2> QED BY <2>1, <2>6 DEF GraphInv
<1>2. GraphInv /\ [Next]_vars => GraphInv'
  <2> SUFFICES ASSUME GraphInv, [Next]_vars PROVE GraphInv'
    OBVIOUS
  <2>1. ASSUME NEW l \in Layers, Load(l) \/ Account(l) \/ Serve(l) PROVE GraphInv'
    BY <2>1, LoadKeepsGraphInv, AccountKeepsGraphInv, ServeKeepsGraphInv
  <2>2. CASE ReadLedger \/ UNCHANGED vars
    <3>1. Kept
      BY <2>2 DEF Kept, ReadLedger, vars, weightVars, slotVars, graphVars
    <3>2. UNCHANGED <<originals, table, scratch, sharedBytes>> /\ cut' \in BOOLEAN
      BY <2>2 DEF GraphInv, TypeOK, ReadLedger, Compute, vars, slotVars
    <3>3. TypeOK'
      BY <3>1, <3>2 DEF GraphInv, TypeOK, Kept
    <3> QED BY <3>1, <3>3, KeepsInvariant DEF GraphInv
  <2> QED BY <2>1, <2>2 DEF Next
<1> QED BY <1>1, <1>2, PTL DEF Spec

--------------------------------------------------------------------------
(***************************************************************************)
(* The variables have the values TypeOK allows.                            *)
(***************************************************************************)
THEOREM TypeCorrect == Spec => []TypeOK
<1>1. GraphInv => TypeOK
  BY DEF GraphInv
<1> QED BY <1>1, GraphInvariance, PTL

(***************************************************************************)
(* Weights are given up only by layers that have slots and a complete host *)
(* copy, and no forward is sent to weights that were given up.             *)
(***************************************************************************)
THEOREM ReleasesTheorem == Spec => []ReleasesAreSafe
<1>1. GraphInv => ReleasesAreSafe
  BY DEF GraphInv, ReleasedIsStored, ReleasesAreSafe, LayeredPath
<1> QED BY <1>1, GraphInvariance, PTL

(***************************************************************************)
(* The bank that a graph has recorded stays the bank of its layer.         *)
(***************************************************************************)
THEOREM CapturedAddressesTheorem == Spec => CapturedAddressesStay
<1>1. GraphInv /\ [Next]_vars
         => [\A l \in Layers : captured[l] # 0 => bank'[l] = captured[l]]_vars
  <2> SUFFICES ASSUME GraphInv, Next, NEW l \in Layers, captured[l] # 0
               PROVE  bank'[l] = captured[l]
    OBVIOUS
  <2>1. locked[l] # 0 /\ bank[l] = captured[l]
    BY DEF GraphInv, LockIsTheBank, CaptureIsLocked
  <2>2. bank'[l] = bank[l]
    <3>1. ASSUME NEW k \in Layers, RegistersUnlocked(k) PROVE bank'[l] = bank[l]
      <4>1. k # l
        BY <2>1, <3>1 DEF RegistersUnlocked
      <4>2. SlotTypes
        BY TypesOfSlots DEF GraphInv
      <4>3. CASE RegistrationRaises(k)
        BY <4>1, <4>2, <4>3, FailureLeaves
      <4>4. ASSUME NEW releases \in BOOLEAN, NEW stages \in BOOLEAN,
                   RegisterFully(k, releases, stages)
            PROVE  bank'[l] = bank[l]
        BY <4>1, <4>2, <4>4, RegistrationGives
      <4> QED BY <3>1, <4>3, <4>4 DEF RegistersUnlocked
    <3>2. ASSUME NEW k \in Layers, Load(k) PROVE bank'[l] = bank[l]
      <4>1. CASE \/ ProcessNative(k) /\ FixedSlot(k)
                 \/ ProcessCpuFirst(k) \/ RegisterAgain(k)
        BY <3>1, <4>1, AllRegistrations
      <4>2. CASE \/ CreateWeights(k)
                 \/ ProcessNative(k) /\ ~FixedSlot(k)
                 \/ ProcessAgain(k) \/ StageFullResidency(k) \/ Release(k)
        BY <4>2 DEF CreateWeights, ProcessNative, ProcessAgain, StageFullResidency,
                    Release, slotVars
      <4> QED BY <3>2, <4>1, <4>2 DEF Load
    <3>3. ASSUME NEW k \in Layers, Account(k) \/ Serve(k) \/ ReadLedger
          PROVE  bank' = bank
      BY <3>3 DEF Account, StagePlan, FullLayerPlan, RegisterResidentShared, ReadLedger,
         Serve, Capture, ForwardThroughSlots, ForwardNatively, CompareBoundary, Replay,
         slotVars
    <3> QED BY <3>2, <3>3 DEF Next
  <2> QED BY <2>1, <2>2
<1> QED BY <1>1, GraphInvariance, PTL DEF Spec, CapturedAddressesStay

(***************************************************************************)
(* A cached memory ledger is the one that computing it again would give,   *)
(* unless a registration has raised since it was computed.                 *)
(***************************************************************************)
THEOREM LedgerTheorem == Spec => []LedgerIsFresh
<1> DEFINE Counted == <<originals, released, bank, store, scratch, sharedBytes>>
<1>1. Init => LedgerIsFresh
  BY DEF Init, LedgerIsFresh
<1>2. LedgerIsFresh /\ [Next]_vars => LedgerIsFresh'
  <2> SUFFICES ASSUME LedgerIsFresh, [Next]_vars PROVE LedgerIsFresh'
    OBVIOUS
  <2>1. ASSUME NEW l \in Layers, NEW releases, NEW stages,
               RegisterFully(l, releases, stages), sharedBytes' = sharedBytes
        PROVE  LedgerIsFresh'
    BY <2>1 DEF RegisterFully, Compute, LedgerIsFresh, Ledger
  <2>2. ASSUME NEW l \in Layers, RegistrationRaises(l) PROVE LedgerIsFresh'
    BY <2>2 DEF RegistrationRaises, LedgerIsFresh
  <2>3. ASSUME UNCHANGED <<Counted, ledger, cut>> PROVE LedgerIsFresh'
    BY <2>3 DEF LedgerIsFresh, Ledger, ActualLedger
  <2>4. ASSUME NEW l \in Layers, Load(l) PROVE LedgerIsFresh'
    <3>1. CASE CreateWeights(l)
      BY <2>3, <3>1 DEF CreateWeights, slotVars, ledgerVars
    <3>2. CASE ProcessNative(l) /\ ~FixedSlot(l)
      BY <2>3, <3>2 DEF ProcessNative, slotVars, ledgerVars
    <3>3. CASE ProcessNative(l) /\ FixedSlot(l)
      BY <2>1, <2>2, <3>3 DEF ProcessNative
    <3>4. CASE ProcessCpuFirst(l)
      BY <2>1, <2>2, <3>4 DEF ProcessCpuFirst
    <3>5. CASE ProcessAgain(l) \/ StageFullResidency(l)
      BY <2>3, <3>5 DEF ProcessAgain, StageFullResidency, slotVars, ledgerVars
    <3>6. CASE RegisterAgain(l)
      BY <2>1, <2>2, <3>6 DEF RegisterAgain
    <3>7. CASE Release(l)
      BY <3>7 DEF Release, Compute, LedgerIsFresh, Ledger
    <3> QED BY <2>4, <3>1, <3>2, <3>3, <3>4, <3>5, <3>6, <3>7 DEF Load
  <2>5. ASSUME NEW l \in Layers, Account(l) PROVE LedgerIsFresh'
    BY <2>5 DEF Account, StagePlan, FullLayerPlan, RegisterResidentShared, Invalidate,
       Compute, LedgerIsFresh
  <2>6. ASSUME NEW l \in Layers, Serve(l) PROVE LedgerIsFresh'
    BY <2>3, <2>6 DEF Serve, Capture, ForwardThroughSlots, ForwardNatively,
       CompareBoundary, Replay, slotVars, ledgerVars
  <2>7. CASE ReadLedger
    BY <2>7 DEF ReadLedger, Compute, LedgerIsFresh, Ledger, slotVars
  <2>8. CASE UNCHANGED vars
    BY <2>3, <2>8 DEF vars
  <2> QED BY <2>4, <2>5, <2>6, <2>7, <2>8 DEF Next
<1> QED BY <1>1, <1>2, PTL DEF Spec

--------------------------------------------------------------------------
(***************************************************************************)
(* Kernels.  A layer that has been loaded keeps its weights where its      *)
(* kernels read them.                                                      *)
(***************************************************************************)
LEMMA StaticIsNative ==
    ASSUME StaticIsLoadedNatively, TypeOK
    PROVE  Static => ~config.cpuFirst
BY DEF StaticIsLoadedNatively, TypeOK, Static

LEMMA RegistrationKeepsLayer ==
    ASSUME GraphInv, KernelInv, NEW l \in Layers, RegistersUnlocked(l), NEW k \in loaded
    PROVE  /\ params'[k] # params[k] =>
                 params'[k] = "released" /\ config.release /\ FixedSlot(k)
           /\ locked[k] # 0 => bank'[k] = bank[k] /\ mapped[k] \subseteq mapped'[k]
<1>1. /\ params[k] \in {"formatted", "released"} /\ k \in Layers
      /\ params \in [Layers -> {"none", "raw", "formatted", "released"}]
  BY DEF GraphInv, TypeOK, KernelInv, LoadedIsFormatted
<1>2. SlotTypes
  BY TypesOfSlots DEF GraphInv
<1>3. locked[l] = 0 /\ params[l] # "released"
  BY DEF RegistersUnlocked
<1>4. CASE /\ RegistrationRaises(l)
           /\ params' = [params EXCEPT ![l] = "formatted"]
           /\ params[l] \in {"raw", "formatted"}
  <2>1. k # l => bank'[k] = bank[k] /\ mapped'[k] = mapped[k]
    BY <1>1, <1>2, <1>4, FailureLeaves
  <2> QED BY <1>1, <1>3, <1>4, <2>1
<1>5. ASSUME NEW releases \in BOOLEAN, NEW stages \in BOOLEAN,
             RegisterFully(l, releases, stages),
             params' = [params EXCEPT ![l] = IF releases THEN "released" ELSE "formatted"],
             releases => config.release /\ FixedSlot(l)
      PROVE  /\ params'[k] # params[k] =>
                  params'[k] = "released" /\ config.release /\ FixedSlot(k)
             /\ locked[k] # 0 => bank'[k] = bank[k] /\ mapped[k] \subseteq mapped'[k]
  <2>1. k # l => bank'[k] = bank[k] /\ mapped'[k] = mapped[k]
    BY <1>1, <1>2, <1>5, RegistrationGives
  <2> QED BY <1>1, <1>3, <1>5, <2>1
<1> QED BY <1>4, <1>5 DEF RegistersUnlocked

LEMMA LoadKeepsServedLayers ==
    ASSUME GraphInv, KernelInv, NEW l \in Layers, Load(l), NEW k \in loaded
    PROVE  /\ home'[k] = home[k] /\ k \in loaded'
           /\ params'[k] # params[k] =>
                 params'[k] = "released" /\ config.release /\ FixedSlot(k)
           /\ locked[k] # 0 => bank'[k] = bank[k] /\ mapped[k] \subseteq mapped'[k]
<1>1. /\ params[k] \in {"formatted", "released"} /\ k \in Layers
      /\ home \in [Layers -> {"cpu", "npu"}]
      /\ mapped \in [Layers -> SUBSET (Experts \cup Shared)]
      /\ params \in [Layers -> {"none", "raw", "formatted", "released"}]
  BY DEF GraphInv, TypeOK, KernelInv, LoadedIsFormatted
<1>2. home'[k] = home[k] /\ k \in loaded'
  BY <1>1 DEF Load, CreateWeights, ProcessNative, ProcessCpuFirst, ProcessAgain,
     RegisterAgain, StageFullResidency, Release, weightVars
<1>3. CASE \/ ProcessNative(l) /\ FixedSlot(l)
           \/ ProcessCpuFirst(l) \/ RegisterAgain(l)
  BY <1>2, <1>3, AllRegistrations, RegistrationKeepsLayer
<1>4. CASE CreateWeights(l) \/ (ProcessNative(l) /\ ~FixedSlot(l)) \/ ProcessAgain(l)
  <2>1. bank' = bank /\ mapped' = mapped /\ params'[k] = params[k]
    BY <1>1, <1>4 DEF CreateWeights, ProcessNative, ProcessAgain, slotVars
  <2> QED BY <1>2, <2>1
<1>5. CASE StageFullResidency(l)
  <2>1. /\ bank' = bank /\ params' = params
        /\ mapped' = [mapped EXCEPT ![l] = @ \cup Experts]
    BY <1>5 DEF StageFullResidency, weightVars
  <2> QED BY <1>1, <1>2, <2>1
<1>6. CASE Release(l)
  <2>1. /\ bank' = bank /\ mapped' = mapped /\ config.release /\ FixedSlot(l)
        /\ params' = [params EXCEPT ![l] = "released"]
    BY <1>6 DEF Release
  <2> QED BY <1>1, <1>2, <2>1
<1> QED BY <1>3, <1>4, <1>5, <1>6 DEF Load

(***************************************************************************)
(* What a full registration, and a marked layer, leave for the forwards.   *)
(***************************************************************************)
LEMMA LoadKeepsLayerFacts ==
    ASSUME StaticIsLoadedNatively, GraphInv, KernelInv, NEW l \in Layers, Load(l)
    PROVE  /\ NativeIsOnDevice' /\ MarkedIsCpuFirst' /\ LoadedIsFormatted'
           /\ StaticIsMapped'
<1> USE DEF GraphInv, KernelInv
<1>1. config' = config
  BY DEF Load, CreateWeights, ProcessNative, ProcessCpuFirst, ProcessAgain,
     RegisterAgain, StageFullResidency, Release
<1>2. /\ params \in [Layers -> {"none", "raw", "formatted", "released"}]
      /\ home \in [Layers -> {"cpu", "npu"}] /\ processed \in [Layers -> BOOLEAN]
      /\ mapped \in [Layers -> SUBSET (Experts \cup Shared)] /\ loaded \subseteq Layers
      /\ SlotTypes
  BY TypesOfSlots DEF TypeOK
<1>3. NativeIsOnDevice'
  BY <1>1, <1>2 DEF NativeIsOnDevice, CpuFirst, FixedSlot, Load, CreateWeights,
     ProcessNative, ProcessCpuFirst, ProcessAgain, RegisterAgain, StageFullResidency,
     Release, weightVars
<1>4. MarkedIsCpuFirst'
  <2>1. \/ UNCHANGED <<params, processed>>
        \/ \E p \in {"raw", "formatted", "released"} :
              /\ params' = [params EXCEPT ![l] = p]
              /\ p = "raw" => params[l] = "none" /\ processed' = processed
              /\ \/ processed' = processed
                 \/ CpuFirst(l) /\ processed' = [processed EXCEPT ![l] = TRUE]
    BY DEF Load, CreateWeights, ProcessNative, ProcessCpuFirst, ProcessAgain,
       RegisterAgain, StageFullResidency, Release, weightVars
  <2> QED BY <1>1, <1>2, <2>1 DEF MarkedIsCpuFirst, CpuFirst, FixedSlot
<1>5. LoadedIsFormatted'
  <2>1. \/ UNCHANGED params /\ loaded' = loaded
        \/ UNCHANGED params /\ loaded' = loaded \cup {l} /\ processed[l]
        \/ \E p \in {"formatted", "released"} :
              /\ params' = [params EXCEPT ![l] = p] /\ loaded' \subseteq loaded \cup {l}
        \/ /\ params' = [params EXCEPT ![l] = "raw"] /\ params[l] = "none"
           /\ loaded' = loaded
    BY DEF Load, CreateWeights, ProcessNative, ProcessCpuFirst, ProcessAgain,
       RegisterAgain, StageFullResidency, Release, weightVars
  <2> QED BY <1>2, <2>1 DEF LoadedIsFormatted, MarkedIsCpuFirst
<1>6. StaticIsMapped'
  <2> SUFFICES ASSUME NEW k \in loaded', Static, FixedSlot(k)
               PROVE  Experts \subseteq mapped'[k]
    BY <1>1 DEF StaticIsMapped, Static, FixedSlot
  <2>1. ~config.cpuFirst
    BY StaticIsNative
  <2>2. ~processed[l]
    BY <2>1 DEF MarkedIsCpuFirst, CpuFirst
  <2>3. CASE ProcessNative(l) /\ FixedSlot(l)
    <3>1. CASE RegistrationRaises(l) /\ loaded' = loaded
      <4>1. \A j \in Layers : j # l => mapped'[j] = mapped[j]
        BY <1>2, <3>1, FailureLeaves
      <4>2. l \notin loaded
        BY <2>3 DEF ProcessNative, LoadedIsFormatted
      <4> QED BY <1>2, <3>1, <4>1, <4>2 DEF StaticIsMapped
    <3>2. CASE RegisterFully(l, config.release, Static) /\ loaded' = loaded \cup {l}
      <4>1. config.release \in BOOLEAN /\ Static \in BOOLEAN
        BY DeploymentTypes
      <4>2. /\ mapped'[l] = Experts \cup Shared
            /\ \A j \in Layers : j # l => mapped'[j] = mapped[j]
        BY <1>2, <3>2, <4>1, RegistrationGives
      <4> QED BY <1>2, <3>2, <4>2 DEF StaticIsMapped
    <3> QED BY <2>3, <3>1, <3>2 DEF ProcessNative
  <2>4. CASE RegisterAgain(l)
    <3>1. /\ l \notin loaded /\ loaded' = loaded
          /\ RegisterFully(l, FALSE, FALSE) \/ RegistrationRaises(l)
      BY <2>4 DEF RegisterAgain, weightVars
    <3>2. \A j \in Layers : j # l => mapped'[j] = mapped[j]
      BY <1>2, <3>1, RegistrationGives, FailureLeaves
    <3> QED BY <1>2, <3>1, <3>2 DEF StaticIsMapped
  <2>5. CASE ProcessNative(l) /\ ~FixedSlot(l)
    <3>1. mapped' = mapped /\ loaded' = loaded \cup {l}
      BY <2>5 DEF ProcessNative, slotVars
    <3> QED BY <2>5, <3>1 DEF StaticIsMapped
  <2>6. CASE CreateWeights(l) \/ Release(l)
    BY <2>6 DEF CreateWeights, Release, slotVars, StaticIsMapped
  <2>7. CASE StageFullResidency(l)
    <3>1. loaded' = loaded /\ mapped' = [mapped EXCEPT ![l] = @ \cup Experts]
      BY <2>7 DEF StageFullResidency, weightVars
    <3> QED BY <1>2, <3>1 DEF StaticIsMapped
  <2>8. CASE ProcessCpuFirst(l) \/ ProcessAgain(l)
    BY <2>1, <2>2, <2>8 DEF ProcessCpuFirst, ProcessAgain, CpuFirst
  <2> QED BY <2>3, <2>4, <2>5, <2>6, <2>7, <2>8 DEF Load
<1> QED BY <1>3, <1>4, <1>5, <1>6

LEMMA LoadKeepsKernelInv ==
    ASSUME StaticIsLoadedNatively, GraphInv, KernelInv, NEW l \in Layers, Load(l)
    PROVE  KernelInv'
<1>1. /\ NativeIsOnDevice' /\ MarkedIsCpuFirst' /\ LoadedIsFormatted'
      /\ StaticIsMapped'
  BY LoadKeepsLayerFacts
<1>2. config' = config /\ kernels' = kernels /\ locked' = locked
  BY DEF Load, CreateWeights, ProcessNative, ProcessCpuFirst, ProcessAgain,
     RegisterAgain, StageFullResidency, Release, graphVars
<1>3. ASSUME NEW k \in kernels PROVE KernelReads(k)'
  <2>1. KernelReads(k) /\ k.layer \in loaded
    BY DEF KernelInv, KernelReads
  <2>2. /\ home'[k.layer] = home[k.layer] /\ k.layer \in loaded'
        /\ params'[k.layer] # params[k.layer] => config.release /\ FixedSlot(k.layer)
        /\ locked[k.layer] # 0 =>
              /\ bank'[k.layer] = bank[k.layer]
              /\ mapped[k.layer] \subseteq mapped'[k.layer]
    BY <2>1, LoadKeepsServedLayers
  <2>3. CASE k.source = "slots"
    BY <1>2, <2>1, <2>2, <2>3 DEF KernelReads, SlotKernelReads, Registered
  <2>4. CASE k.source # "slots"
    BY <1>2, <2>1, <2>2, <2>4 DEF KernelReads, NativeKernelReads, FixedSlot
  <2> QED BY <2>3, <2>4
<1> QED BY <1>1, <1>2, <1>3 DEF KernelInv

(***************************************************************************)
(* The kernels of a forward find their weights when they are launched.     *)
(***************************************************************************)
LEMMA StagedIsMapped ==
    ASSUME GraphInv, KernelInv, NEW l \in Layers, NEW A \in Routings, Serving, Stage(l, A)
    PROVE  A \subseteq mapped'[l]
BY DEF GraphInv, TypeOK, KernelInv, StaticIsMapped, Stage, Serving, Routings

LEMMA SlotKernelLaunched ==
    ASSUME GraphInv, KernelInv, NEW l \in Layers, NEW A \in Routings, Serving,
           Stage(l, A), NEW k, k.layer = l, k.source = "slots", k.active = A,
           k.address = bank[l], bank' = bank, loaded' = loaded,
           LockAddresses(l) \/ (locked' = locked /\ captured[l] # 0)
    PROVE  KernelReads(k)'
<1>1. A \subseteq mapped'[l]
  BY StagedIsMapped
<1>2. locked'[l] = bank[l]
  BY DEF LockAddresses, GraphInv, TypeOK, LockIsTheBank, CaptureIsLocked
<1>3. l \in loaded' /\ A \cap Shared = {} /\ bank'[l] # 0
  BY LifecycleAssumption DEF Serving, Routings, Stage, Registered
<1> QED BY <1>1, <1>2, <1>3 DEF KernelReads, SlotKernelReads, Registered

LEMMA NativeKernelLaunched ==
    ASSUME GraphInv, KernelInv, NEW l \in Layers, NEW A \in Routings, Serving,
           ~FixedSlot(l) \/ ~OriginalsUnavailable,
           NEW k, k.layer = l, k.source # "slots", k.active = A,
           UNCHANGED <<config, params, home, loaded>>
    PROVE  KernelReads(k)'
<1>1. l \in loaded /\ A \cap Shared = {} /\ A \subseteq Experts
  BY LifecycleAssumption DEF Serving, Routings
<1>2. home[l] = "npu"
  BY DEF KernelInv, NativeIsOnDevice, CpuFirst, OriginalsUnavailable
<1>3. params[l] = "formatted"
  BY <1>1 DEF GraphInv, KernelInv, LoadedIsFormatted, ReleasedIsStored, OriginalsUnavailable
<1> QED BY <1>1, <1>2, <1>3 DEF KernelReads, NativeKernelReads, FixedSlot,
          OriginalsUnavailable

LEMMA ServeKeepsKernelInv ==
    ASSUME GraphInv, KernelInv, NEW l \in Layers, Serve(l)
    PROVE  KernelInv'
<1> USE DEF GraphInv, KernelInv
<1>1. /\ UNCHANGED <<config, params, home, processed, loaded, bank>>
      /\ Serving
  BY DEF Serve, Capture, ForwardThroughSlots, ForwardNatively, CompareBoundary, Replay,
     weightVars, slotVars
<1>2. StaticIsMapped'
  <2>1. mapped' = mapped \/ ~Static
    BY DEF Serve, Capture, ForwardThroughSlots, ForwardNatively, CompareBoundary, Replay,
       Stage, slotVars
  <2> QED BY <1>1, <2>1 DEF StaticIsMapped, Static, FixedSlot
<1>3. NativeIsOnDevice' /\ MarkedIsCpuFirst' /\ LoadedIsFormatted'
  BY <1>1 DEF NativeIsOnDevice, MarkedIsCpuFirst, LoadedIsFormatted, CpuFirst, FixedSlot
<1>4. ASSUME NEW k \in kernels' PROVE KernelReads(k)'
  <2>1. CASE Capture(l)
    BY <2>1, <1>4 DEF Capture
  <2>2. ASSUME NEW A \in Routings, ForwardThroughSlots(l, A) PROVE KernelReads(k)'
    <3>1. k = SlotKernel(l, A) /\ Stage(l, A) /\ LockAddresses(l)
      BY <1>4, <2>2 DEF ForwardThroughSlots
    <3> QED BY <1>1, <3>1, SlotKernelLaunched DEF SlotKernel
  <2>3. ASSUME NEW A \in Routings, ForwardNatively(l, A) PROVE KernelReads(k)'
    <3>1. k = NativeKernel(l, A) /\ ~FixedSlot(l)
      BY <1>4, <2>3 DEF ForwardNatively
    <3> QED BY <1>1, <3>1, NativeKernelLaunched DEF NativeKernel
  <2>4. ASSUME NEW A \in Routings, CompareBoundary(l, A) PROVE KernelReads(k)'
    <3>1. /\ Stage(l, A) /\ LockAddresses(l)
          /\ \/ k = SlotKernel(l, A)
             \/ k = NativeKernel(l, A) /\ ~OriginalsUnavailable
      BY <1>4, <2>4 DEF CompareBoundary
    <3>2. CASE k = SlotKernel(l, A)
      BY <1>1, <3>1, <3>2, SlotKernelLaunched DEF SlotKernel
    <3>3. CASE k = NativeKernel(l, A) /\ ~OriginalsUnavailable
      BY <1>1, <3>3, NativeKernelLaunched DEF NativeKernel
    <3> QED BY <3>1, <3>2, <3>3
  <2>5. ASSUME NEW A \in Routings, Replay(l, A) PROVE KernelReads(k)'
    <3>1. /\ k = [SlotKernel(l, A) EXCEPT !.address = captured[l]]
          /\ Stage(l, A) /\ captured[l] # 0 /\ locked' = locked
      BY <1>4, <2>5 DEF Replay
    <3>2. captured[l] = bank[l]
      BY <3>1 DEF LockIsTheBank, CaptureIsLocked
    <3>3. /\ k.layer = l /\ k.source = "slots" /\ k.active = A /\ k.address = bank[l]
      BY <3>1, <3>2 DEF SlotKernel
    <3> QED BY <1>1, <3>1, <3>3, SlotKernelLaunched
  <2> QED BY <2>1, <2>2, <2>3, <2>4, <2>5 DEF Serve
<1> QED BY <1>2, <1>3, <1>4

(***************************************************************************)
(* Where static mappings are loaded natively, every kernel finds the       *)
(* experts it was routed to, whatever was released or registered again.    *)
(***************************************************************************)
THEOREM KernelsTheorem ==
    ASSUME StaticIsLoadedNatively
    PROVE  Spec => []KernelsHaveWeights
<1>1. Init => KernelInv
  BY DEF Init, KernelInv, NativeIsOnDevice, MarkedIsCpuFirst, LoadedIsFormatted,
     StaticIsMapped
<1>2. GraphInv /\ KernelInv /\ [Next]_vars => KernelInv'
  <2> SUFFICES ASSUME GraphInv, KernelInv, [Next]_vars PROVE KernelInv'
    OBVIOUS
  <2>1. ASSUME NEW l \in Layers, Load(l) PROVE KernelInv'
    BY <2>1, LoadKeepsKernelInv
  <2>2. ASSUME NEW l \in Layers, Serve(l) PROVE KernelInv'
    BY <2>2, ServeKeepsKernelInv
  <2>3. ASSUME NEW l \in Layers, Account(l) PROVE KernelInv'
    BY <2>3, AccountingKeeps, KeepsInvariant
  <2>4. CASE ReadLedger \/ UNCHANGED vars
    <3>1. Kept
      BY <2>4 DEF Kept, ReadLedger, vars, weightVars, slotVars, graphVars
    <3> QED BY <3>1, KeepsInvariant
  <2> QED BY <2>1, <2>2, <2>3, <2>4 DEF Next
<1>3. GraphInv /\ KernelInv => KernelsHaveWeights
  <2> SUFFICES ASSUME GraphInv, KernelInv, NEW k \in kernels
               PROVE  k.active \subseteq Found(k)
    BY DEF KernelsHaveWeights
  <2>1. KernelReads(k)
    BY DEF KernelInv
  <2> QED BY <2>1 DEF KernelReads, SlotKernelReads, NativeKernelReads, Found
<1> QED BY <1>1, <1>2, <1>3, GraphInvariance, PTL DEF Spec
===========================================================================
