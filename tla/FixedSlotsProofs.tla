------------------------- MODULE FixedSlotsProofs -------------------------
(***************************************************************************)
(* Proofs about FixedSlots, for every bank size, every set of experts and  *)
(* every combination of the mode constants.                                *)
(*                                                                         *)
(* The inductive invariant comes in four layers.  HostInv is about the     *)
(* bank and the plan being staged; DrainInv about what a drain may rely on *)
(* when it lets a plan through; WeightInv about what the slots contain or  *)
(* are about to contain; FaultInv about what failures leave behind.  Each  *)
(* layer is preserved given the ones below it.                             *)
(***************************************************************************)
EXTENDS FixedSlots, FiniteSetTheorems, WellFoundedInduction, TLAPS

StagingPc == {"placing", "waiting", "publishing", "prepared"}
PlacedExperts == {e \in Experts : placed[e] # NoSlot}

\* The experts that have been given a slot are those of the plan, and the
\* index finds them there.
PlacedResident ==
    pc \in StagingPc =>
        /\ misses \subseteq PlacedExperts
        /\ \A e \in PlacedExperts : e \in plan /\ resident[e] = placed[e]

\* Hits stay READY; misses are LOADING until they are loaded.
PlacedState ==
    /\ pc \in {"placing", "waiting"} =>
          \A e \in PlacedExperts :
              slotState[placed[e]] = IF e \in misses THEN "loading" ELSE "ready"
    /\ pc \in {"publishing", "prepared"} =>
          \A e \in PlacedExperts : slotState[placed[e]] = "ready"

\* While experts are placed, the slots in use by this plan are exactly the
\* LOADING ones and the READY ones of the current step.
Recency ==
    /\ \A s \in Slots : lastUsed[s] <= stepId
    /\ pc = "placing" =>
          /\ \A e \in PlacedExperts : lastUsed[placed[e]] = stepId
          /\ \A s \in Slots :
                \/ slotState[s] = "empty"
                \/ slotState[s] = "ready" /\ lastUsed[s] < stepId
                \/ \E e \in PlacedExperts : placed[e] = s

PlanFits ==
    /\ pc # "idle" => plan # {} /\ Cardinality(plan) <= NumSlots
    /\ pc \in {"waiting", "publishing", "prepared"} => Remaining = {}
    /\ pc \in StagingPc => stepId > 0

\* What a kernel launched now would find in the table.
PublishedEntries ==
    /\ pc = "prepared" => activeSlots = {log2phy[e] : e \in plan}
    /\ Serving => \A e \in plan :
          /\ log2phy[e] # NoSlot /\ resident[e] = log2phy[e]
          /\ slotState[log2phy[e]] \in {"ready", "computing"}
    /\ StaticResidency =>
          /\ activeSlots # {} => pc = "idle" /\ stepId > 0
          /\ pc = "prepared" => FALSE

HostInv ==
    /\ TypeOK
    /\ IndexCoherent
    /\ PlacedResident
    /\ PlacedState
    /\ Recency
    /\ PlanFits
    /\ PublishedEntries

--------------------------------------------------------------------------
\* Tickets and kernel numbers are below their counters; only the asynchronous
\* loads leave copies behind.
Numbering ==
    /\ waitTicket <= copySeq
    /\ \A c \in copies : c.ticket <= copySeq
    /\ \A m \in mlps : m.id <= mlpSeq /\ m.after <= waitTicket
    /\ \A m, n \in mlps : m.id = n.id => m = n
    /\ ~AsyncLoad => copies = {}

\* Without graphs, an unfinished kernel is followed by a completion event of
\* some COMPUTING slot, or the bank cannot be drained any more.
KernelsHaveEvents ==
    ~GraphMode /\ mlps # {} =>
        \/ Undrainable
        \/ \E ev \in doneEvents : slotState[ev.slot] = "computing" /\ ev.mlp = mlpSeq

\* Weights are staged only when no kernel is running.
StagingIsAlone == pc \in StagingPc => mlps = {}

DrainInv ==
    /\ Numbering
    /\ KernelsHaveEvents
    /\ StagingIsAlone

--------------------------------------------------------------------------
LastInto(c) == \A d \in copies : d.slot = c.slot => d.ticket <= c.ticket

\* Once the H2D stream is through, slot s contains the weights of e ...
WillHold(s, e) ==
    /\ \A c \in copies : c.slot = s /\ LastInto(c) => c.expert = e
    /\ (\A c \in copies : c.slot # s) => content[s] = e

\* ... which is the case as soon as the batches up to t are done.
HeldAfter(t, s, e) ==
    /\ WillHold(s, e)
    /\ \A c \in copies : c.slot = s => c.ticket <= t

SlotWeights ==
    \A s \in Slots :
        slotState[s] \in {"ready", "computing"} => HeldAfter(waitTicket, s, slotKey[s])

LoadsIssued ==
    pc = "waiting" => \A e \in misses : WillHold(placed[e], e)

KernelWeights ==
    \A m \in mlps : \A e \in m.experts :
        m.reads[e] # NoSlot /\ HeldAfter(m.after, m.reads[e], e)

WeightInv ==
    /\ SlotWeights
    /\ LoadsIssued
    /\ KernelWeights

--------------------------------------------------------------------------
(***************************************************************************)
(* Type correctness.                                                       *)
(***************************************************************************)
LEMMA SlotsType == Slots \subseteq Nat /\ NoSlot \notin Slots /\ IsFiniteSet(Slots)
                   /\ Cardinality(Slots) = NumSlots
  <1>1. Slots = 0 .. (NumSlots - 1) /\ NumSlots - 1 \in Int
    BY NumSlotsAssumption DEF Slots
  <1>2. IsFiniteSet(Slots) /\ Cardinality(Slots) = NumSlots
    BY <1>1, NumSlotsAssumption, FS_Interval
  <1> QED BY <1>1, <1>2 DEF NoSlot

LEMMA TypeInit == Init => TypeOK
  BY SlotsType DEF Init, BankInit, TypeOK, BankTypeOK, States, PcValues, NoPlan

\* While a plan is staged, the slots to load are owned by the missed experts.
LEMMA LoadSlotsOwned ==
    ASSUME HostInv, pc \in StagingPc
    PROVE  /\ LoadSlots \subseteq Slots
           /\ \A e \in misses : placed[e] \in Slots /\ slotKey[placed[e]] = e
           /\ \A s \in LoadSlots : slotKey[s] \in misses /\ placed[slotKey[s]] = s
  BY SlotsType DEF HostInv, TypeOK, BankTypeOK, IndexCoherent, PlacedResident,
                   PlacedExperts, LoadSlots

LEMMA TypeStaging == HostInv /\ Staging => TypeOK'
  <1> SUFFICES ASSUME HostInv, Staging PROVE TypeOK'
    OBVIOUS
  <1> USE SlotsType DEF HostInv, TypeOK, BankTypeOK
  <1>1. CASE Drain
    BY <1>1 DEF Drain, SetState, SlotsIn, States, PcValues, NoPlan, deviceVars
  <1>2. CASE DrainRaises
    BY <1>2 DEF DrainRaises, bankVars, PcValues, Origins, deviceVars
  <1>3. ASSUME NEW e \in Experts, PlaceHit(e) PROVE TypeOK'
    BY <1>3 DEF PlaceHit, Touch, deviceVars
  <1>4. ASSUME NEW e \in Experts, PlaceMiss(e) PROVE TypeOK'
    BY <1>4 DEF PlaceMiss, Reserve, States, deviceVars
  <1>5. CASE AllHits
    BY <1>5 DEF AllHits, bankVars, deviceVars, PcValues
  <1>6. CASE LoadSync
    BY <1>6 DEF LoadSync, SetState, States, PcValues
  <1>7. CASE LoadAsync
    <2>1. CopiesInto(LoadSlots, copySeq + 1) \subseteq CopyRecord
      BY <1>7, LoadSlotsOwned DEF LoadAsync, StagingPc, CopiesInto, CopyRecord
    <2> QED BY <2>1, <1>7 DEF LoadAsync, bankVars, PcValues
  <1>8. CASE InstallWait
    BY <1>8 DEF InstallWait, SetState, States, PcValues
  <1>9. CASE Publish
    <2>1. \A e \in plan : placed[e] \in Slots
      BY <1>9 DEF Publish, PlanFits, Remaining
    <2> QED BY <2>1, <1>9 DEF Publish, bankVars, deviceVars, PcValues
  <1> QED BY <1>1, <1>2, <1>3, <1>4, <1>5, <1>6, <1>7, <1>8, <1>9 DEF Staging

LEMMA TypeHostFault == HostInv /\ HostFault => TypeOK'
  <1> SUFFICES ASSUME HostInv, HostFault PROVE TypeOK'
    OBVIOUS
  <1> USE SlotsType DEF HostInv, TypeOK, BankTypeOK
  <1>1. ASSUME NEW e \in Experts, HostStoreRaises(e) PROVE TypeOK'
    BY <1>1 DEF HostStoreRaises, Reserve, States, PcValues, Origins, deviceVars
  <1>2. ASSUME NEW S \in SUBSET Slots, LoadRaises(S) PROVE TypeOK'
    <2>1. CopiesInto(S, copySeq + 1) \subseteq CopyRecord
      BY <1>2, LoadSlotsOwned DEF LoadRaises, StagingPc, CopiesInto, CopyRecord
    <2>2. /\ copies' \subseteq CopyRecord /\ copySeq' \in Nat
          /\ content' \in [Slots -> Experts \cup {None}]
      BY <1>2, <2>1 DEF LoadRaises
    <2> QED BY <2>2, <1>2 DEF LoadRaises, Clear, States, PcValues, Origins
  <1> QED BY <1>1, <1>2 DEF HostFault

LEMMA TypeComputing == HostInv /\ Computing => TypeOK'
  <1> SUFFICES ASSUME HostInv, Computing PROVE TypeOK'
    OBVIOUS
  <1> USE SlotsType DEF HostInv, TypeOK, BankTypeOK
  <1>1. \A k \in Nat : EventsAt(activeSlots, k) \subseteq EventRecord
    <2>1. \A s \in activeSlots : s \in Slots /\ slotVersion[s] \in Nat
      OBVIOUS
    <2> QED BY <2>1 DEF EventsAt, EventRecord
  <1>2. Launch => /\ mlps' \subseteq MlpRecord /\ mlpSeq' \in Nat
                  /\ UNCHANGED <<copies, copySeq, waitTicket, content, result>>
    BY DEF Launch, MlpRecord
  <1>3. CASE EagerCompute
    BY <1>1, <1>2, <1>3 DEF EagerCompute, SetState, States, PcValues
  <1>4. CASE BeginRaises
    BY <1>4 DEF BeginRaises, bankVars, deviceVars, PcValues, Origins
  <1>5. CASE Replay
    BY <1>2, <1>5 DEF Replay, bankVars, PcValues
  <1>6. CASE Capture
    BY <1>1, <1>6 DEF Capture, SetState, States, deviceVars
  <1>7. CASE SharedSuffixCompute
    BY <1>7 DEF SharedSuffixCompute, SetState, States, hostVars, deviceVars
  <1> QED BY <1>3, <1>4, <1>5, <1>6, <1>7 DEF Computing

LEMMA TypeDevice == HostInv /\ Device => TypeOK'
  <1> SUFFICES ASSUME HostInv, Device PROVE TypeOK'
    OBVIOUS
  <1> USE SlotsType DEF HostInv, TypeOK, BankTypeOK
  <1>1. ASSUME NEW c \in copies, CopyDone(c) PROVE TypeOK'
    <2>1. c.slot \in Slots /\ c.expert \in Experts
      BY DEF CopyRecord
    <2> QED BY <1>1, <2>1 DEF CopyDone, bankVars, hostVars
  <1>2. ASSUME NEW m \in mlps, MlpDone(m) PROVE TypeOK'
    <2>1. result' \in [Experts -> Experts \cup {None}]
      <3>1. m.reads \in [Experts -> Slots \cup {NoSlot}]
        BY DEF MlpRecord
      <3>2. \A e \in Experts : WeightsFor(m, e) \in Experts \cup {None}
        BY <3>1 DEF WeightsFor
      <3> QED BY <3>2, <1>2 DEF MlpDone
    <2> QED BY <1>2, <2>1 DEF MlpDone, bankVars, hostVars
  <1> QED BY <1>1, <1>2 DEF Device

LEMMA TypeNext == HostInv /\ [Next]_vars => TypeOK'
  <1> SUFFICES ASSUME HostInv, [Next]_vars PROVE TypeOK'
    OBVIOUS
  <1>1. ASSUME NEW A \in SUBSET Experts, RequestPlan(A) PROVE TypeOK'
    BY <1>1 DEF RequestPlan, HostInv, TypeOK, BankTypeOK, bankVars, deviceVars,
                PcValues
  <1>2. CASE UNCHANGED vars
    BY <1>2 DEF vars, bankVars, hostVars, deviceVars, HostInv, TypeOK, BankTypeOK
  <1> QED BY <1>1, <1>2, TypeStaging, TypeHostFault, TypeComputing, TypeDevice
          DEF Next

--------------------------------------------------------------------------
(***************************************************************************)
(* What the slot allocation can count on while a plan is placed.           *)
(***************************************************************************)
LEMMA LeastNat ==
    ASSUME NEW T \in SUBSET Nat, T # {}
    PROVE  \E x \in T : \A y \in T : x <= y
  <1> DEFINE R == {ss \in Nat \X Nat : ss[1] < ss[2]}
  <1>1. IsWellFoundedOn(R, Nat)
    BY NatLessThanWellFounded, Zenon DEF OpToRel
  <1>2. \E x \in T : \A y \in T : ~(<<y, x>> \in R)
    BY <1>1, WFMin
  <1>3. \A x, y \in Nat : y < x => <<y, x>> \in R
    OBVIOUS
  <1>4. \A x, y \in Nat : x <= y \/ y < x
    OBVIOUS
  <1> HIDE DEF R
  <1> QED BY <1>2, <1>3, <1>4

\* A plan that has an expert still to place has not used up the slots.
LEMMA SlotToSpare ==
    ASSUME HostInv, pc = "placing", NEW e \in Remaining
    PROVE  \E s \in Slots : \A x \in PlacedExperts : placed[x] # s
  <1> SUFFICES ASSUME \A s \in Slots : \E x \in PlacedExperts : placed[x] = s
               PROVE  FALSE
    OBVIOUS
  <1> DEFINE f == [x \in PlacedExperts |-> placed[x]]
  <1> USE DEF HostInv, TypeOK
  <1>1. e \in plan /\ e \notin PlacedExperts /\ PlacedExperts \subseteq plan \ {e}
    BY DEF Remaining, PlacedExperts, PlacedResident, StagingPc
  <1>2. IsFiniteSet(plan) /\ Cardinality(plan) \in Nat /\ Cardinality(plan) <= NumSlots
    BY ExpertsAssumption, FS_Subset, FS_CardinalityType DEF PlanFits
  <1>3. IsFiniteSet(plan \ {e}) /\ Cardinality(plan \ {e}) = Cardinality(plan) - 1
    BY <1>1, <1>2, FS_RemoveElement
  <1>4. IsFiniteSet(PlacedExperts) /\ Cardinality(PlacedExperts) <= Cardinality(plan) - 1
    BY <1>1, <1>3, FS_Subset
  <1>5. f \in Surjection(PlacedExperts, Slots)
    BY DEF Surjection, PlacedExperts
  <1>6. Cardinality(Slots) <= Cardinality(PlacedExperts)
    BY <1>4, <1>5, FS_Surjection
  <1>7. Cardinality(PlacedExperts) \in Nat
    BY <1>4, FS_CardinalityType
  <1> QED BY <1>2, <1>4, <1>6, <1>7, SlotsType, NumSlotsAssumption

\* An allocation never takes a slot that was given out by the same plan.
LEMMA VictimIsFree ==
    ASSUME HostInv, pc = "placing", NEW e \in Remaining,
           NEW s \in Slots, Allocatable(s)
    PROVE  \A x \in PlacedExperts : placed[x] # s
  <1> SUFFICES ASSUME NEW x \in PlacedExperts, placed[x] = s PROVE FALSE
    OBVIOUS
  <1> USE DEF HostInv
  <1>1. slotState[s] # "empty" /\ lastUsed[s] = stepId
    BY DEF PlacedState, Recency
  <1>2. LeastRecentlyUsed(s) /\ \A t \in Slots : slotState[t] # "empty"
    BY <1>1 DEF Allocatable, FirstEmpty, SlotsIn
  <1>3. PICK t \in Slots : \A y \in PlacedExperts : placed[y] # t
    BY SlotToSpare
  <1>4. slotState[t] = "ready" /\ lastUsed[t] < stepId
    BY <1>2, <1>3 DEF Recency
  <1> QED BY <1>1, <1>2, <1>4 DEF LeastRecentlyUsed, TypeOK, BankTypeOK

\* ... and there is always a slot for it to take.
LEMMA SomeVictim ==
    ASSUME HostInv, pc = "placing", NEW e \in Remaining
    PROVE  \E s \in Slots : Allocatable(s)
  <1> USE SlotsType DEF HostInv, TypeOK, BankTypeOK
  <1>1. CASE SlotsIn("empty") # {}
    <2>1. SlotsIn("empty") \in SUBSET Nat
      BY DEF SlotsIn
    <2>2. PICK s \in SlotsIn("empty") : \A y \in SlotsIn("empty") : s <= y
      BY <1>1, <2>1, LeastNat
    <2> QED BY <2>2 DEF SlotsIn, Allocatable, FirstEmpty
  <1>2. CASE SlotsIn("empty") = {}
    <2> DEFINE Steps == {lastUsed[t] + 1 : t \in SlotsIn("ready")}
    <2>1. SlotsIn("ready") # {}
      <3>1. PICK t \in Slots : \A y \in PlacedExperts : placed[y] # t
        BY SlotToSpare
      <3> QED BY <1>2, <3>1 DEF Recency, SlotsIn
    <2>2. Steps \in SUBSET Nat /\ Steps # {}
      <3>1. \A t \in Slots : lastUsed[t] + 1 \in Nat
        OBVIOUS
      <3>2. \A t \in SlotsIn("ready") : lastUsed[t] + 1 \in Nat
        BY <3>1 DEF SlotsIn
      <3> HIDE DEF HostInv, TypeOK, BankTypeOK
      <3> QED BY <2>1, <3>2
    <2>3. PICK k \in Steps : \A y \in Steps : k <= y
      BY <2>2, LeastNat
    <2> DEFINE Oldest == {t \in SlotsIn("ready") : lastUsed[t] + 1 = k}
    <2>4. Oldest \in SUBSET Nat /\ Oldest # {}
      BY <2>3 DEF SlotsIn
    <2>5. PICK s \in Oldest : \A y \in Oldest : s <= y
      BY <2>4, LeastNat
    <2>6. LeastRecentlyUsed(s) /\ s \in Slots
      <3>1. s \in Slots /\ slotState[s] = "ready" /\ lastUsed[s] + 1 = k
        BY <2>5 DEF SlotsIn
      <3>2. ASSUME NEW t \in Slots, slotState[t] = "ready"
            PROVE  lastUsed[s] < lastUsed[t] \/ (lastUsed[s] = lastUsed[t] /\ s <= t)
        <4>1. lastUsed[s] + 1 <= lastUsed[t] + 1
          BY <2>3, <3>1, <3>2 DEF SlotsIn
        <4>2. lastUsed[s] = lastUsed[t] => s <= t
          BY <2>5, <3>1, <3>2 DEF SlotsIn
        <4>3. lastUsed[s] \in Int /\ lastUsed[t] \in Int
          BY <3>1
        <4> HIDE DEF HostInv, TypeOK, BankTypeOK
        <4> QED BY <4>1, <4>2, <4>3
      <3> QED BY <3>1, <3>2 DEF LeastRecentlyUsed
    <2> QED BY <1>2, <2>6 DEF Allocatable
  <1> QED BY <1>1, <1>2

--------------------------------------------------------------------------
(***************************************************************************)
(* HostInv is inductive.  One lemma per group of actions; the placement of *)
(* a missed expert is the one that needs the lemmas above.                 *)
(***************************************************************************)
LEMMA HostInit == Init => HostInv
  <1> SUFFICES ASSUME Init PROVE HostInv
    OBVIOUS
  <1>1. TypeOK
    BY TypeInit
  <1> USE SlotsType, NoneAssumption DEF Init, BankInit
  <1>2. IndexCoherent
    BY DEF IndexCoherent
  <1>3. PlacedResident /\ PlacedState /\ Recency
    BY DEF PlacedResident, PlacedState, Recency, StagingPc
  <1>4. PlanFits /\ PublishedEntries
    BY DEF PlanFits, PublishedEntries, Serving, StagingPc
  <1> QED BY <1>1, <1>2, <1>3, <1>4 DEF HostInv

\* Everything but the types, once the types are known.
HostRest ==
    /\ IndexCoherent
    /\ PlacedResident
    /\ PlacedState
    /\ Recency
    /\ PlanFits
    /\ PublishedEntries

LEMMA HostDrain == HostInv /\ Drain => HostRest'
  <1> SUFFICES ASSUME HostInv, Drain PROVE HostRest'
    OBVIOUS
  <1> USE SlotsType DEF HostInv, TypeOK, BankTypeOK, Drain, SetState
  <1>1. IndexCoherent'
    BY DEF IndexCoherent, SlotsIn
  <1>2. PlacedExperts' = {}
    BY DEF PlacedExperts, NoPlan
  <1>3. PlacedResident' /\ PlacedState' /\ PlanFits'
    BY <1>2 DEF PlacedResident, PlacedState, PlanFits, StagingPc
  <1>4. Recency'
    <2>1. \A s \in Slots : lastUsed[s] \in Int /\ lastUsed[s] <= stepId
      BY DEF Recency
    <2>2. \A s \in Slots : lastUsed'[s] < stepId'
      BY <2>1
    <2>3. \A s \in Slots : slotState'[s] \in {"empty", "ready"}
      BY DEF Undrainable, SlotsIn, States
    <2> QED BY <1>2, <2>2, <2>3 DEF Recency
  <1>5. PublishedEntries'
    BY DEF PublishedEntries, Serving, StagingPc
  <1> QED BY <1>1, <1>3, <1>4, <1>5 DEF HostRest

LEMMA HostPlaceHit ==
    ASSUME HostInv, NEW e \in Experts, PlaceHit(e)
    PROVE  HostRest'
  <1> USE SlotsType DEF HostInv, TypeOK, BankTypeOK, PlaceHit, Touch
  <1>1. IndexCoherent'
    BY DEF IndexCoherent
  <1>2. e \in plan /\ placed[e] = NoSlot /\ e \notin misses
    BY DEF Remaining, PlacedResident, PlacedExperts, StagingPc
  <1>3. PlacedExperts' = PlacedExperts \cup {e}
    BY <1>2 DEF PlacedExperts
  <1>4. PlacedResident'
    BY <1>2, <1>3 DEF PlacedResident, PlacedExperts, StagingPc
  <1>5. PlacedState'
    BY <1>2, <1>3 DEF PlacedState, PlacedExperts
  <1>6. Recency'
    <2>1. \A s \in Slots : lastUsed'[s] = IF s = resident[e] THEN stepId ELSE lastUsed[s]
      OBVIOUS
    <2>2. \A s \in Slots : lastUsed'[s] <= stepId'
      BY <2>1 DEF Recency
    <2>3. \A x \in PlacedExperts' : placed'[x] = IF x = e THEN resident[e] ELSE placed[x]
      BY <1>3
    <2>4. \A x \in PlacedExperts' : placed'[x] \in Slots /\ lastUsed'[placed'[x]] = stepId'
      BY <1>3, <2>1, <2>3 DEF Recency, PlacedExperts
    <2>5. ASSUME NEW s \in Slots
          PROVE  \/ slotState'[s] = "empty"
                 \/ slotState'[s] = "ready" /\ lastUsed'[s] < stepId'
                 \/ \E x \in PlacedExperts' : placed'[x] = s
      BY <1>2, <1>3, <2>1, <2>3 DEF Recency, PlacedExperts
    <2> QED BY <2>2, <2>4, <2>5 DEF Recency
  <1>7. PlanFits' /\ PublishedEntries'
    BY DEF PlanFits, PublishedEntries, Serving, StagingPc
  <1> QED BY <1>1, <1>4, <1>5, <1>6, <1>7 DEF HostRest

\* A reservation leaves the slots of the plan alone.
LEMMA HostReserve ==
    ASSUME HostInv, pc = "placing", NEW e \in Remaining, resident[e] = NoSlot,
           NEW s \in Slots, Allocatable(s), Reserve(s, e, stepId)
    PROVE  /\ IndexCoherent'
           /\ \A x \in PlacedExperts :
                 /\ placed[x] # s /\ x # e
                 /\ resident'[x] = placed[x]
                 /\ slotState'[placed[x]] = slotState[placed[x]]
                 /\ lastUsed'[placed[x]] = lastUsed[placed[x]]
           /\ \A t \in Slots : lastUsed'[t] <= stepId
  <1> USE SlotsType, NoneAssumption DEF HostInv, TypeOK, BankTypeOK, Reserve
  <1>0. e \in Experts /\ placed[e] = NoSlot
    BY DEF Remaining
  <1>1. slotState[s] \in {"empty", "ready"}
    BY DEF Allocatable, FirstEmpty, LeastRecentlyUsed
  <1>2. IndexCoherent'
    <2>1. \A x \in Experts : resident'[x] # NoSlot => slotKey'[resident'[x]] = x
      BY <1>0 DEF IndexCoherent
    <2>2. \A t \in Slots : slotKey'[t] # None => resident'[slotKey'[t]] = t
      BY <1>0 DEF IndexCoherent
    <2>3. \A t \in Slots : slotState'[t] = "empty" <=> slotKey'[t] = None
      BY <1>0 DEF IndexCoherent
    <2> QED BY <2>1, <2>2, <2>3 DEF IndexCoherent
  <1>3. ASSUME NEW x \in PlacedExperts
        PROVE  /\ placed[x] # s /\ x # e
               /\ resident'[x] = placed[x]
               /\ slotState'[placed[x]] = slotState[placed[x]]
               /\ lastUsed'[placed[x]] = lastUsed[placed[x]]
    <2>1. placed[x] # s
      BY VictimIsFree
    <2>2. x \in Experts /\ x # e /\ placed[x] \in Slots
      BY <1>0 DEF PlacedExperts
    <2>3. resident[x] = placed[x]
      BY DEF PlacedResident, StagingPc
    <2>4. slotKey[s] # x
      BY <2>1, <2>2, <2>3 DEF IndexCoherent
    <2> QED BY <2>1, <2>2, <2>3, <2>4
  <1>4. \A t \in Slots : lastUsed'[t] <= stepId
    BY DEF Recency
  <1> QED BY <1>2, <1>3, <1>4

LEMMA HostPlaceMiss ==
    ASSUME HostInv, NEW e \in Experts, PlaceMiss(e)
    PROVE  HostRest'
  <1> USE SlotsType DEF HostInv, TypeOK, BankTypeOK
  <1>1. pc = "placing" /\ e \in Remaining /\ resident[e] = NoSlot /\ UNCHANGED <<pc, plan, stepId>>
    BY DEF PlaceMiss
  <1>2. PICK s \in Slots : /\ Allocatable(s) /\ Reserve(s, e, stepId)
                           /\ placed' = [placed EXCEPT ![e] = s]
    BY DEF PlaceMiss
  <1>3. e \in plan /\ placed[e] = NoSlot /\ misses' = misses \cup {e}
    BY <1>1 DEF Remaining, PlaceMiss
  <1>4. PlacedExperts' = PlacedExperts \cup {e}
    BY <1>2, <1>3 DEF PlacedExperts
  <1>5. /\ IndexCoherent'
        /\ \A x \in PlacedExperts :
              /\ placed[x] # s /\ x # e
              /\ resident'[x] = placed[x]
              /\ slotState'[placed[x]] = slotState[placed[x]]
              /\ lastUsed'[placed[x]] = lastUsed[placed[x]]
        /\ \A t \in Slots : lastUsed'[t] <= stepId
    BY <1>1, <1>2, HostReserve
  <1>6. /\ placed'[e] = s /\ resident'[e] = s
        /\ slotState'[s] = "loading" /\ lastUsed'[s] = stepId
        /\ \A x \in PlacedExperts : placed'[x] = placed[x]
    BY <1>2, <1>5 DEF Reserve, PlacedExperts
  <1>7. PlacedResident'
    BY <1>1, <1>3, <1>4, <1>5, <1>6 DEF PlacedResident, StagingPc
  <1>8. PlacedState'
    BY <1>1, <1>3, <1>4, <1>5, <1>6 DEF PlacedState, PlacedExperts
  <1>9. Recency'
    <2>1. \A x \in PlacedExperts' : lastUsed'[placed'[x]] = stepId'
      BY <1>1, <1>4, <1>5, <1>6 DEF Recency
    <2>2. ASSUME NEW t \in Slots
          PROVE  \/ slotState'[t] = "empty"
                 \/ slotState'[t] = "ready" /\ lastUsed'[t] < stepId'
                 \/ \E x \in PlacedExperts' : placed'[x] = t
      <3>1. CASE t = s
        BY <3>1, <1>4, <1>6
      <3>2. CASE t # s
        <4>1. slotState'[t] = slotState[t] /\ lastUsed'[t] = lastUsed[t]
          BY <1>2, <3>2 DEF Reserve
        <4> QED BY <4>1, <1>1, <1>4, <1>6 DEF Recency
      <3> QED BY <3>1, <3>2
    <2> QED BY <1>1, <1>5, <2>1, <2>2 DEF Recency
  <1>10. PlanFits' /\ PublishedEntries'
    BY <1>1 DEF PlaceMiss, PlanFits, PublishedEntries, Serving, StagingPc
  <1> QED BY <1>5, <1>7, <1>8, <1>9, <1>10 DEF HostRest

LEMMA HostLoads == HostInv /\ (AllHits \/ LoadSync \/ LoadAsync \/ InstallWait) => HostRest'
  <1> SUFFICES ASSUME HostInv, AllHits \/ LoadSync \/ LoadAsync \/ InstallWait
               PROVE  HostRest'
    OBVIOUS
  <1> USE SlotsType DEF HostInv, TypeOK, BankTypeOK
  <1>1. /\ pc \in StagingPc /\ pc' \in {"waiting", "publishing"}
        /\ UNCHANGED <<plan, placed, misses, stepId, log2phy, activeSlots>>
        /\ UNCHANGED <<slotKey, slotVersion, lastUsed, resident>>
        /\ Remaining = {}
    BY DEF AllHits, LoadSync, LoadAsync, InstallWait, SetState, bankVars,
           StagingPc, PlanFits
  <1>2. LoadSlots \subseteq Slots
        /\ \A s \in LoadSlots : slotState[s] = "loading"
    BY LoadSlotsOwned DEF AllHits, LoadSync, LoadAsync, InstallWait, PlacedState,
       PlacedResident, StagingPc, LoadSlots
  <1>3. PlacedExperts' = PlacedExperts /\ Remaining' = Remaining
    BY <1>1 DEF PlacedExperts, Remaining
  <1>4. slotState' = slotState \/ slotState' = [s \in Slots |-> IF s \in LoadSlots THEN "ready" ELSE slotState[s]]
    BY DEF AllHits, LoadSync, LoadAsync, InstallWait, SetState, bankVars
  <1>5. IndexCoherent'
    BY <1>1, <1>2, <1>4 DEF IndexCoherent
  <1>6. PlacedResident'
    BY <1>1, <1>3 DEF PlacedResident, StagingPc
  <1>7. PlacedState'
    <2>1. CASE AllHits
      BY <2>1, <1>1, <1>3 DEF AllHits, bankVars, PlacedState, StagingPc
    <2>2. CASE LoadAsync
      BY <2>2, <1>1, <1>3 DEF LoadAsync, bankVars, PlacedState, StagingPc
    <2>3. CASE LoadSync \/ InstallWait
      <3>1. /\ pc' = "publishing" /\ pc \in {"placing", "waiting"}
            /\ slotState' = [s \in Slots |-> IF s \in LoadSlots THEN "ready" ELSE slotState[s]]
        BY <2>3 DEF LoadSync, InstallWait, SetState
      <3>2. \A e \in PlacedExperts : placed[e] \in Slots
        BY DEF PlacedExperts
      <3>3. \A e \in misses : placed[e] \in LoadSlots
        BY DEF LoadSlots
      <3> QED BY <1>1, <1>3, <3>1, <3>2, <3>3 DEF PlacedState
    <2> QED BY <2>1, <2>2, <2>3
  <1>8. Recency'
    BY <1>1 DEF Recency
  <1>9. PlanFits' /\ PublishedEntries'
    BY <1>1, <1>3 DEF PlanFits, PublishedEntries, Serving, StagingPc
  <1> QED BY <1>5, <1>6, <1>7, <1>8, <1>9 DEF HostRest

LEMMA HostPublish == HostInv /\ Publish => HostRest'
  <1> SUFFICES ASSUME HostInv, Publish PROVE HostRest'
    OBVIOUS
  <1> USE SlotsType DEF HostInv, TypeOK, BankTypeOK, Publish, bankVars
  <1>1. PlacedExperts' = PlacedExperts /\ Remaining' = Remaining
    BY DEF PlacedExperts, Remaining
  <1>2. \A e \in plan : e \in PlacedExperts
    BY DEF PlanFits, Remaining, PlacedExperts
  <1>3. \A e \in plan : /\ log2phy'[e] = placed[e] /\ placed[e] # NoSlot
                        /\ resident[e] = placed[e] /\ slotState[placed[e]] = "ready"
    BY <1>2 DEF PlacedResident, PlacedState, StagingPc, PlacedExperts
  <1>4. IndexCoherent' /\ PlacedResident' /\ PlacedState' /\ Recency'
    BY <1>1 DEF IndexCoherent, PlacedResident, PlacedState, Recency, StagingPc
  <1>5. PlanFits'
    BY <1>1 DEF PlanFits, StagingPc
  <1>6. PublishedEntries'
    <2>1. activeSlots' = {log2phy'[e] : e \in plan}
      <3>1. activeSlots' = {placed[e] : e \in plan}
        OBVIOUS
      <3> HIDE DEF HostInv, TypeOK, BankTypeOK, Publish
      <3> QED BY <1>3, <3>1
    <2>2. stepId' > 0
      BY DEF PlanFits, StagingPc
    <2> QED BY <1>3, <2>1, <2>2 DEF PublishedEntries, Serving
  <1> QED BY <1>4, <1>5, <1>6 DEF HostRest

LEMMA HostFaults == HostInv /\ HostFault => HostRest'
  <1> SUFFICES ASSUME HostInv, HostFault PROVE HostRest'
    OBVIOUS
  <1> USE SlotsType DEF HostInv, TypeOK, BankTypeOK
  <1>1. ASSUME NEW e \in Experts, HostStoreRaises(e) PROVE HostRest'
    <2>1. pc = "placing" /\ e \in Remaining /\ resident[e] = NoSlot
      BY <1>1 DEF HostStoreRaises
    <2>2. PICK s \in Slots : Allocatable(s) /\ Reserve(s, e, stepId)
      BY <1>1 DEF HostStoreRaises
    <2>3. IndexCoherent' /\ \A t \in Slots : lastUsed'[t] <= stepId
      BY <2>1, <2>2, HostReserve
    <2>4. /\ pc' = "idle"
          /\ UNCHANGED <<plan, placed, misses, stepId, log2phy, activeSlots>>
      BY <1>1 DEF HostStoreRaises
    <2>5. StaticResidency => activeSlots = {}
      BY <2>1 DEF PublishedEntries
    <2> QED BY <2>3, <2>4, <2>5 DEF HostRest, PlacedResident, PlacedState,
            Recency, PlanFits, PublishedEntries, Serving, StagingPc
  <1>2. ASSUME NEW S \in SUBSET Slots, LoadRaises(S) PROVE HostRest'
    <2>1. /\ pc = "placing" /\ pc' = "idle"
          /\ UNCHANGED <<plan, placed, misses, stepId, log2phy, activeSlots,
                         slotVersion, lastUsed>>
      BY <1>2 DEF LoadRaises, Clear
    <2>2. IndexCoherent'
      <3>1. LoadSlots \subseteq Slots
        BY <2>1, LoadSlotsOwned DEF StagingPc
      <3>2. /\ slotState' = [s \in Slots |-> IF s \in LoadSlots THEN "empty" ELSE slotState[s]]
            /\ slotKey' = [s \in Slots |-> IF s \in LoadSlots THEN None ELSE slotKey[s]]
            /\ resident' = [x \in Experts |->
                   IF \E s \in LoadSlots : slotKey[s] = x THEN NoSlot ELSE resident[x]]
        BY <1>2 DEF LoadRaises, Clear
      <3>3. \A x \in Experts : resident'[x] # NoSlot => slotKey'[resident'[x]] = x
        <4> SUFFICES ASSUME NEW x \in Experts, resident'[x] # NoSlot
                     PROVE  slotKey'[resident'[x]] = x
          OBVIOUS
        <4>1. resident'[x] = resident[x] /\ \A s \in LoadSlots : slotKey[s] # x
          BY <3>2
        <4>2. resident[x] # NoSlot
          BY <4>1
        <4>3. slotKey[resident[x]] = x
          BY <4>2 DEF IndexCoherent
        <4>4. resident[x] \in Slots
          BY <4>2
        <4> QED BY <3>2, <4>1, <4>3, <4>4
      <3>4. ASSUME NEW s \in Slots, slotKey'[s] # None PROVE resident'[slotKey'[s]] = s
        <4>1. s \notin LoadSlots /\ slotKey'[s] = slotKey[s] /\ slotKey[s] \in Experts
          BY <3>2, <3>4
        <4>2. resident[slotKey[s]] = s
          BY <4>1, NoneAssumption DEF IndexCoherent
        <4>3. \A t \in LoadSlots : slotKey[t] # slotKey[s]
          BY <3>1, <4>1, <4>2, NoneAssumption DEF IndexCoherent
        <4> QED BY <3>2, <4>1, <4>2, <4>3
      <3>5. \A s \in Slots : slotState'[s] = "empty" <=> slotKey'[s] = None
        BY <3>2 DEF IndexCoherent
      <3> QED BY <3>3, <3>4, <3>5 DEF IndexCoherent
    <2>3. StaticResidency => activeSlots = {}
      BY <2>1 DEF PublishedEntries
    <2> QED BY <2>1, <2>2, <2>3 DEF HostRest, PlacedResident, PlacedState,
            Recency, PlanFits, PublishedEntries, Serving, StagingPc
  <1> QED BY <1>1, <1>2 DEF HostFault

\* A compute changes the state of READY and COMPUTING slots only.
LEMMA HostComputing == HostInv /\ Computing => HostRest'
  <1> SUFFICES ASSUME HostInv, Computing PROVE HostRest'
    OBVIOUS
  <1> USE SlotsType DEF HostInv, TypeOK, BankTypeOK
  <1>1. /\ pc \in {"idle", "prepared"} /\ pc' = "idle"
        /\ UNCHANGED <<plan, placed, misses, stepId, log2phy, activeSlots>>
        /\ UNCHANGED <<slotKey, slotVersion, lastUsed, resident>>
    BY DEF Computing, EagerCompute, BeginRaises, Replay, Capture,
           SharedSuffixCompute, Serving, SetState, bankVars, hostVars, PublishedEntries
  <1>2. \A s \in Slots : \/ slotState'[s] = slotState[s]
                         \/ /\ slotState[s] \in {"ready", "computing"}
                            /\ slotState'[s] = "computing"
    BY DEF Computing, EagerCompute, BeginRaises, Replay, Capture,
           SharedSuffixCompute, SetState, bankVars
  <1>3. IndexCoherent'
    BY <1>1, <1>2 DEF IndexCoherent
  <1>4. PlacedResident' /\ PlacedState' /\ Recency' /\ PlanFits'
    BY <1>1 DEF PlacedResident, PlacedState, Recency, PlanFits, StagingPc
  <1>5. PublishedEntries'
    <2>1. StaticResidency /\ activeSlots # {} => stepId > 0
      BY DEF PublishedEntries
    <2>2. Serving' => Serving
      BY <1>1 DEF Serving, PublishedEntries
    <2>3. \A s \in Slots : slotState[s] \in {"ready", "computing"} =>
                            slotState'[s] \in {"ready", "computing"}
      BY <1>2
    <2> QED BY <1>1, <2>1, <2>2, <2>3 DEF PublishedEntries
  <1> QED BY <1>3, <1>4, <1>5 DEF HostRest

LEMMA HostUnchanged ==
    ASSUME HostInv, UNCHANGED bankVars, UNCHANGED hostVars
    PROVE  HostRest'
  BY DEF HostInv, HostRest, bankVars, hostVars, IndexCoherent, PlacedResident,
         PlacedState, Recency, PlanFits, PublishedEntries, Serving, PlacedExperts,
         Remaining

LEMMA HostNext == HostInv /\ [Next]_vars => HostInv'
  <1> SUFFICES ASSUME HostInv, [Next]_vars PROVE HostRest'
    BY TypeNext DEF HostInv, HostRest
  <1>1. ASSUME NEW A \in SUBSET Experts, RequestPlan(A) PROVE HostRest'
    <2>1. UNCHANGED bankVars
          /\ UNCHANGED <<placed, misses, stepId, log2phy, activeSlots>>
          /\ pc = "idle" /\ pc' = "draining" /\ plan' = A
          /\ A # {} /\ Cardinality(A) <= NumSlots
          /\ (StaticResidency => stepId = 0)
      BY <1>1 DEF RequestPlan
    <2>2. StaticResidency => activeSlots = {}
      BY <2>1 DEF HostInv, TypeOK, PublishedEntries
    <2> QED BY <2>1, <2>2 DEF HostInv, HostRest, bankVars, IndexCoherent,
            PlacedResident, PlacedState, Recency, PlanFits, PublishedEntries,
            Serving, PlacedExperts, StagingPc
  <1>2. CASE DrainRaises
    <2>1. /\ UNCHANGED bankVars /\ pc = "draining" /\ pc' = "idle"
          /\ UNCHANGED <<plan, placed, misses, stepId, log2phy, activeSlots>>
      BY <1>2 DEF DrainRaises
    <2>2. StaticResidency => activeSlots = {}
      BY <2>1 DEF HostInv, PublishedEntries
    <2> QED BY <2>1, <2>2 DEF HostInv, HostRest, bankVars, IndexCoherent,
            PlacedResident, PlacedState, Recency, PlanFits, PublishedEntries,
            Serving, PlacedExperts, StagingPc
  <1>3. CASE Staging
    <2>1. ASSUME NEW e \in Experts, PlaceHit(e) \/ PlaceMiss(e) PROVE HostRest'
      BY <2>1, HostPlaceHit, HostPlaceMiss
    <2> QED BY <1>2, <1>3, <2>1, HostDrain, HostLoads, HostPublish DEF Staging
  <1>4. CASE Device
    <2>1. UNCHANGED bankVars /\ UNCHANGED hostVars
      BY <1>4 DEF Device, CopyDone, MlpDone
    <2> QED BY <2>1, HostUnchanged
  <1>5. CASE UNCHANGED vars
    <2>1. UNCHANGED bankVars /\ UNCHANGED hostVars
      BY <1>5 DEF vars
    <2> QED BY <2>1, HostUnchanged
  <1>6. CASE HostFault \/ Computing
    BY <1>6, HostFaults, HostComputing
  <1> QED BY <1>1, <1>3, <1>4, <1>5, <1>6 DEF Next

(***************************************************************************)
(* The variables stay of their types, the index of the bank agrees with    *)
(* its slots, and every plan that fits the bank can be placed, whatever    *)
(* the plans, their order and the faults.                                  *)
(***************************************************************************)
THEOREM HostInvariant == Spec => []HostInv
  BY HostInit, HostNext, PTL DEF Spec

\* Every variable keeps its type.
THEOREM TypeCorrect == Spec => []TypeOK
  BY HostInvariant, PTL DEF HostInv

\* The index never names a slot its expert has lost (SlotBank._resident).
THEOREM IndexIsCoherent == Spec => []IndexCoherent
  BY HostInvariant, PTL DEF HostInv

(***************************************************************************)
(* A plan that fits the bank is always placed, without taking a slot of    *)
(* its own (prepare_fixed_slot_plan_into_log2phy, allocate_for).           *)
(***************************************************************************)
THEOREM PlansArePlaced == Spec => []PlansAreServiceable
  <1>1. HostInv => PlansAreServiceable
    <2> SUFFICES ASSUME HostInv, pc = "placing", NEW e \in Remaining
                 PROVE  \/ resident[e] # NoSlot /\ slotState[resident[e]] = "ready"
                        \/ /\ resident[e] = NoSlot
                           /\ \E s \in Slots : Allocatable(s)
                           /\ \A s \in Slots : Allocatable(s) =>
                                 \A x \in plan : placed[x] # s
      BY DEF PlansAreServiceable
    <2> USE SlotsType DEF HostInv, TypeOK, BankTypeOK
    <2>1. CASE resident[e] = NoSlot
      <3>1. \E s \in Slots : Allocatable(s)
        BY SomeVictim
      <3>2. ASSUME NEW s \in Slots, Allocatable(s), NEW x \in plan PROVE placed[x] # s
        BY <3>2, VictimIsFree DEF PlacedExperts
      <3> QED BY <2>1, <3>1, <3>2
    <2>2. CASE resident[e] # NoSlot
      <3> DEFINE s == resident[e]
      <3>1. e \in Experts /\ placed[e] = NoSlot /\ s \in Slots
        BY <2>2 DEF Remaining
      <3>2. slotKey[s] = e /\ slotState[s] # "empty"
        <4>1. slotKey[s] = e
          BY <2>2, <3>1 DEF IndexCoherent
        <4>2. slotKey[s] # None
          BY <3>1, <4>1, NoneAssumption
        <4> QED BY <3>1, <4>1, <4>2 DEF IndexCoherent
      <3>3. \A x \in PlacedExperts : placed[x] # s
        <4> SUFFICES ASSUME NEW x \in PlacedExperts, placed[x] = s PROVE FALSE
          OBVIOUS
        <4>1. x \in Experts /\ resident[x] = s
          BY DEF PlacedResident, StagingPc, PlacedExperts
        <4> QED BY <3>1, <3>2, <4>1 DEF IndexCoherent, PlacedExperts
      <3> QED BY <2>2, <3>1, <3>2, <3>3 DEF Recency
    <2> QED BY <2>1, <2>2
  <1> QED BY <1>1, HostInvariant, PTL

\* What a plan published, each of its experts owns (Publish to begin_slot_compute).
THEOREM PublishedIsOwned == Spec => []PublishedPlanIsOwned
  <1>1. HostInv => PublishedPlanIsOwned
    <2> SUFFICES ASSUME HostInv, pc = "prepared", NEW e \in plan
                 PROVE  /\ log2phy[e] \in activeSlots
                        /\ slotKey[log2phy[e]] = e
                        /\ slotState[log2phy[e]] = "ready"
      BY DEF PublishedPlanIsOwned
    <2> USE SlotsType DEF HostInv, TypeOK
    <2>1. /\ log2phy[e] # NoSlot /\ resident[e] = log2phy[e]
          /\ log2phy[e] \in activeSlots
      BY DEF PublishedEntries, Serving
    <2>2. slotKey[log2phy[e]] = e
      BY <2>1 DEF IndexCoherent
    <2>3. e \in PlacedExperts
      BY DEF PlanFits, Remaining, PlacedExperts
    <2>4. resident[e] = placed[e] /\ slotState[placed[e]] = "ready"
      BY <2>3 DEF PlacedResident, PlacedState, StagingPc
    <2> QED BY <2>1, <2>2, <2>4
  <1> QED BY <1>1, HostInvariant, PTL

--------------------------------------------------------------------------
(***************************************************************************)
(* Completion events: they belong to the lease they were recorded for.     *)
(***************************************************************************)
LEMMA EventsNext == HostInv /\ EventsMatchLeases /\ [Next]_vars => EventsMatchLeases'
  <1> SUFFICES ASSUME HostInv, EventsMatchLeases, [Next]_vars
               PROVE  EventsMatchLeases'
    OBVIOUS
  <1>0. \A ev \in doneEvents : ev.slot \in Slots
    BY DEF HostInv, TypeOK, EventRecord
  \* A step that keeps the COMPUTING slots as they are and adds no event.
  <1>1. ASSUME doneEvents' \subseteq doneEvents,
               \A ev \in doneEvents' :
                  /\ slotState'[ev.slot] = slotState[ev.slot]
                  /\ slotVersion'[ev.slot] = slotVersion[ev.slot]
        PROVE  EventsMatchLeases'
    BY <1>1 DEF EventsMatchLeases
  <1>2. ASSUME UNCHANGED <<slotState, slotVersion>>, doneEvents' \subseteq doneEvents
        PROVE  EventsMatchLeases'
    BY <1>1, <1>2
  <1>3. CASE Drain
    <2>1. doneEvents' = {}
      BY <1>0, <1>3 DEF Drain, EventsMatchLeases, SlotsIn
    <2> QED BY <2>1 DEF EventsMatchLeases
  <1>4. ASSUME NEW s \in Slots, NEW e, Allocatable(s), Reserve(s, e, stepId),
               UNCHANGED doneEvents
        PROVE  EventsMatchLeases'
    <2>1. slotState[s] # "computing"
      BY <1>4 DEF Allocatable, FirstEmpty, LeastRecentlyUsed
    <2>2. \A ev \in doneEvents : ev.slot # s
      BY <2>1 DEF EventsMatchLeases
    <2> QED BY <1>0, <1>1, <1>4, <2>2 DEF Reserve, HostInv, TypeOK, BankTypeOK
  <1>5. ASSUME LoadSlots \subseteq Slots, UNCHANGED <<doneEvents, slotVersion>>,
               \A s \in LoadSlots : slotState[s] = "loading",
               \A s \in Slots \ LoadSlots : slotState'[s] = slotState[s]
        PROVE  EventsMatchLeases'
    BY <1>0, <1>1, <1>5 DEF EventsMatchLeases
  <1>6. pc \in {"placing", "waiting"} =>
           LoadSlots \subseteq Slots /\ \A s \in LoadSlots : slotState[s] = "loading"
    BY LoadSlotsOwned DEF HostInv, StagingPc, LoadSlots, PlacedState, PlacedResident
  <1>7. CASE Staging
    <2>1. CASE LoadSync \/ InstallWait
      BY <1>5, <1>6, <2>1 DEF LoadSync, InstallWait, SetState
    <2>2. ASSUME NEW e \in Experts, PlaceHit(e) \/ PlaceMiss(e) PROVE EventsMatchLeases'
      BY <1>2, <1>4, <2>2 DEF PlaceHit, PlaceMiss, Touch
    <2>3. CASE DrainRaises
      BY <1>2, <2>3 DEF DrainRaises, bankVars
    <2>4. CASE AllHits \/ LoadAsync \/ Publish
      BY <1>2, <2>4 DEF AllHits, LoadAsync, Publish, bankVars
    <2> QED BY <1>3, <1>7, <2>1, <2>2, <2>3, <2>4 DEF Staging
  <1>8. CASE HostFault
    <2>1. ASSUME NEW e \in Experts, HostStoreRaises(e) PROVE EventsMatchLeases'
      BY <1>4, <2>1 DEF HostStoreRaises
    <2>2. ASSUME NEW S \in SUBSET Slots, LoadRaises(S) PROVE EventsMatchLeases'
      BY <1>5, <1>6, <2>2 DEF LoadRaises, Clear
    <2> QED BY <1>8, <2>1, <2>2 DEF HostFault
  \* A compute records its events for slots whose old ones are gone.
  <1>9. ASSUME NEW k, SetState(activeSlots, "computing"),
               doneEvents' = {ev \in doneEvents : ev.slot \notin activeSlots}
                               \cup EventsAt(activeSlots, k)
        PROVE  EventsMatchLeases'
    <2>1. activeSlots \subseteq Slots
      BY DEF HostInv, TypeOK
    <2>2. ASSUME NEW ev \in EventsAt(activeSlots, k)
          PROVE  /\ ev.slot \in activeSlots /\ ev.version = slotVersion[ev.slot]
                 /\ ev = [slot |-> ev.slot, version |-> slotVersion[ev.slot], mlp |-> k]
      BY DEF EventsAt
    <2>3. /\ slotVersion' = slotVersion
          /\ \A s \in Slots :
                slotState'[s] = IF s \in activeSlots THEN "computing" ELSE slotState[s]
      BY <1>9 DEF SetState
    <2>4. ASSUME NEW ev \in doneEvents'
          PROVE  /\ slotState'[ev.slot] = "computing"
                 /\ slotVersion'[ev.slot] = ev.version
      BY <1>0, <1>9, <2>1, <2>2, <2>3 DEF EventsMatchLeases
    <2>5. ASSUME NEW ev \in doneEvents', NEW f \in doneEvents', f.slot = ev.slot
          PROVE  f = ev
      <3>1. CASE ev.slot \in activeSlots
        BY <1>9, <2>2, <2>5, <3>1
      <3>2. CASE ev.slot \notin activeSlots
        BY <1>9, <2>2, <2>5, <3>2 DEF EventsMatchLeases
      <3> QED BY <3>1, <3>2
    <2> QED BY <2>4, <2>5 DEF EventsMatchLeases
  <1>10. CASE Computing
    <2>1. CASE EagerCompute
      <3>1. {ev \in doneEvents : ev.slot \notin activeSlots} = doneEvents
        BY <2>1 DEF EagerCompute, EventsMatchLeases
      <3> QED BY <1>9, <2>1, <3>1 DEF EagerCompute
    <2>2. CASE Capture
      BY <1>9, <2>2 DEF Capture
    <2>3. CASE SharedSuffixCompute
      <3>1. \A ev \in doneEvents : ev.slot \notin activeSlots
        BY <2>3 DEF SharedSuffixCompute, EventsMatchLeases
      <3> QED BY <1>0, <1>1, <2>3, <3>1 DEF SharedSuffixCompute, SetState, hostVars
    <2>4. CASE BeginRaises \/ Replay
      BY <1>2, <2>4 DEF BeginRaises, Replay, bankVars
    <2> QED BY <1>10, <2>1, <2>2, <2>3, <2>4 DEF Computing
  <1>11. CASE Device
    BY <1>2, <1>11 DEF Device, CopyDone, MlpDone, bankVars, hostVars
  <1>12. ASSUME NEW A \in SUBSET Experts, RequestPlan(A) PROVE EventsMatchLeases'
    BY <1>2, <1>12 DEF RequestPlan, bankVars
  <1>13. CASE UNCHANGED vars
    BY <1>2, <1>13 DEF vars, bankVars, hostVars
  <1> QED BY <1>7, <1>8, <1>10, <1>11, <1>12, <1>13 DEF Next

(***************************************************************************)
(* No completion event outlives the lease it was recorded for              *)
(* (_slot_compute_done_events, keyed by slot and version).                 *)
(***************************************************************************)
THEOREM EventsBelongToLeases == Spec => []EventsMatchLeases
  <1>1. Init => EventsMatchLeases
    BY DEF Init, EventsMatchLeases
  <1> QED BY <1>1, EventsNext, HostInvariant, PTL DEF Spec

--------------------------------------------------------------------------
(***************************************************************************)
(* DrainInv is inductive.  What the steps do to the device, in four cases: *)
(* nothing, a new batch of copies, a launch, or a completion.              *)
(***************************************************************************)
LEMMA DrainInit == Init => DrainInv
  BY DEF Init, DrainInv, Numbering, KernelsHaveEvents, StagingIsAlone, StagingPc

\* A drain that goes through leaves no kernel on the compute stream.
LEMMA DrainWaits == HostInv /\ DrainInv /\ Drain => mlps = {}
  <1> SUFFICES ASSUME HostInv, DrainInv, Drain, mlps # {} PROVE FALSE
    OBVIOUS
  <1>1. PICK m \in mlps : TRUE
    OBVIOUS
  <1>2. PICK ev \in doneEvents : slotState[ev.slot] = "computing" /\ ev.mlp = mlpSeq
    BY DEF Drain, DrainInv, KernelsHaveEvents
  <1>3. ev.slot \in SlotsIn("computing")
    BY <1>2 DEF HostInv, TypeOK, EventRecord, SlotsIn
  <1>4. m.id > mlpSeq
    BY <1>2, <1>3 DEF Drain, EventsReached
  <1>5. m.id <= mlpSeq /\ m.id \in Nat /\ mlpSeq \in Nat
    BY DEF DrainInv, Numbering, HostInv, TypeOK, MlpRecord
  <1> QED BY <1>4, <1>5

\* The steps that put weights into slots find the compute stream empty.
LEMMA StagingAlone ==
    ASSUME HostInv, DrainInv, pc \in StagingPc
    PROVE  mlps = {}
  BY DEF DrainInv, StagingIsAlone

LEMMA NumberingNext == HostInv /\ DrainInv /\ [Next]_vars => Numbering'
  <1> SUFFICES ASSUME HostInv, DrainInv, [Next]_vars PROVE Numbering'
    OBVIOUS
  <1>0. /\ copySeq \in Nat /\ waitTicket \in Nat /\ mlpSeq \in Nat
        /\ \A c \in copies : c.ticket \in Nat
        /\ \A m \in mlps : m.id \in Nat /\ m.after \in Nat
    BY DEF HostInv, TypeOK, CopyRecord, MlpRecord
  <1>1. ASSUME UNCHANGED <<copySeq, waitTicket, mlpSeq>>,
               copies' \subseteq copies, mlps' \subseteq mlps
        PROVE  Numbering'
    BY <1>1 DEF DrainInv, Numbering
  <1>2. ASSUME NEW S, AsyncLoad, copySeq' = copySeq + 1,
               copies' = copies \cup CopiesInto(S, copySeq + 1),
               UNCHANGED <<waitTicket, mlpSeq, mlps>>
        PROVE  Numbering'
    <2>1. \A c \in CopiesInto(S, copySeq + 1) : c.ticket = copySeq + 1
      BY DEF CopiesInto
    <2>2. \A c \in copies' : c.ticket <= copySeq'
      BY <1>0, <1>2, <2>1 DEF DrainInv, Numbering
    <2>3. waitTicket' <= copySeq'
      BY <1>0, <1>2 DEF DrainInv, Numbering
    <2> QED BY <1>2, <2>2, <2>3 DEF DrainInv, Numbering
  <1>3. CASE Launch
    <2> DEFINE new == [id |-> mlpSeq + 1, experts |-> plan,
                       reads |-> log2phy, after |-> waitTicket]
    <2>1. /\ mlps' = mlps \cup {new} /\ mlpSeq' = mlpSeq + 1
          /\ UNCHANGED <<copies, copySeq, waitTicket>>
      BY <1>3 DEF Launch
    <2>2. new.id = mlpSeq + 1 /\ new.after = waitTicket
      OBVIOUS
    <2> HIDE DEF new
    <2>3. \A m \in mlps : m.id # new.id
      BY <1>0, <2>2 DEF DrainInv, Numbering
    <2>4. \A m \in mlps' : m.id <= mlpSeq' /\ m.after <= waitTicket'
      BY <1>0, <2>1, <2>2 DEF DrainInv, Numbering
    <2>5. \A m, n \in mlps' : m.id = n.id => m = n
      BY <2>1, <2>3 DEF DrainInv, Numbering
    <2> QED BY <2>1, <2>4, <2>5 DEF DrainInv, Numbering
  <1>4. CASE Staging
    <2>1. CASE LoadAsync
      BY <1>2, <2>1 DEF LoadAsync
    <2>2. CASE InstallWait
      BY <1>0, <2>2 DEF InstallWait, DrainInv, Numbering, StagingIsAlone, StagingPc
    <2>3. CASE Drain \/ DrainRaises \/ AllHits \/ Publish \/ LoadSync
      BY <1>1, <2>3 DEF Drain, DrainRaises, AllHits, Publish, LoadSync, deviceVars
    <2>4. ASSUME NEW e \in Experts, PlaceHit(e) \/ PlaceMiss(e) PROVE Numbering'
      BY <1>1, <2>4 DEF PlaceHit, PlaceMiss, deviceVars
    <2> QED BY <1>4, <2>1, <2>2, <2>3, <2>4 DEF Staging
  <1>5. CASE HostFault
    <2>1. ASSUME NEW e \in Experts, HostStoreRaises(e) PROVE Numbering'
      BY <1>1, <2>1 DEF HostStoreRaises, deviceVars
    <2>2. ASSUME NEW S \in SUBSET Slots, LoadRaises(S) PROVE Numbering'
      BY <1>1, <1>2, <2>2 DEF LoadRaises
    <2> QED BY <1>5, <2>1, <2>2 DEF HostFault
  <1>6. CASE Computing
    <2>1. CASE EagerCompute \/ Replay
      BY <1>3, <2>1 DEF EagerCompute, Replay
    <2>2. CASE BeginRaises \/ Capture \/ SharedSuffixCompute
      BY <1>1, <2>2 DEF BeginRaises, Capture, SharedSuffixCompute, deviceVars
    <2> QED BY <1>6, <2>1, <2>2 DEF Computing
  <1>7. CASE Device
    BY <1>1, <1>7 DEF Device, CopyDone, MlpDone
  <1>8. ASSUME NEW A \in SUBSET Experts, RequestPlan(A) PROVE Numbering'
    BY <1>1, <1>8 DEF RequestPlan, deviceVars
  <1>9. CASE UNCHANGED vars
    BY <1>1, <1>9 DEF vars, deviceVars
  <1> QED BY <1>4, <1>5, <1>6, <1>7, <1>8, <1>9 DEF Next

LEMMA AloneNext == HostInv /\ DrainInv /\ [Next]_vars => StagingIsAlone'
  <1> SUFFICES ASSUME HostInv, DrainInv, [Next]_vars, pc' \in StagingPc
               PROVE  mlps' = {}
    BY DEF StagingIsAlone
  <1>1. CASE Drain
    BY <1>1, DrainWaits DEF Drain, deviceVars
  <1>2. CASE Staging /\ ~Drain
    <2>1. pc \in StagingPc /\ mlps' = mlps
      BY <1>2 DEF Staging, DrainRaises, PlaceHit, PlaceMiss, AllHits, LoadSync,
                  LoadAsync, InstallWait, Publish, deviceVars, StagingPc
    <2> QED BY <2>1, StagingAlone
  <1>3. CASE Computing
    <2>1. pc' = "idle"
      BY <1>3 DEF Computing, EagerCompute, BeginRaises, Replay, Capture,
                  SharedSuffixCompute, hostVars
    <2> QED BY <2>1 DEF StagingPc
  <1>4. CASE Device
    <2>1. pc' = pc /\ mlps' \subseteq mlps
      BY <1>4 DEF Device, CopyDone, MlpDone, hostVars
    <2> QED BY <2>1, StagingAlone
  <1>5. CASE UNCHANGED vars
    BY <1>5, StagingAlone DEF vars, hostVars, deviceVars
  <1> QED BY <1>1, <1>2, <1>3, <1>4, <1>5
          DEF Next, HostFault, HostStoreRaises, LoadRaises, RequestPlan, StagingPc

LEMMA KernelsHaveEventsNext ==
    HostInv /\ DrainInv /\ [Next]_vars => KernelsHaveEvents'
  <1> SUFFICES ASSUME HostInv, DrainInv, [Next]_vars, ~GraphMode, mlps' # {}
               PROVE  \/ Undrainable'
                      \/ \E ev \in doneEvents' :
                            slotState'[ev.slot] = "computing" /\ ev.mlp = mlpSeq'
    BY DEF KernelsHaveEvents
  <1>0. activeSlots \subseteq Slots /\ slotState \in [Slots -> States]
        /\ \A ev \in doneEvents : ev.slot \in Slots
    BY DEF HostInv, TypeOK, BankTypeOK, EventRecord
  <1>1. mlps # {} \/ EagerCompute
    BY DEF Next, Staging, HostFault, Computing, Device, RequestPlan, Drain,
           DrainRaises, PlaceHit, PlaceMiss, AllHits, LoadSync, LoadAsync,
           InstallWait, Publish, HostStoreRaises, LoadRaises, BeginRaises, Replay,
           Capture, SharedSuffixCompute, CopyDone, MlpDone, vars, deviceVars
  <1>2. ASSUME UNCHANGED <<slotState, slotVersion, doneEvents, mlpSeq>>, mlps # {}
        PROVE  \/ Undrainable'
               \/ \E ev \in doneEvents' :
                     slotState'[ev.slot] = "computing" /\ ev.mlp = mlpSeq'
    BY <1>2 DEF DrainInv, KernelsHaveEvents, Undrainable, HasEvent, SlotsIn
  <1>3. CASE EagerCompute
    <2>1. PICK s \in activeSlots : TRUE
      BY <1>3 DEF EagerCompute, Serving, HostInv, PublishedEntries, PlanFits
    <2> DEFINE ev == [slot |-> s, version |-> slotVersion[s], mlp |-> mlpSeq + 1]
    <2>2. ev \in doneEvents'
      BY <1>3, <2>1 DEF EagerCompute, EventsAt
    <2>3. slotState'[ev.slot] = "computing" /\ ev.mlp = mlpSeq'
      BY <1>0, <1>3, <2>1 DEF EagerCompute, SetState, Launch
    <2> QED BY <2>2, <2>3
  <1>4. CASE DrainRaises
    <2>1. UNCHANGED <<slotState, slotVersion>> /\ doneEvents' \subseteq doneEvents /\ Undrainable
      BY <1>4 DEF DrainRaises, bankVars
    <2> QED BY <2>1 DEF Undrainable, HasEvent, SlotsIn
  <1>5. CASE SharedSuffixCompute
    <2>1. /\ UNCHANGED <<slotVersion, doneEvents, mlpSeq>> /\ mlps # {}
          /\ \A s \in activeSlots : slotState[s] = "ready"
          /\ \A s \in Slots : slotState'[s] = IF s \in activeSlots THEN "computing"
                                              ELSE slotState[s]
      BY <1>1, <1>5 DEF SharedSuffixCompute, SetState, hostVars, deviceVars,
                        EagerCompute, Serving, HostInv, PublishedEntries, StagingIsAlone
    <2>2. SlotsIn("loading") \subseteq SlotsIn("loading")'
      BY <2>1 DEF SlotsIn
    <2>3. SlotsIn("computing") \subseteq SlotsIn("computing")'
      BY <2>1 DEF SlotsIn
    <2>4. \A s : HasEvent(s)' = HasEvent(s)
      BY <2>1 DEF HasEvent
    <2>5. Undrainable => Undrainable'
      BY <2>2, <2>3, <2>4 DEF Undrainable
    <2>6. \A ev \in doneEvents : slotState[ev.slot] = "computing" =>
                                 slotState'[ev.slot] = "computing"
      BY <1>0, <2>1
    <2> QED BY <2>1, <2>5, <2>6 DEF DrainInv, KernelsHaveEvents
  <1>6. CASE Device
    BY <1>1, <1>2, <1>3, <1>6 DEF Device, CopyDone, MlpDone, bankVars, hostVars
  <1>7. ASSUME NEW A \in SUBSET Experts, RequestPlan(A), mlps # {}
        PROVE  \/ Undrainable'
               \/ \E ev \in doneEvents' :
                     slotState'[ev.slot] = "computing" /\ ev.mlp = mlpSeq'
    BY <1>2, <1>7 DEF RequestPlan, bankVars, deviceVars
  <1>8. CASE BeginRaises \/ UNCHANGED vars
    BY <1>1, <1>2, <1>3, <1>8 DEF BeginRaises, vars, bankVars, hostVars, deviceVars
  <1>9. CASE (Staging /\ ~DrainRaises) \/ HostFault
    <2>1. mlps' = mlps /\ (Drain \/ pc \in StagingPc)
      BY <1>9 DEF Staging, HostFault, Drain, PlaceHit, PlaceMiss, AllHits, LoadSync,
           LoadAsync, InstallWait, Publish, HostStoreRaises, LoadRaises, deviceVars,
           StagingPc
    <2> QED BY <2>1, DrainWaits, StagingAlone
  <1> QED BY <1>1, <1>3, <1>4, <1>5, <1>6, <1>7, <1>8, <1>9
          DEF Next, Computing, Replay, Capture

LEMMA DrainNext == HostInv /\ DrainInv /\ [Next]_vars => DrainInv'
  BY NumberingNext, AloneNext, KernelsHaveEventsNext DEF DrainInv

--------------------------------------------------------------------------
(***************************************************************************)
(* WeightInv is inductive.  First, what the steps of the device and the    *)
(* H2D batches do to the weights that a slot will hold.                    *)
(***************************************************************************)
LEMMA WeightInit == Init => WeightInv
  BY DEF Init, BankInit, WeightInv, SlotWeights, LoadsIssued, KernelWeights

LEMMA WillHoldStays ==
    ASSUME NEW s, NEW e, WillHold(s, e), UNCHANGED <<copies, content>>
    PROVE  WillHold(s, e)'
  BY DEF WillHold, LastInto

\* A completed copy fulfils what was expected of its slot.
LEMMA CopyFulfils ==
    ASSUME HostInv, NEW c \in copies, CopyDone(c), NEW s \in Slots, NEW e,
           WillHold(s, e)
    PROVE  WillHold(s, e)'
  <1>0. /\ content \in [Slots -> Experts \cup {None}]
        /\ \A d \in copies : d.ticket \in Nat /\ d.slot \in Slots
    BY DEF HostInv, TypeOK, CopyRecord
  <1>1. /\ copies' = copies \ {c} /\ content' = [content EXCEPT ![c.slot] = c.expert]
        /\ \A d \in copies : c.ticket <= d.ticket
    BY DEF CopyDone
  <1>2. ASSUME NEW d \in copies', d.slot = s, LastInto(d)' PROVE d.expert = e
    <2>1. \A x \in copies : x.slot = s => x.ticket <= d.ticket
      BY <1>0, <1>1, <1>2 DEF LastInto
    <2> QED BY <1>1, <1>2, <2>1 DEF WillHold, LastInto
  <1>3. ASSUME \A d \in copies' : d.slot # s PROVE content'[s] = e
    <2>1. CASE c.slot = s
      <3>1. \A d \in copies : d.slot = s => d = c
        BY <1>1, <1>3
      <3>2. c.ticket <= c.ticket
        BY <1>0
      <3>3. LastInto(c)
        BY <2>1, <3>1, <3>2 DEF LastInto
      <3> QED BY <1>0, <1>1, <2>1, <3>3 DEF WillHold
    <2>2. CASE c.slot # s
      BY <1>0, <1>1, <1>3, <2>2 DEF WillHold
    <2> QED BY <2>1, <2>2
  <1> QED BY <1>2, <1>3 DEF WillHold

\* A batch into other slots changes nothing for slot s.
LEMMA BatchElsewhere ==
    ASSUME NEW S, NEW t, NEW s \in Slots, s \notin S, NEW e, WillHold(s, e),
           copies' = copies \cup CopiesInto(S, t), UNCHANGED content
    PROVE  /\ WillHold(s, e)'
           /\ \A c \in copies' : c.slot = s => c \in copies
  <1>1. \A c \in CopiesInto(S, t) : c.slot # s
    BY DEF CopiesInto
  <1>2. \A c \in copies' : c.slot = s => c \in copies
    BY <1>1
  <1>3. ASSUME NEW c \in copies', c.slot = s, LastInto(c)' PROVE c.expert = e
    BY <1>2, <1>3 DEF WillHold, LastInto
  <1>4. ASSUME \A c \in copies' : c.slot # s PROVE content'[s] = e
    BY <1>4 DEF WillHold
  <1> QED BY <1>2, <1>3, <1>4 DEF WillHold

\* Of a batch newer than all copies so far, each slot keeps what it is given.
LEMMA BatchDecides ==
    ASSUME HostInv, Numbering, NEW S, NEW s \in S,
           NEW e, slotKey[s] = e,
           copies' = copies \cup CopiesInto(S, copySeq + 1)
    PROVE  WillHold(s, e)'
  <1>1. \A c \in copies : c.ticket \in Nat /\ c.ticket <= copySeq
    BY DEF HostInv, TypeOK, CopyRecord, Numbering
  <1>2. [slot |-> s, expert |-> e, ticket |-> copySeq + 1] \in copies'
    BY DEF CopiesInto
  <1>3. \A c \in CopiesInto(S, copySeq + 1) : c.slot = s => c.expert = e
    BY DEF CopiesInto
  <1>4. ASSUME NEW c \in copies', c.slot = s, LastInto(c)' PROVE c.expert = e
    <2>1. copySeq + 1 <= c.ticket
      BY <1>2, <1>4 DEF LastInto
    <2>2. c \notin copies
      BY <1>1, <2>1 DEF HostInv, TypeOK
    <2> QED BY <1>3, <1>4, <2>2
  <1>5. ~ \A c \in copies' : c.slot # s
    BY <1>2
  <1> QED BY <1>4, <1>5 DEF WillHold

\* The bank's part of a step that leaves the weights alone: a slot with
\* weights keeps its owner, and no slot comes to have weights.
SlotsSettled ==
    \A s \in Slots : slotState'[s] \in {"ready", "computing"} =>
        slotState[s] \in {"ready", "computing"} /\ slotKey'[s] = slotKey[s]

LEMMA HostWeights ==
    ASSUME HostInv, WeightInv, SlotsSettled, pc' # "waiting",
           UNCHANGED <<copies, waitTicket, content, mlps>>
    PROVE  WeightInv'
  <1>1. \A s \in Slots, t \in Nat, e \in Experts \cup {None} :
           HeldAfter(t, s, e) => HeldAfter(t, s, e)'
    BY DEF HeldAfter, WillHold, LastInto
  <1>2. SlotWeights'
    BY <1>1 DEF SlotsSettled, WeightInv, SlotWeights, HostInv, TypeOK, BankTypeOK
  <1>3. KernelWeights'
    BY DEF WeightInv, KernelWeights, HeldAfter, WillHold, LastInto
  <1> QED BY <1>2, <1>3 DEF WeightInv, LoadsIssued

LEMMA StagingWeights ==
    HostInv /\ DrainInv /\ WeightInv /\ Staging => WeightInv'
  <1> SUFFICES ASSUME HostInv, DrainInv, WeightInv, Staging PROVE WeightInv'
    OBVIOUS
  <1>0. /\ slotState \in [Slots -> States] /\ lastUsed \in [Slots -> Nat \cup {-1}]
        /\ slotKey \in [Slots -> Experts \cup {None}]
        /\ copySeq \in Nat /\ waitTicket \in Nat
        /\ \A c \in copies : c.ticket \in Nat
    BY DEF HostInv, TypeOK, BankTypeOK, CopyRecord
  <1>1. CASE Drain
    <2>1. SlotsSettled
      BY <1>0, <1>1 DEF Drain, SetState, SlotsSettled, SlotsIn
    <2> QED BY <1>1, <2>1, HostWeights DEF Drain, deviceVars
  <1>2. CASE DrainRaises \/ AllHits \/ Publish
    <2>1. SlotsSettled
      BY <1>2 DEF DrainRaises, AllHits, Publish, bankVars, SlotsSettled
    <2> QED BY <1>2, <2>1, HostWeights DEF DrainRaises, AllHits, Publish, deviceVars
  <1>3. ASSUME NEW e \in Experts, PlaceHit(e) PROVE WeightInv'
    <2>1. SlotsSettled
      BY <1>3 DEF PlaceHit, Touch, SlotsSettled
    <2> QED BY <1>3, <2>1, HostWeights DEF PlaceHit, deviceVars
  <1>4. ASSUME NEW e \in Experts, PlaceMiss(e) PROVE WeightInv'
    <2>1. SlotsSettled
      BY <1>0, <1>4 DEF PlaceMiss, Reserve, SlotsSettled
    <2> QED BY <1>4, <2>1, HostWeights DEF PlaceMiss, deviceVars
  <1>5. pc \in StagingPc =>
           /\ LoadSlots \subseteq Slots
           /\ \A e \in misses : placed[e] \in Slots /\ slotKey[placed[e]] = e
           /\ \A s \in LoadSlots : slotKey[s] \in misses /\ placed[slotKey[s]] = s
    BY LoadSlotsOwned
  <1>6. pc = "placing" => \A s \in LoadSlots : slotState[s] = "loading"
    BY DEF HostInv, PlacedState, PlacedResident, StagingPc, LoadSlots
  <1>7. CASE LoadSync
    <2>1. /\ pc = "placing" /\ pc' = "publishing" /\ mlps = {} /\ copies = {}
          /\ content' = [s \in Slots |-> IF s \in LoadSlots THEN slotKey[s] ELSE content[s]]
          /\ UNCHANGED <<slotKey, copies, waitTicket, mlps>>
          /\ slotState' = [s \in Slots |-> IF s \in LoadSlots THEN "ready" ELSE slotState[s]]
      BY <1>7 DEF LoadSync, SetState, DrainInv, Numbering
    <2>2. SlotWeights'
      BY <1>0, <2>1 DEF WeightInv, SlotWeights, HeldAfter, WillHold
    <2> QED BY <2>1, <2>2 DEF WeightInv, LoadsIssued, KernelWeights
  <1>8. CASE LoadAsync
    <2>1. /\ pc = "placing" /\ mlps = {}
          /\ copies' = copies \cup CopiesInto(LoadSlots, copySeq + 1)
          /\ UNCHANGED <<slotState, slotKey, placed, misses, waitTicket, content, mlps>>
      BY <1>8, StagingAlone DEF LoadAsync, bankVars, StagingPc
    <2>2. ASSUME NEW s \in Slots, slotState[s] \in {"ready", "computing"}
          PROVE  HeldAfter(waitTicket, s, slotKey[s])'
      <3> DEFINE k == slotKey[s]
      <3>1. s \notin LoadSlots
        BY <1>6, <2>1, <2>2
      <3>2. HeldAfter(waitTicket, s, k)
        BY <2>2 DEF WeightInv, SlotWeights
      <3> SUFFICES ASSUME NEW e, e = k PROVE HeldAfter(waitTicket, s, e)'
        BY <2>1 DEF HeldAfter, WillHold, LastInto
      <3> HIDE DEF k
      <3> QED BY <2>1, <3>1, <3>2, BatchElsewhere DEF HeldAfter
    <2>3. ASSUME NEW e \in misses PROVE WillHold(placed[e], e)'
      <3> DEFINE p == placed[e]
      <3>1. p \in LoadSlots /\ slotKey[p] = e
        BY <1>5, <2>1 DEF LoadSlots, StagingPc
      <3> SUFFICES ASSUME NEW s, s = p PROVE WillHold(s, e)'
        BY <2>1 DEF WillHold, LastInto
      <3> HIDE DEF p
      <3> QED BY <2>1, <3>1, BatchDecides DEF DrainInv
    <2> QED BY <2>1, <2>2, <2>3 DEF WeightInv, SlotWeights, LoadsIssued, KernelWeights
  <1>9. CASE InstallWait
    <2>1. /\ pc = "waiting" /\ pc' = "publishing" /\ mlps = {} /\ waitTicket' = copySeq
          /\ UNCHANGED <<slotKey, copies, content, mlps>>
          /\ slotState' = [s \in Slots |-> IF s \in LoadSlots THEN "ready" ELSE slotState[s]]
      BY <1>9, StagingAlone DEF InstallWait, SetState, StagingPc
    <2>2. \A c \in copies : c.ticket <= copySeq
      BY DEF DrainInv, Numbering
    <2>3. ASSUME NEW s \in Slots, slotState'[s] \in {"ready", "computing"}
          PROVE  WillHold(s, slotKey[s])
      <3>1. CASE s \in LoadSlots
        BY <1>5, <2>1, <3>1 DEF WeightInv, LoadsIssued, StagingPc
      <3>2. CASE s \notin LoadSlots
        BY <2>1, <2>3, <3>2 DEF WeightInv, SlotWeights, HeldAfter
      <3> QED BY <3>1, <3>2
    <2>4. SlotWeights'
      BY <2>1, <2>2, <2>3 DEF SlotWeights, HeldAfter, WillHold, LastInto
    <2> QED BY <2>1, <2>4 DEF WeightInv, LoadsIssued, KernelWeights
  <1> QED BY <1>1, <1>2, <1>3, <1>4, <1>7, <1>8, <1>9 DEF Staging

LEMMA FaultWeights ==
    HostInv /\ DrainInv /\ WeightInv /\ HostFault => WeightInv'
  <1> SUFFICES ASSUME HostInv, DrainInv, WeightInv, HostFault PROVE WeightInv'
    OBVIOUS
  <1>0. /\ slotState \in [Slots -> States]
        /\ slotKey \in [Slots -> Experts \cup {None}]
    BY DEF HostInv, TypeOK, BankTypeOK
  <1>1. ASSUME NEW e \in Experts, HostStoreRaises(e) PROVE WeightInv'
    <2>1. SlotsSettled
      BY <1>0, <1>1 DEF HostStoreRaises, Reserve, SlotsSettled
    <2> QED BY <1>1, <2>1, HostWeights DEF HostStoreRaises, deviceVars
  <1>2. ASSUME NEW S \in SUBSET Slots, LoadRaises(S) PROVE WeightInv'
    <2>1. /\ pc = "placing" /\ pc' = "idle" /\ mlps = {} /\ S \subseteq LoadSlots
          /\ UNCHANGED <<waitTicket, mlps>>
          /\ slotState' = [s \in Slots |-> IF s \in LoadSlots THEN "empty" ELSE slotState[s]]
          /\ slotKey' = [s \in Slots |-> IF s \in LoadSlots THEN None ELSE slotKey[s]]
      BY <1>2, StagingAlone DEF LoadRaises, Clear, StagingPc
    <2>2. ASSUME NEW s \in Slots, slotState'[s] \in {"ready", "computing"}
          PROVE  HeldAfter(waitTicket, s, slotKey[s])'
      <3> DEFINE k == slotKey[s]
      <3>1. s \notin LoadSlots /\ s \notin S /\ slotState[s] \in {"ready", "computing"}
            /\ slotKey'[s] = k
        BY <2>1, <2>2
      <3>2. HeldAfter(waitTicket, s, k)
        BY <3>1 DEF WeightInv, SlotWeights
      <3> SUFFICES ASSUME NEW e, e = k PROVE HeldAfter(waitTicket, s, e)'
        BY <3>1 DEF HeldAfter, WillHold, LastInto
      <3> HIDE DEF k
      <3>3. CASE AsyncLoad
        <4>1. /\ copies' = copies \cup CopiesInto(S, copySeq + 1)
              /\ UNCHANGED content
          BY <1>2, <3>3 DEF LoadRaises
        <4> QED BY <2>1, <3>1, <3>2, <4>1, BatchElsewhere DEF HeldAfter
      <3>4. CASE ~AsyncLoad
        <4>1. UNCHANGED copies /\ content'[s] = content[s]
          BY <1>2, <3>1, <3>4 DEF LoadRaises
        <4> QED BY <2>1, <3>2, <4>1 DEF HeldAfter, WillHold, LastInto
      <3> QED BY <3>3, <3>4
    <2> QED BY <2>1, <2>2 DEF WeightInv, SlotWeights, LoadsIssued, KernelWeights
  <1> QED BY <1>1, <1>2 DEF HostFault

LEMMA ComputingWeights ==
    HostInv /\ DrainInv /\ WeightInv /\ Computing => WeightInv'
  <1> SUFFICES ASSUME HostInv, DrainInv, WeightInv, Computing PROVE WeightInv'
    OBVIOUS
  <1>0. /\ slotState \in [Slots -> States] /\ activeSlots \subseteq Slots
        /\ slotKey \in [Slots -> Experts \cup {None}]
    BY DEF HostInv, TypeOK, BankTypeOK
  <1>1. pc' = "idle" /\ UNCHANGED <<slotKey, copies, waitTicket, content>>
    BY DEF Computing, EagerCompute, BeginRaises, Replay, Capture, Launch,
           SharedSuffixCompute, SetState, bankVars, hostVars, deviceVars
  <1>2. SlotsSettled
    <2>1. CASE EagerCompute
      BY <1>0, <2>1 DEF EagerCompute, SetState, SlotsSettled
    <2>2. CASE Capture
      BY <1>0, <2>2 DEF Capture, SetState, SlotsSettled
    <2>3. CASE SharedSuffixCompute
      BY <1>0, <2>3 DEF SharedSuffixCompute, SetState, SlotsSettled
    <2>4. CASE BeginRaises \/ Replay
      BY <2>4 DEF BeginRaises, Replay, bankVars, SlotsSettled
    <2> QED BY <2>1, <2>2, <2>3, <2>4 DEF Computing
  <1>3. CASE BeginRaises \/ Capture \/ SharedSuffixCompute
    <2>1. mlps' = mlps
      BY <1>3 DEF BeginRaises, Capture, SharedSuffixCompute, deviceVars
    <2> QED BY <1>1, <1>2, <2>1, HostWeights
  <1>4. ASSUME Serving, Launch PROVE WeightInv'
    <2> DEFINE new == [id |-> mlpSeq + 1, experts |-> plan,
                       reads |-> log2phy, after |-> waitTicket]
    <2>1. mlps' = mlps \cup {new}
      BY <1>4 DEF Launch
    <2>2. new.experts = plan /\ new.reads = log2phy /\ new.after = waitTicket
      OBVIOUS
    <2> HIDE DEF new
    <2>3. ASSUME NEW e \in plan
          PROVE  log2phy[e] # NoSlot /\ HeldAfter(waitTicket, log2phy[e], e)
      <3>1. /\ log2phy[e] \in Slots /\ resident[e] = log2phy[e] /\ e \in Experts
            /\ slotState[log2phy[e]] \in {"ready", "computing"}
        BY <1>4 DEF HostInv, TypeOK, BankTypeOK, PublishedEntries
      <3>2. slotKey[log2phy[e]] = e
        BY <3>1, SlotsType DEF HostInv, IndexCoherent
      <3> QED BY <3>1, <3>2, SlotsType DEF WeightInv, SlotWeights
    <2>4. \A m \in mlps' : \A e \in m.experts :
             m.reads[e] # NoSlot /\ HeldAfter(m.after, m.reads[e], e)
      BY <2>1, <2>2, <2>3 DEF WeightInv, KernelWeights
    <2>5. KernelWeights'
      BY <1>1, <2>4 DEF KernelWeights, HeldAfter, WillHold, LastInto
    <2>6. SlotWeights'
      BY <1>1, <1>2 DEF SlotsSettled, WeightInv, SlotWeights, HeldAfter, WillHold, LastInto
    <2> QED BY <1>1, <2>5, <2>6 DEF WeightInv, LoadsIssued
  <1> QED BY <1>3, <1>4 DEF Computing, EagerCompute, Replay

LEMMA DeviceWeights == HostInv /\ WeightInv /\ Device => WeightInv'
  <1> SUFFICES ASSUME HostInv, WeightInv, Device PROVE WeightInv'
    OBVIOUS
  <1>1. ASSUME NEW c \in copies, CopyDone(c) PROVE WeightInv'
    <2>1. /\ copies' \subseteq copies /\ UNCHANGED <<waitTicket, mlps>>
          /\ UNCHANGED <<pc, placed, misses, slotState, slotKey>>
      BY <1>1 DEF CopyDone, bankVars, hostVars
    <2>2. \A s \in Slots : \A e, t : HeldAfter(t, s, e) =>
             WillHold(s, e)' /\ \A d \in copies' : d.slot = s => d.ticket <= t
      BY <1>1, <2>1, CopyFulfils DEF HeldAfter
    <2>3. SlotWeights'
      <3> SUFFICES ASSUME NEW s \in Slots, slotState[s] \in {"ready", "computing"}
                   PROVE  HeldAfter(waitTicket, s, slotKey[s])'
        BY <2>1 DEF SlotWeights
      <3> DEFINE k == slotKey[s]
      <3>1. HeldAfter(waitTicket, s, k)
        BY DEF WeightInv, SlotWeights
      <3> SUFFICES ASSUME NEW e, e = k PROVE HeldAfter(waitTicket, s, e)'
        BY <2>1 DEF HeldAfter, WillHold, LastInto
      <3> HIDE DEF k
      <3> QED BY <2>1, <2>2, <3>1 DEF HeldAfter
    <2>4. LoadsIssued'
      <3> SUFFICES ASSUME pc = "waiting", NEW e \in misses PROVE WillHold(placed[e], e)'
        BY <2>1 DEF LoadsIssued
      <3> DEFINE p == placed[e]
      <3>1. p \in Slots /\ WillHold(p, e)
        BY LoadSlotsOwned DEF WeightInv, LoadsIssued, StagingPc
      <3> SUFFICES ASSUME NEW s, s = p PROVE WillHold(s, e)'
        BY <2>1 DEF WillHold, LastInto
      <3> HIDE DEF p
      <3> QED BY <1>1, <3>1, CopyFulfils
    <2>5. KernelWeights'
      <3> SUFFICES ASSUME NEW m \in mlps, NEW e \in m.experts
                   PROVE  m.reads[e] # NoSlot /\ HeldAfter(m.after, m.reads[e], e)'
        BY <2>1 DEF KernelWeights, HeldAfter, WillHold, LastInto
      <3>1. m.reads[e] \in Slots /\ HeldAfter(m.after, m.reads[e], e)
        BY DEF HostInv, TypeOK, MlpRecord, WeightInv, KernelWeights
      <3> QED BY <2>2, <3>1, SlotsType DEF HeldAfter
    <2> QED BY <2>3, <2>4, <2>5 DEF WeightInv
  <1>2. ASSUME NEW m \in mlps, MlpDone(m) PROVE WeightInv'
    <2>1. /\ mlps' \subseteq mlps /\ UNCHANGED <<copies, content, waitTicket>>
          /\ UNCHANGED <<pc, placed, misses, slotState, slotKey>>
      BY <1>2 DEF MlpDone, bankVars, hostVars
    <2> QED BY <2>1 DEF WeightInv, SlotWeights, LoadsIssued, KernelWeights,
                        HeldAfter, WillHold, LastInto
  <1> QED BY <1>1, <1>2 DEF Device

LEMMA WeightNext == HostInv /\ DrainInv /\ WeightInv /\ [Next]_vars => WeightInv'
  <1> SUFFICES ASSUME HostInv, DrainInv, WeightInv, [Next]_vars PROVE WeightInv'
    OBVIOUS
  <1>1. ASSUME NEW A \in SUBSET Experts, RequestPlan(A) PROVE WeightInv'
    <2>1. SlotsSettled
      BY <1>1 DEF RequestPlan, bankVars, SlotsSettled
    <2> QED BY <1>1, <2>1, HostWeights DEF RequestPlan, deviceVars
  <1>2. CASE UNCHANGED vars
    BY <1>2 DEF vars, bankVars, hostVars, deviceVars, WeightInv, SlotWeights,
                LoadsIssued, KernelWeights, HeldAfter, WillHold, LastInto
  <1> QED BY <1>1, <1>2, StagingWeights, FaultWeights, ComputingWeights,
             DeviceWeights DEF Next

--------------------------------------------------------------------------
(***************************************************************************)
(* The whole invariant, and what it means for the kernels.                 *)
(***************************************************************************)
Inv == HostInv /\ DrainInv /\ WeightInv

LEMMA Invariant == Spec => []Inv
  <1>1. Init => Inv
    BY HostInit, DrainInit, WeightInit DEF Inv
  <1>2. Inv /\ [Next]_vars => Inv'
    BY HostNext, DrainNext, WeightNext DEF Inv
  <1> QED BY <1>1, <1>2, PTL DEF Spec

LEMMA KernelsAreRight == Inv => KernelsReadTheirExperts
  <1> SUFFICES ASSUME Inv, NEW m \in mlps, Runnable(m), NEW e \in m.experts
               PROVE  WeightsFor(m, e) = e
    BY DEF KernelsReadTheirExperts
  <1>1. m.reads[e] # NoSlot /\ HeldAfter(m.after, m.reads[e], e)
    BY DEF Inv, WeightInv, KernelWeights
  <1>2. m.after \in Nat /\ \A c \in copies : c.ticket \in Nat
    BY DEF Inv, HostInv, TypeOK, MlpRecord, CopyRecord
  <1>3. \A c \in copies : c.slot # m.reads[e]
    BY <1>1, <1>2 DEF HeldAfter, Runnable
  <1> QED BY <1>1, <1>3 DEF HeldAfter, WillHold, WeightsFor

(***************************************************************************)
(* Every kernel computes with the weights of the experts it was given,     *)
(* through every interleaving of staging, copying and computing.           *)
(***************************************************************************)
THEOREM KernelsAreServed == Spec => []KernelsReadTheirExperts
  BY Invariant, KernelsAreRight, PTL

\* Nothing is copied into a slot under a kernel that reads it
\* (README: asynchronous loads and in-flight compute).
THEOREM NoOverwrite == Spec => []NoCopyUnderAReader
  <1>1. Inv => NoCopyUnderAReader
    BY DEF Inv, WeightInv, KernelWeights, HeldAfter, NoCopyUnderAReader
  <1> QED BY <1>1, Invariant, PTL

\* The leases of the slots that an unfinished kernel reads do not change
\* (ExpertSlotBank.assign_slot and clear_slot, SlotLease.version).
THEOREM LeasesHold == Spec => LeasesOutliveKernels
  <1> DEFINE Held == \A m \in mlps \cap mlps' : \A e \in m.experts :
                        LET s == m.reads[e] IN
                          s \in Slots => slotKey'[s] = slotKey[s]
                                         /\ slotVersion'[s] = slotVersion[s]
  <1>1. Inv /\ [Next]_vars => [Held]_vars
    <2> SUFFICES ASSUME Inv, [Next]_vars, mlps # {}
                 PROVE  UNCHANGED <<slotKey, slotVersion>>
      OBVIOUS
    <2>1. pc \notin StagingPc
      BY StagingAlone DEF Inv
    <2> QED BY <2>1 DEF StagingPc, Next, Staging, HostFault, Computing, Device,
          RequestPlan, Drain, DrainRaises, PlaceHit, PlaceMiss, AllHits, LoadSync,
          LoadAsync, InstallWait, Publish, HostStoreRaises, LoadRaises, EagerCompute,
          BeginRaises, Replay, Capture, SharedSuffixCompute, CopyDone, MlpDone,
          SetState, vars, bankVars, hostVars
  <1>2. LeasesOutliveKernels <=> [][Held]_vars
    BY DEF LeasesOutliveKernels
  <1> QED BY <1>1, <1>2, Invariant, PTL DEF Spec

--------------------------------------------------------------------------
(***************************************************************************)
(* Refinement: a launch issues, a completion executes, and everything else *)
(* is invisible to the layer.                                              *)
(***************************************************************************)
LEMMA LaunchIssues ==
    ASSUME plan \in SUBSET Experts, Launch
    PROVE  Abstract!Issue(plan)
  <1> DEFINE new == [id |-> mlpSeq + 1, experts |-> plan,
                     reads |-> log2phy, after |-> waitTicket]
  <1>1. mlps' = mlps \cup {new} /\ mlpSeq' = mlpSeq + 1 /\ result' = result
    BY DEF Launch
  <1>2. new.id = mlpSeq + 1 /\ new.experts = plan
    OBVIOUS
  <1> HIDE DEF new
  <1>3. MoeQueue' = MoeQueue \cup {[id |-> mlpSeq + 1, experts |-> plan]}
    BY <1>1, <1>2 DEF MoeQueue
  <1> QED BY <1>1, <1>3 DEF Abstract!Issue

LEMMA MlpDoneExecutes ==
    ASSUME Inv, NEW m \in mlps, MlpDone(m)
    PROVE  \E q \in MoeQueue : Abstract!Execute(q)
  <1> DEFINE q == [id |-> m.id, experts |-> m.experts]
  <1>1. q \in MoeQueue /\ q.id = m.id /\ q.experts = m.experts
    BY DEF MoeQueue
  <1>2. /\ mlps' = mlps \ {m} /\ UNCHANGED mlpSeq /\ Runnable(m)
        /\ result' = [e \in Experts |-> WeightsFor(m, e)]
    BY DEF MlpDone
  <1>3. \A r \in MoeQueue : q.id <= r.id
    BY <1>1, <1>2 DEF MoeQueue, Runnable
  <1>4. MoeQueue' = MoeQueue \ {q}
    <2>1. \A n \in mlps : n # m => [id |-> n.id, experts |-> n.experts] # q
      <3>1. \A n \in mlps : n # m => n.id # m.id
        BY DEF Inv, DrainInv, Numbering
      <3> QED BY <3>1
    <2> HIDE DEF q
    <2>2. q = [id |-> m.id, experts |-> m.experts]
      BY DEF q
    <2> QED BY <1>2, <2>1, <2>2 DEF MoeQueue
  <1>5. result' = [e \in Experts |-> IF e \in q.experts THEN e ELSE None]
    <2>1. \A e \in Experts : WeightsFor(m, e) = IF e \in m.experts THEN e ELSE None
      BY <1>2, KernelsAreRight DEF KernelsReadTheirExperts, WeightsFor
    <2> QED BY <1>1, <1>2, <2>1
  <1> HIDE DEF q
  <1> QED BY <1>1, <1>2, <1>3, <1>4, <1>5 DEF Abstract!Execute

(***************************************************************************)
(* The expert cache is transparent: FixedSlots implements MoeLayer.        *)
(***************************************************************************)
THEOREM CacheIsTransparent == Spec => AbstractSpec
  <1>1. Init => Abstract!Init
    BY DEF Init, Abstract!Init, MoeQueue
  <1>2. Inv /\ [Next]_vars => [Abstract!Next]_(Abstract!vars)
    <2> SUFFICES ASSUME Inv, [Next]_vars PROVE [Abstract!Next]_(Abstract!vars)
      OBVIOUS
    <2>1. CASE EagerCompute \/ Replay
      <3>1. plan \in SUBSET Experts
        BY DEF Inv, HostInv, TypeOK
      <3> QED BY <2>1, <3>1, LaunchIssues DEF EagerCompute, Replay, Abstract!Next
    <2>2. ASSUME NEW m \in mlps, MlpDone(m) PROVE Abstract!Next
      BY <2>2, MlpDoneExecutes DEF Abstract!Next
    <2>3. ASSUME UNCHANGED <<mlps, mlpSeq, result>> PROVE UNCHANGED Abstract!vars
      BY <2>3 DEF Abstract!vars, MoeQueue
    <2>4. \/ EagerCompute \/ Replay \/ \E m \in mlps : MlpDone(m)
          \/ UNCHANGED <<mlps, mlpSeq, result>>
      BY DEF Next, Staging, HostFault, Computing, Device, RequestPlan, Drain,
             DrainRaises, PlaceHit, PlaceMiss, AllHits, LoadSync, LoadAsync,
             InstallWait, Publish, HostStoreRaises, LoadRaises, BeginRaises,
             Capture, SharedSuffixCompute, CopyDone, vars, deviceVars
    <2> QED BY <2>1, <2>2, <2>3, <2>4
  <1> QED BY <1>1, <1>2, Invariant, PTL DEF Spec, AbstractSpec, Abstract!Spec

--------------------------------------------------------------------------
(***************************************************************************)
(* Failures.  A LOADING slot belongs to the plan being staged, unless the  *)
(* host store raised; a COMPUTING one has its event, unless the fused      *)
(* shared suffix took it.                                                  *)
(***************************************************************************)
LoadingIsStaging ==
    "host_store" \notin raised =>
        \A s \in SlotsIn("loading") :
            pc \in {"placing", "waiting"} /\ s \in LoadSlots

ComputingHasEvent == ~SharedSuffix => LeasesHaveEvents

FaultInv ==
    /\ LoadingIsStaging
    /\ ComputingHasEvent
    /\ ~SharedSuffix => DrainNeedsAStoreFailure

LEMMA FaultInit == Init => FaultInv
  BY DEF Init, BankInit, FaultInv, LoadingIsStaging, ComputingHasEvent, LeasesHaveEvents, SlotsIn,
         DrainNeedsAStoreFailure

LEMMA LoadingNext == HostInv /\ FaultInv /\ [Next]_vars => LoadingIsStaging'
  <1> SUFFICES ASSUME HostInv, FaultInv, [Next]_vars, "host_store" \notin raised'
               PROVE  \A s \in SlotsIn("loading")' :
                         pc' \in {"placing", "waiting"} /\ s \in LoadSlots'
    BY DEF LoadingIsStaging
  <1> DEFINE Goal == \A s \in SlotsIn("loading")' :
                        pc' \in {"placing", "waiting"} /\ s \in LoadSlots'
  <1>0. /\ slotState \in [Slots -> States] /\ activeSlots \subseteq Slots
        /\ placed \in [Experts -> Slots \cup {NoSlot}]
        /\ misses \subseteq Experts
    BY DEF HostInv, TypeOK, BankTypeOK
  <1>1. "host_store" \notin raised
    BY DEF Next, Staging, HostFault, Computing, Device, RequestPlan, Drain,
           DrainRaises, PlaceHit, PlaceMiss, AllHits, LoadSync, LoadAsync,
           InstallWait, Publish, HostStoreRaises, LoadRaises, EagerCompute,
           BeginRaises, Replay, Capture, SharedSuffixCompute, CopyDone, MlpDone,
           vars, hostVars
  <1>2. \A s \in Slots : slotState[s] = "loading" =>
                         pc \in {"placing", "waiting"} /\ s \in LoadSlots
    BY <1>1 DEF FaultInv, LoadingIsStaging, SlotsIn
  \* A step that makes no slot LOADING and leaves the plan alone.
  <1>3. ASSUME UNCHANGED <<placed, misses>>,
               pc' = pc \/ pc \notin {"placing", "waiting"} \/ pc' = "waiting",
               \A s \in Slots : slotState'[s] = "loading" => slotState[s] = "loading"
        PROVE  Goal
    BY <1>2, <1>3 DEF SlotsIn, LoadSlots
  <1>4. ASSUME \A s \in Slots : slotState'[s] # "loading"
        PROVE  Goal
    BY <1>4 DEF SlotsIn
  <1>5. CASE Staging
    <2>1. CASE Drain
      BY <1>0, <1>4, <2>1 DEF Drain, Undrainable, SetState, SlotsIn
    <2>2. CASE DrainRaises \/ LoadAsync
      BY <1>3, <2>2 DEF DrainRaises, LoadAsync, bankVars
    <2>3. ASSUME NEW e \in Experts, PlaceHit(e) PROVE Goal
      <3>1. e \notin misses
        BY <2>3 DEF PlaceHit, Remaining, HostInv, PlacedResident, PlacedExperts, StagingPc
      <3>2. LoadSlots' = LoadSlots
        BY <1>0, <2>3, <3>1 DEF PlaceHit, LoadSlots
      <3> QED BY <1>2, <2>3, <3>2 DEF PlaceHit, Touch, SlotsIn
    <2>4. ASSUME NEW e \in Experts, PlaceMiss(e) PROVE Goal
      <3>1. PICK t \in Slots : /\ Reserve(t, e, stepId)
                               /\ placed' = [placed EXCEPT ![e] = t]
        BY <2>4 DEF PlaceMiss
      <3>2. /\ pc = "placing" /\ pc' = pc /\ misses' = misses \cup {e}
            /\ e \notin misses
        BY <2>4 DEF PlaceMiss, Remaining, HostInv, PlacedResident, PlacedExperts, StagingPc
      <3>3. LoadSlots' = LoadSlots \cup {t}
        BY <1>0, <3>1, <3>2 DEF LoadSlots
      <3> QED BY <1>0, <1>2, <3>1, <3>2, <3>3 DEF Reserve, SlotsIn
    <2>5. CASE AllHits
      <3>1. LoadSlots = {}
        BY <2>5 DEF AllHits, LoadSlots
      <3> QED BY <1>2, <1>4, <2>5, <3>1 DEF AllHits, bankVars
    <2>6. CASE LoadSync \/ InstallWait
      BY <1>2, <1>4, <2>6 DEF LoadSync, InstallWait, SetState
    <2>7. CASE Publish
      BY <1>3, <2>7 DEF Publish, bankVars
    <2> QED BY <1>5, <2>1, <2>2, <2>3, <2>4, <2>5, <2>6, <2>7 DEF Staging
  <1>6. CASE HostFault
    <2>1. PICK S \in SUBSET Slots : LoadRaises(S)
      BY <1>6 DEF HostFault, HostStoreRaises
    <2> QED BY <1>2, <1>4, <2>1 DEF LoadRaises, Clear
  <1>7. CASE Computing
    BY <1>0, <1>3, <1>7 DEF Computing, EagerCompute, BeginRaises, Replay, Capture,
           SharedSuffixCompute, Serving, SetState, bankVars, hostVars
  <1>8. CASE Device
    BY <1>3, <1>8 DEF Device, CopyDone, MlpDone, bankVars, hostVars
  <1>9. ASSUME NEW A \in SUBSET Experts, RequestPlan(A) PROVE Goal
    BY <1>3, <1>9 DEF RequestPlan, bankVars
  <1>10. CASE UNCHANGED vars
    BY <1>3, <1>10 DEF vars, bankVars, hostVars
  <1> QED BY <1>5, <1>6, <1>7, <1>8, <1>9, <1>10 DEF Next

LEMMA ComputingNext == HostInv /\ FaultInv /\ [Next]_vars => ComputingHasEvent'
  <1> SUFFICES ASSUME HostInv, FaultInv, [Next]_vars, ~SharedSuffix
               PROVE  \A s \in SlotsIn("computing")' : HasEvent(s)'
    BY DEF ComputingHasEvent, LeasesHaveEvents
  <1> DEFINE Goal == \A s \in SlotsIn("computing")' : HasEvent(s)'
  <1>0. slotState \in [Slots -> States] /\ slotVersion \in [Slots -> Nat]
        /\ activeSlots \subseteq Slots
    BY DEF HostInv, TypeOK, BankTypeOK
  <1>1. \A s \in Slots : slotState[s] = "computing" =>
           \E ev \in doneEvents : ev.slot = s /\ ev.version = slotVersion[s]
    BY DEF FaultInv, ComputingHasEvent, LeasesHaveEvents, HasEvent, SlotsIn
  \* A step that makes no slot COMPUTING and keeps the events.
  <1>2. ASSUME UNCHANGED doneEvents,
               \A s \in Slots : slotState'[s] = "computing" =>
                  slotState[s] = "computing" /\ slotVersion'[s] = slotVersion[s]
        PROVE  Goal
    BY <1>1, <1>2 DEF HasEvent, SlotsIn
  <1>3. CASE Staging
    <2>1. CASE Drain
      BY <1>0, <2>1 DEF Drain, SetState, SlotsIn
    <2>2. CASE DrainRaises
      <3>1. SlotsIn("loading") # {}
        BY <2>2 DEF DrainRaises, Undrainable, FaultInv, ComputingHasEvent, LeasesHaveEvents
      <3> QED BY <1>2, <2>2, <3>1 DEF DrainRaises, bankVars
    <2>3. ASSUME NEW e \in Experts, PlaceHit(e) PROVE Goal
      BY <1>2, <2>3 DEF PlaceHit, Touch
    <2>4. ASSUME NEW e \in Experts, PlaceMiss(e) PROVE Goal
      BY <1>0, <1>2, <2>4 DEF PlaceMiss, Reserve
    <2>5. CASE AllHits \/ LoadAsync \/ Publish
      BY <1>2, <2>5 DEF AllHits, LoadAsync, Publish, bankVars
    <2>6. CASE LoadSync \/ InstallWait
      BY <1>0, <1>2, <2>6 DEF LoadSync, InstallWait, SetState
    <2> QED BY <1>3, <2>1, <2>2, <2>3, <2>4, <2>5, <2>6 DEF Staging
  <1>4. CASE HostFault
    <2>1. ASSUME NEW e \in Experts, HostStoreRaises(e) PROVE Goal
      BY <1>0, <1>2, <2>1 DEF HostStoreRaises, Reserve
    <2>2. ASSUME NEW S \in SUBSET Slots, LoadRaises(S) PROVE Goal
      BY <1>0, <1>2, <2>2 DEF LoadRaises, Clear
    <2> QED BY <1>4, <2>1, <2>2 DEF HostFault
  <1>5. ASSUME NEW k, SetState(activeSlots, "computing"),
               {ev \in doneEvents : ev.slot \notin activeSlots}
                  \cup EventsAt(activeSlots, k) \subseteq doneEvents'
        PROVE  Goal
    <2>1. \A s \in activeSlots : \E ev \in EventsAt(activeSlots, k) :
             ev.slot = s /\ ev.version = slotVersion[s]
      <3> SUFFICES ASSUME NEW s \in activeSlots
                   PROVE  \E ev \in EventsAt(activeSlots, k) :
                             ev.slot = s /\ ev.version = slotVersion[s]
        OBVIOUS
      <3>1. [slot |-> s, version |-> slotVersion[s], mlp |-> k]
               \in EventsAt(activeSlots, k)
        BY DEF EventsAt
      <3> QED BY <3>1
    <2>2. slotVersion' = slotVersion
          /\ \A s \in Slots : s \notin activeSlots => slotState'[s] = slotState[s]
      BY <1>5 DEF SetState
    <2> QED BY <1>1, <1>5, <2>1, <2>2 DEF HasEvent, SlotsIn
  <1>6. CASE Computing
    <2>1. CASE EagerCompute
      BY <1>5, <2>1 DEF EagerCompute
    <2>2. CASE Capture
      BY <1>5, <2>2 DEF Capture
    <2>3. CASE BeginRaises \/ Replay
      BY <1>2, <2>3 DEF BeginRaises, Replay, bankVars
    <2> QED BY <1>6, <2>1, <2>2, <2>3 DEF Computing, SharedSuffixCompute
  <1>7. CASE Device
    BY <1>2, <1>7 DEF Device, CopyDone, MlpDone, bankVars, hostVars
  <1>8. ASSUME NEW A \in SUBSET Experts, RequestPlan(A) PROVE Goal
    BY <1>2, <1>8 DEF RequestPlan, bankVars
  <1>9. CASE UNCHANGED vars
    BY <1>2, <1>9 DEF vars, bankVars, hostVars
  <1> QED BY <1>3, <1>4, <1>6, <1>7, <1>8, <1>9 DEF Next

LEMMA FaultNext == HostInv /\ FaultInv /\ [Next]_vars => FaultInv'
  <1> SUFFICES ASSUME HostInv, FaultInv, [Next]_vars, ~SharedSuffix
               PROVE  DrainNeedsAStoreFailure'
    BY LoadingNext, ComputingNext DEF FaultInv
  <1>1. CASE DrainRaises
    <2>1. pc = "draining" /\ SlotsIn("loading") # {}
      BY <1>1 DEF DrainRaises, Undrainable, FaultInv, ComputingHasEvent, LeasesHaveEvents
    <2>2. "host_store" \in raised
      BY <2>1 DEF FaultInv, LoadingIsStaging
    <2> QED BY <1>1, <2>2 DEF DrainRaises, DrainNeedsAStoreFailure
  <1>2. CASE ~DrainRaises
    <2>1. ("drain" \in raised' => "drain" \in raised) /\ raised \subseteq raised'
      BY <1>2 DEF Next, Staging, HostFault, Computing, Device, RequestPlan, Drain,
           PlaceHit, PlaceMiss, AllHits, LoadSync, LoadAsync,
           InstallWait, Publish, HostStoreRaises, LoadRaises, EagerCompute,
           BeginRaises, Replay, Capture, SharedSuffixCompute, CopyDone, MlpDone,
           vars, hostVars
    <2> QED BY <2>1 DEF FaultInv, DrainNeedsAStoreFailure
  <1> QED BY <1>1, <1>2

LEMMA FaultInvariant == Spec => []FaultInv
  BY FaultInit, FaultNext, HostInvariant, PTL DEF Spec

(***************************************************************************)
(* A failed load leaves no reservation behind (_release_allocated_loads).  *)
(***************************************************************************)
THEOREM NoReservationLeaks == Spec => []NoLeftoverReservation
  <1>1. FaultInv => NoLeftoverReservation
    BY DEF FaultInv, LoadingIsStaging, NoLeftoverReservation
  <1> QED BY <1>1, FaultInvariant, PTL

(***************************************************************************)
(* Outside the fused shared path, every COMPUTING slot has its completion  *)
(* event (begin_slot_compute, end_slot_compute and the drain).             *)
(***************************************************************************)
THEOREM LeasesAreReturned ==
    ASSUME ~SharedSuffix
    PROVE  Spec => []LeasesHaveEvents
  <1>1. FaultInv => LeasesHaveEvents
    BY DEF FaultInv, ComputingHasEvent
  <1> QED BY <1>1, FaultInvariant, PTL

(***************************************************************************)
(* Outside the fused shared path, only a failure of the host store makes   *)
(* the drain raise (_drain_slot_bank_inflight_work).                       *)
(***************************************************************************)
THEOREM DrainIsSound ==
    ASSUME ~SharedSuffix
    PROVE  Spec => []DrainNeedsAStoreFailure
  <1>1. FaultInv => DrainNeedsAStoreFailure
    BY DEF FaultInv
  <1> QED BY <1>1, FaultInvariant, PTL

(***************************************************************************)
(* What the runs check of plans, leases and failures together.             *)
(***************************************************************************)
\* A plan that fits is placed, published and owned.
THEOREM PlansAreServed == Spec => []PlansAreSound
  BY PlansArePlaced, PublishedIsOwned, PTL DEF PlansAreSound

\* Leases and events are one to one outside the fused shared path.
THEOREM LeasesAndEvents ==
    ASSUME ~SharedSuffix
    PROVE  Spec => []LeasesAreAccounted
  BY EventsBelongToLeases, LeasesAreReturned, PTL DEF LeasesAreAccounted

\* A failed copy leaves nothing behind outside the fused shared path.
THEOREM FailedLoadsAreContained ==
    ASSUME ~SharedSuffix
    PROVE  Spec => []FailuresAreContained
  BY NoReservationLeaks, DrainIsSound, PTL DEF FailuresAreContained
===========================================================================
