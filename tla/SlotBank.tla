---------------------------- MODULE SlotBank ----------------------------
(***************************************************************************)
(* ExpertSlotBank of one MoE layer (moe_offload/slot_bank.py): the HBM     *)
(* slots that hold expert weights, their life cycle and the index that     *)
(* finds the slot of a resident expert.                                    *)
(*                                                                         *)
(* The module declares the bank's state and the effect of each of its      *)
(* operations; FixedSlots drives them the way MoeOffloadRuntime does.      *)
(* The bank belongs to a single layer, so a key is just the expert id and  *)
(* the two dictionaries of the code (by key, by expert id) are one         *)
(* function, resident.                                                     *)
(***************************************************************************)
EXTENDS Integers, FiniteSets

CONSTANTS
    Experts,    \* the routed experts of the layer
    None,       \* the owner of a slot that nobody owns
    NumSlots    \* config.num_slots

ASSUME ExpertsAssumption == IsFiniteSet(Experts)
ASSUME NumSlotsAssumption == NumSlots \in Nat \ {0}
ASSUME NoneAssumption == None \notin Experts

Slots == 0 .. (NumSlots - 1)

\* A missing index entry, and the -1 that fills log2phy at registration.
NoSlot == -1

States == {"empty", "loading", "ready", "computing"}

VARIABLES
    slotState,    \* ExpertSlot.state
    slotKey,      \* ExpertSlot.expert_key
    slotVersion,  \* ExpertSlot.version: the generation of the ownership
    lastUsed,     \* ExpertSlot.last_used_step
    resident      \* ExpertSlotBank._resident

bankVars == <<slotState, slotKey, slotVersion, lastUsed, resident>>

BankTypeOK ==
    /\ slotState \in [Slots -> States]
    /\ slotKey \in [Slots -> Experts \cup {None}]
    /\ slotVersion \in [Slots -> Nat]
    /\ lastUsed \in [Slots -> Nat \cup {-1}]
    /\ resident \in [Experts -> Slots \cup {NoSlot}]

BankInit ==
    /\ slotState = [s \in Slots |-> "empty"]
    /\ slotKey = [s \in Slots |-> None]
    /\ slotVersion = [s \in Slots |-> 0]
    /\ lastUsed = [s \in Slots |-> -1]
    /\ resident = [e \in Experts |-> NoSlot]

SlotsIn(st) == {s \in Slots : slotState[s] = st}

(***************************************************************************)
(* Which slot an allocation takes: the first EMPTY one, or, when there is  *)
(* none, the least recently used READY one, ties going to the lower id.    *)
(***************************************************************************)
FirstEmpty(s) ==
    /\ slotState[s] = "empty"
    /\ \A t \in Slots : t < s => slotState[t] # "empty"

LeastRecentlyUsed(s) ==
    /\ slotState[s] = "ready"
    /\ \A t \in Slots :
          slotState[t] = "ready" =>
              \/ lastUsed[s] < lastUsed[t]
              \/ lastUsed[s] = lastUsed[t] /\ s <= t

Allocatable(s) ==
    \/ FirstEmpty(s)
    \/ SlotsIn("empty") = {} /\ LeastRecentlyUsed(s)

\* Slip: the previous owner stays in the index.
ReserveKeepsOldEntry(s, e, step) ==
    /\ slotState' = [slotState EXCEPT ![s] = "loading"]
    /\ slotKey' = [slotKey EXCEPT ![s] = e]
    /\ slotVersion' = [slotVersion EXCEPT ![s] = @ + 1]
    /\ lastUsed' = [lastUsed EXCEPT ![s] = step]
    /\ resident' = [resident EXCEPT ![e] = s]

\* The reservation of slot s for expert e, a non-resident one: the previous
\* owner leaves the index and the slot starts a new generation.
Reserve(s, e, step) ==
    /\ slotState' = [slotState EXCEPT ![s] = "loading"]
    /\ slotKey' = [slotKey EXCEPT ![s] = e]
    /\ slotVersion' = [slotVersion EXCEPT ![s] = @ + 1]
    /\ lastUsed' = [lastUsed EXCEPT ![s] = step]
    /\ resident' = [x \in Experts |->
                      IF x = e THEN s
                      ELSE IF x = slotKey[s] THEN NoSlot
                      ELSE resident[x]]

\* Slip: a hit does not renew the recency of its slot.
TouchNothing(s, step) == UNCHANGED bankVars

\* A resident expert that is used again: only its recency changes.
Touch(s, step) ==
    /\ lastUsed' = [lastUsed EXCEPT ![s] = step]
    /\ UNCHANGED <<slotState, slotKey, slotVersion, resident>>

\* clear_slot(force=True) on every slot of S.
Clear(S) ==
    /\ slotState' = [s \in Slots |-> IF s \in S THEN "empty" ELSE slotState[s]]
    /\ slotKey' = [s \in Slots |-> IF s \in S THEN None ELSE slotKey[s]]
    /\ resident' = [x \in Experts |->
                      IF \E s \in S : slotKey[s] = x THEN NoSlot ELSE resident[x]]
    /\ UNCHANGED <<slotVersion, lastUsed>>

\* The state of every slot of S becomes st; ownership does not change.
SetState(S, st) ==
    /\ slotState' = [s \in Slots |-> IF s \in S THEN st ELSE slotState[s]]
    /\ UNCHANGED <<slotKey, slotVersion, lastUsed, resident>>

(***************************************************************************)
(* The index and the slots tell the same story: a resident expert's slot   *)
(* is owned by it, an owned slot is found through the index, and exactly   *)
(* the EMPTY slots have no owner.                                          *)
(***************************************************************************)
IndexCoherent ==
    /\ \A e \in Experts : resident[e] # NoSlot => slotKey[resident[e]] = e
    /\ \A s \in Slots : slotKey[s] # None => resident[slotKey[s]] = s
    /\ \A s \in Slots : slotState[s] = "empty" <=> slotKey[s] = None
=========================================================================
