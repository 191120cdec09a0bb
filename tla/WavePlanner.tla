---------------------------- MODULE WavePlanner ----------------------------
(***************************************************************************)
(* The arithmetic of wave execution (phase_split.py).  topk_ids is a       *)
(* matrix of tokens by top-k positions; a pair is an offset into it.  The  *)
(* active experts are packed into waves that fit the slots, the pairs are  *)
(* compacted wave by wave, every wave computes its pairs in an order of    *)
(* its own, and one unpermute index brings each result back to its offset. *)
(* The reference computes every wave on all tokens, with the weights of    *)
(* other waves' pairs set to zero, and adds the waves up.                  *)
(*                                                                         *)
(* When a wave may run is the subject of WaveExecutor.                     *)
(***************************************************************************)
EXTENDS Integers, FiniteSets, Sequences

CONSTANTS
    NumExperts,     \* routed_expert_count
    NumSlots,       \* config.num_slots
    NumTokens,      \* tokens of the forward
    TopK            \* experts per token

ASSUME PlannerSizesAssumption ==
    /\ NumSlots \in Nat \ {0} /\ TopK \in Nat \ {0} /\ NumTokens \in Nat
    /\ NumExperts \in Nat /\ TopK <= NumExperts

Experts == 0 .. NumExperts - 1
Pairs == 0 .. NumTokens * TopK - 1

TokenOf(pair) == pair \div TopK

VARIABLES
    phase,          \* packing, computing, combined
    topk,           \* topk_ids, flattened: the expert of each pair
    unplaced,       \* active experts _pack has not come to
    waves,          \* bins: the experts of each wave
    mode,           \* how the pairs are planned, and transfer_aware
    planned,        \* wave_microbatch_plans: the pair offsets of each wave
    issue,          \* staged_issue_order
    order,          \* compute_order
    payloads,       \* pending_direct_scatter_payloads
    output          \* what is added to the token for each pair, by wave

vars == <<phase, topk, unplaced, waves, mode, planned, issue, order, payloads, output>>

planVars == <<mode, planned, issue, order>>

\* On the device, from the host's pair index, or not at all (the reference,
\* which is refused with asynchronous staging).
Modes ==
    [planning : {"device", "host"}, transferAware : BOOLEAN]
    \cup {[planning |-> "tokens", transferAware |-> FALSE]}

Unplanned == [planning |-> "none", transferAware |-> FALSE]

--------------------------------------------------------------------------
(***************************************************************************)
(* Routing.  A token's experts are distinct; the executor is entered with  *)
(* more active experts than slots.                                         *)
(***************************************************************************)
Active == {topk[p] : p \in Pairs}

Routings ==
    {r \in [Pairs -> Experts] :
        /\ \A p, q \in Pairs :
             p # q /\ TokenOf(p) = TokenOf(q) => r[p] # r[q]
        /\ Cardinality({r[p] : p \in Pairs}) > NumSlots}

\* token_counts_by_expert
Count(expert) == Cardinality({p \in Pairs : topk[p] = expert})

Load(experts) == Cardinality({p \in Pairs : topk[p] \in experts})

MinWaves(experts) == (Cardinality(experts) + NumSlots - 1) \div NumSlots

Init ==
    /\ phase = "packing"
    /\ topk \in Routings
    /\ unplaced = Active
    /\ waves = [w \in 1 .. MinWaves(Active) |-> {}]
    /\ mode = Unplanned
    /\ planned = <<>> /\ issue = <<>> /\ order = <<>>
    /\ payloads = {}
    /\ output = <<>>

--------------------------------------------------------------------------
(***************************************************************************)
(* plan_balanced_b2_waves: the heaviest expert first, into the lightest    *)
(* wave with room, the first one on ties.                                  *)
(***************************************************************************)
\* Slip: experts are packed in the order of their ids.
PackedBeforeById(d, e) == d < e

PackedBefore(d, e) ==
    Count(d) > Count(e) \/ (Count(d) = Count(e) /\ d < e)

\* Slip: a wave takes one expert more than there are slots.
RoomyWithOneMore == {w \in DOMAIN waves : Cardinality(waves[w]) <= NumSlots}

Roomy == {w \in DOMAIN waves : Cardinality(waves[w]) < NumSlots}

Lightest(candidates) ==
    CHOOSE w \in candidates : \A v \in candidates :
        Load(waves[w]) < Load(waves[v])
        \/ (Load(waves[w]) = Load(waves[v]) /\ w <= v)

Place ==
    /\ phase = "packing"
    /\ \E expert \in unplaced :
         /\ \A other \in unplaced \ {expert} : PackedBefore(expert, other)
         /\ unplaced' = unplaced \ {expert}
         /\ waves' = IF Roomy = {} THEN Append(waves, {expert})
                     ELSE [waves EXCEPT ![Lightest(Roomy)] = @ \cup {expert}]
    /\ UNCHANGED <<phase, topk, planVars, payloads, output>>

--------------------------------------------------------------------------
(***************************************************************************)
(* The pairs, laid end to end wave by wave and cut by the waves' token     *)
(* counts: in ascending order on the device, expert after expert from the  *)
(* host's index of the offsets of each expert.                             *)
(***************************************************************************)
\* The elements of S in the order of a relation: the i-th has i - 1 before it.
Sorted(S, before) ==
    [i \in 1 .. Cardinality(S) |->
        CHOOSE x \in S : Cardinality({y \in S : <<y, x>> \in before}) = i - 1]

Ascending(S) == Sorted(S, {xy \in S \X S : xy[1] < xy[2]})

\* wave_tokens
WaveSize(w) == Load(waves[w])

\* layer_pair_start: the sizes of the waves before w, added up.
LayerPairStart(w) ==
    Cardinality({vp \in (1 .. w - 1) \X Pairs : topk[vp[2]] \in waves[vp[1]]})

WaveOf(p) == CHOOSE w \in DOMAIN waves : topk[p] \in waves[w]

\* pair_offsets_by_expert
PairOffsets(expert) == {p \in Pairs : topk[p] = expert}

\* With preserve_pair_order off.
FromTheIndex(q, p) ==
    topk[q] < topk[p] \/ (q \in PairOffsets(topk[p]) /\ q < p)

FirstInWave(planning, q, p) ==
    IF planning = "host" THEN FromTheIndex(q, p) ELSE q < p

PlannedBefore(planning) ==
    {qp \in Pairs \X Pairs :
        \/ WaveOf(qp[1]) < WaveOf(qp[2])
        \/ WaveOf(qp[1]) = WaveOf(qp[2]) /\ FirstInWave(planning, qp[1], qp[2])}

\* all_offsets: position to pair offset.
AllOffsets(planning) == Sorted(Pairs, PlannedBefore(planning))

\* Slip: every wave is cut from the start.
CutWithoutCursor(offsets, w) == SubSeq(offsets, 1, WaveSize(w))

Cut(offsets, w) ==
    SubSeq(offsets, LayerPairStart(w) + 1, LayerPairStart(w) + WaveSize(w))

(***************************************************************************)
(* plan_b2_prefill_async_schedule.  No slot counts as ready, so only a     *)
(* wave without experts needs no staging; ready experts, on the other      *)
(* hand, are not counted as bytes to transfer.                             *)
(***************************************************************************)
Staged == {w \in DOMAIN waves : waves[w] # {}}

Misses(w, ready) == Cardinality(waves[w] \ ready)

\* The longest compute first.
HitBefore(v, w) == WaveSize(v) > WaveSize(w) \/ (WaveSize(v) = WaveSize(w) /\ v < w)

\* The longest transfer first, then the longest compute.
StagedBefore(v, w, ready) ==
    \/ Misses(v, ready) > Misses(w, ready)
    \/ Misses(v, ready) = Misses(w, ready) /\ HitBefore(v, w)

IssueOrder(aware, ready) ==
    IF aware
    THEN Sorted(Staged, {vw \in Staged \X Staged : StagedBefore(vw[1], vw[2], ready)})
    ELSE Ascending(Staged)

Hits == DOMAIN waves \ Staged

HitOrder == Sorted(Hits, {vw \in Hits \X Hits : HitBefore(vw[1], vw[2])})

\* Slip: the waves are computed in the order they were planned in.
ComputeOrderAsPlanned(aware, ready) == Ascending(DOMAIN waves)

ComputeOrder(aware, ready) ==
    IF aware THEN HitOrder \o IssueOrder(aware, ready) ELSE Ascending(DOMAIN waves)

PlanPairs ==
    /\ phase = "packing" /\ unplaced = {}
    /\ \E chosen \in Modes, ready \in SUBSET Active :
         /\ ready # {} => chosen.transferAware
         /\ mode' = chosen
         /\ planned' =
              IF chosen.planning = "tokens" THEN <<>>
              ELSE LET offsets == AllOffsets(chosen.planning)
                   IN  [w \in DOMAIN waves |-> Cut(offsets, w)]
         /\ issue' = IssueOrder(chosen.transferAware, ready)
         /\ order' = ComputeOrder(chosen.transferAware, ready)
    /\ phase' = "computing"
    /\ UNCHANGED <<topk, unplaced, waves, payloads, output>>

--------------------------------------------------------------------------
(***************************************************************************)
(* One wave: hidden states are gathered by token, weights by slot, and the *)
(* dispatcher sorts the rows by slot; expanded_row_idx leads back.  A row  *)
(* is modelled as the token and the expert whose MLP it is.                *)
(***************************************************************************)
\* expert_to_slot: a wave's bank holds its experts in ascending order.
SlotOf(w, expert) == Cardinality({e \in waves[w] : e < expert})

ExpertIn(w, slot) == Ascending(waves[w])[slot + 1]

\* Slip: the last position of a token counts to the next one.
TokenIndexRoundedUp(pair) == (pair + 1) \div TopK

TokenIndex(pair) == TokenOf(pair)

\* npu_moe_init_routing: the row of the i-th pair of a wave, sorted by slot.
ExpandedRow(w, i) ==
    LET Slot(j) == SlotOf(w, topk[planned[w][j]])
    IN  Cardinality({j \in DOMAIN planned[w] :
                        Slot(j) < Slot(i) \/ (Slot(j) = Slot(i) /\ j < i)})

Payload(w) ==
    [wave |-> w,
     offsets |-> planned[w],
     expanded |-> [i \in DOMAIN planned[w] |-> ExpandedRow(w, i)],
     permuted |->
        [r \in 1 .. Len(planned[w]) |->
            LET i == CHOOSE j \in DOMAIN planned[w] : ExpandedRow(w, j) = r - 1
                pair == planned[w][i]
            IN  <<TokenIndex(pair), ExpertIn(w, SlotOf(w, topk[pair]))>>]]

\* build_b2_wave_routing: log2phy of the wave's bank has no slot for the experts
\* of other waves; their pairs go to slot 0, with weight zero.
Kept(w) == {p \in Pairs : topk[p] \in waves[w]}

SafeId(w, p) == IF p \in Kept(w) THEN SlotOf(w, topk[p]) ELSE 0

ReferencePayload(w) ==
    [wave |-> w,
     weighted |-> Kept(w),
     rows |-> [p \in Pairs |-> <<TokenOf(p), ExpertIn(w, SafeId(w, p))>>]]

Computed == {payload.wave : payload \in payloads}

ComputeWave ==
    /\ phase = "computing" /\ Computed # DOMAIN waves
    /\ LET w == order[Cardinality(Computed) + 1] IN
       payloads' = payloads \cup
           {IF mode.planning = "tokens" THEN ReferencePayload(w) ELSE Payload(w)}
    /\ UNCHANGED <<phase, topk, unplaced, waves, planVars, output>>

--------------------------------------------------------------------------
(***************************************************************************)
(* build_b2_native_combine_inputs: the rows of all waves, wave after wave, *)
(* and for every pair offset the row that belongs to it.                   *)
(***************************************************************************)
PayloadOf(w) == CHOOSE payload \in payloads : payload.wave = w

RowsBefore(w) ==
    Cardinality(UNION {{v} \X DOMAIN PayloadOf(v).permuted : v \in 1 .. w - 1})

NativePermuted ==
    [row \in 0 .. Cardinality(Pairs) - 1 |->
        LET w == CHOOSE v \in DOMAIN waves :
                    row - RowsBefore(v) \in 0 .. Len(PayloadOf(v).permuted) - 1
        IN  PayloadOf(w).permuted[row - RowsBefore(w) + 1]]

\* Slip: the rows of every wave are counted from zero.
RowBaseOfTheFirst(w) == 0

RowBase(w) == RowsBefore(w)

GlobalUnpermute ==
    [p \in Pairs |->
        LET w == CHOOSE v \in DOMAIN waves :
                    \E i \in DOMAIN planned[v] : planned[v][i] = p
            i == CHOOSE j \in DOMAIN planned[w] : planned[w][j] = p
        IN  PayloadOf(w).expanded[i] + RowBase(w)]

\* token_combine weighs the row of each pair and adds up the pairs of a token.
Combine ==
    /\ phase = "computing" /\ mode.planning # "tokens" /\ Computed = DOMAIN waves
    /\ output' = [p \in Pairs |-> {<<WaveOf(p), NativePermuted[GlobalUnpermute[p]]>>}]
    /\ phase' = "combined"
    /\ UNCHANGED <<topk, unplaced, waves, planVars, payloads>>

\* The reference adds up the combined outputs of the waves.
Accumulate ==
    /\ phase = "computing" /\ mode.planning = "tokens" /\ Computed = DOMAIN waves
    /\ output' = [p \in Pairs |->
                    {<<payload.wave, payload.rows[p]>> :
                        payload \in {each \in payloads : p \in each.weighted}}]
    /\ phase' = "combined"
    /\ UNCHANGED <<topk, unplaced, waves, planVars, payloads>>

--------------------------------------------------------------------------
Next ==
    \/ Place
    \/ PlanPairs
    \/ ComputeWave
    \/ Combine
    \/ Accumulate

Spec == Init /\ [][Next]_vars

--------------------------------------------------------------------------
\* The waves, the plan of the pairs, the payload and the result stay in their
\* domains.
TypeOK ==
    /\ phase \in {"packing", "computing", "combined"}
    /\ topk \in Routings
    /\ unplaced \in SUBSET Active
    /\ waves \in Seq(SUBSET Active)
    /\ mode \in Modes \cup {Unplanned}
    /\ planned \in Seq(Seq(Pairs))
    /\ issue \in Seq(DOMAIN waves) /\ order \in Seq(DOMAIN waves)
    /\ Computed \subseteq DOMAIN waves
    /\ output = <<>> \/ \A p \in Pairs : output[p] \subseteq
                        (DOMAIN waves) \X ((0 .. NumTokens - 1) \X Active)

(***************************************************************************)
(* No wave has more experts than there are slots, the waves are disjoint,  *)
(* and there is none more than needed: _pack never falls back to a wave of *)
(* its own for an expert that finds no room.                               *)
(***************************************************************************)
WavesFitTheSlots ==
    /\ \A w \in DOMAIN waves : Cardinality(waves[w]) <= NumSlots
    /\ \A v, w \in DOMAIN waves : v # w => waves[v] \cap waves[w] = {}
    /\ Len(waves) = MinWaves(Active)

(***************************************************************************)
(* A wave is heavier than another one by no more than its lightest expert, *)
(* unless the other one is full.                                           *)
(***************************************************************************)
WavesAreBalanced ==
    \A v, w \in DOMAIN waves :
        \A expert \in waves[v] :
            \/ Cardinality(waves[w]) = NumSlots
            \/ Load(waves[v]) - Count(expert) <= Load(waves[w])

(***************************************************************************)
(* After planning every routed pair is in the plan of one wave, once, and  *)
(* that wave holds its expert.                                             *)
(***************************************************************************)
PairsArePlannedOnce ==
    phase # "packing" /\ mode.planning # "tokens" =>
        \A p \in Pairs :
            \E w \in DOMAIN planned : \E i \in DOMAIN planned[w] :
                /\ planned[w][i] = p /\ topk[p] \in waves[w]
                /\ \A v \in DOMAIN planned : \A j \in DOMAIN planned[v] :
                      planned[v][j] = p => v = w /\ j = i

(***************************************************************************)
(* Every wave is computed once, and the waves are staged in the order they *)
(* are computed in: the prefetch cursor of the executor runs through the   *)
(* one and assumes the next wave of the other.                             *)
(***************************************************************************)
WavesAreStagedInOrder ==
    phase # "packing" =>
        /\ Len(order) = Len(waves) /\ {order[i] : i \in DOMAIN order} = DOMAIN waves
        /\ issue = order

(***************************************************************************)
(* Added to a token for a pair of the router's matrix is what its own      *)
(* expert made of its own token, once, as in a forward without waves; the  *)
(* reference path agrees.                                                  *)
(***************************************************************************)
OutputsAreAtHome ==
    phase = "combined" =>
        \A p \in Pairs : output[p] = {<<WaveOf(p), <<TokenOf(p), topk[p]>>>>}
===========================================================================
