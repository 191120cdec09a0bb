------------------------ MODULE SeamDispatchProofs ------------------------
(***************************************************************************)
(* Proofs about SeamDispatch: stage op and executor agree on every forward *)
(* and every active expert is computed, for all experts, slots, batch      *)
(* sizes and phases, in the deployments named by ReplaysFit and            *)
(* PhasesAgree; and in all deployments the cache of route stats never      *)
(* answers with another forward's experts.                                 *)
(***************************************************************************)
EXTENDS SeamDispatch, FiniteSetTheorems, TLAPS

(***************************************************************************)
(* The inductive invariant.  Between forwards the cache is empty; while    *)
(* one is handed over, it is empty or about that forward, and then the     *)
(* executor looks.  A decision to defer or to stage carries what the MLP   *)
(* piece needs to make the same one.                                       *)
(***************************************************************************)
CacheIsPrivate ==
    /\ ~(pc = "mlp" /\ decision = "deferred") => routeStats = NoStats
    /\ routeStats # NoStats => routeStats = Stats /\ Consults

StagedFits ==
    (pc = "mlp" /\ decision = "staged") =>
        Active \subseteq mapped /\ ~Overflow(Active)

DeferredIsWanted ==
    (pc = "mlp" /\ decision = "deferred") =>
        /\ Overflow(Active) /\ ~Replayed
        /\ WavesEnabled \/ Adaptive
        /\ PhaseIsUnknown(forward.phase) => BeyondHint \/ Adaptive

ReplayIsStaged ==
    (pc \in {"stage", "mlp"} /\ Replayed) => ~Overflow(Active)

ServedPhase ==
    (pc \in {"stage", "mlp"} /\ forward.kind = "serving") =>
        forward.phase \in ServingPhases

CapturedSize ==
    (pc \in {"stage", "mlp"} /\ forward.kind = "capture") =>
        forward.tokens \in CaptureSizes

Decided ==
    pc = "mlp" =>
        /\ decision \in {"captured", "deferred", "staged"}
        /\ forward.kind = "capture" <=> decision = "captured"

SeamInv ==
    /\ TypeOK
    /\ CacheIsPrivate
    /\ StagedFits
    /\ DeferredIsWanted
    /\ ReplayIsStaged
    /\ ServedPhase
    /\ CapturedSize
    /\ Decided
    /\ ActiveExpertsAreComputed

--------------------------------------------------------------------------
(***************************************************************************)
(* What the router writes.                                                 *)
(***************************************************************************)
LEMMA RouterWrites ==
    ASSUME NEW kind \in Kinds, NEW phases \in SUBSET Phases, TypeOK,
           Route(kind, phases)
    PROVE  /\ forward' \in Forwards
           /\ forward'.kind = kind
           /\ forward'.phase \in phases
           /\ forward'.tokens \in Sizes(kind)
           /\ forward'.active \in ActiveSets(forward'.tokens)
           /\ pc' = "stage" /\ decision' = "none" /\ computed' = {}
<1>1. PICK tokens \in Sizes(kind), phase \in phases :
        \E active \in ActiveSets(tokens) :
          /\ forward' = [kind |-> kind, tokens |-> tokens, active |-> active,
                         phase |-> phase]
          /\ pc' = "stage" /\ decision' = "none" /\ computed' = {}
  BY DEF Route
<1>2. tokens \in Nat
  BY SeamSizesAssumption, DeploymentsAssumption DEF Sizes, TypeOK, Kinds, CaptureSizes
<1>3. ActiveSets(tokens) \subseteq SUBSET Experts
  BY DEF ActiveSets
<1>4. QED
  BY <1>1, <1>2, <1>3 DEF Forwards

(***************************************************************************)
(* A set of experts that fits the slots has subsets that fit.              *)
(***************************************************************************)
LEMMA SubsetsFit ==
    ASSUME NEW S \in SUBSET Experts, NEW T \in SUBSET S, ~Overflow(S)
    PROVE  ~Overflow(T)
<1>1. IsFiniteSet(S) /\ IsFiniteSet(T)
  BY RegimeBAssumption, FS_Subset
<1>2. Cardinality(S) \in Nat /\ Cardinality(T) \in Nat
  BY <1>1, FS_CardinalityType
<1>3. Cardinality(T) <= Cardinality(S)
  BY <1>1, FS_Subset
<1>4. QED
  BY <1>2, <1>3, SeamSizesAssumption DEF Overflow

(***************************************************************************)
(* With captured sizes that fit, no replayed batch overflows.              *)
(***************************************************************************)
LEMMA CapturedBatchFits ==
    ASSUME ReplaysFit, TypeOK, NEW tokens \in CaptureSizes, NEW A \in ActiveSets(tokens)
    PROVE  ~Overflow(A)
<1>a. TopK \in Nat \ {0}
  BY DeploymentsAssumption DEF TypeOK, TopK
<1>1. tokens \in Nat /\ tokens * TopK <= NumSlots
  BY DeploymentsAssumption, SeamSizesAssumption DEF ReplaysFit, TypeOK, TopK, CaptureSizes
<1>2. Cardinality(A) \in TopK .. (tokens * TopK)
  BY DEF ActiveSets
<1>3. tokens * TopK \in Nat
  BY <1>1, <1>a
<1>4. QED
  BY <1>1, <1>2, <1>3, SeamSizesAssumption DEF Overflow

--------------------------------------------------------------------------
LEMMA SeamInit == Init => SeamInv
<1> SUFFICES ASSUME Init PROVE SeamInv
  OBVIOUS
<1>1. TypeOK
  <2>1. NoStats \in RouteStatsRecords
    BY DEF NoStats, RouteStatsRecords
  <2>2. NoForward \in Forwards
    BY DEF NoForward, Forwards, Kinds, Phases
  <2>3. QED
    BY <2>1, <2>2 DEF Init, TypeOK, Phases
<1>2. QED
  BY <1>1 DEF Init, SeamInv, CacheIsPrivate, StagedFits, DeferredIsWanted,
     ReplayIsStaged, ServedPhase, CapturedSize, Decided, ActiveExpertsAreComputed

(***************************************************************************)
(* A new forward finds the cache empty.                                    *)
(***************************************************************************)
LEMMA RouterStep ==
    ASSUME ReplaysFit, SeamInv, pc = "router",
           NEW kind \in Kinds, NEW phases \in SUBSET Phases,
           kind = "serving" => phases = ServingPhases,
           Route(kind, phases),
           life' \in {"profile", "capture", "serving"},
           compiledPhase' \in Phases,
           UNCHANGED <<deployment, mapped, routeStats, graphs>>
    PROVE  SeamInv'
<1> USE DEF CaptureSizes, ServingPhases, TopK
<1>1. /\ forward' \in Forwards
      /\ forward'.kind = kind
      /\ forward'.phase \in phases
      /\ forward'.tokens \in Sizes(kind)
      /\ forward'.active \in ActiveSets(forward'.tokens)
      /\ pc' = "stage" /\ decision' = "none" /\ computed' = {}
  BY RouterWrites DEF SeamInv
<1>2. TypeOK'
  BY <1>1 DEF SeamInv, TypeOK
<1>3. CacheIsPrivate'
  BY <1>1 DEF SeamInv, CacheIsPrivate
<1>4. ReplayIsStaged'
  <2> SUFFICES ASSUME Replayed' PROVE ~Overflow(forward'.active)
    BY DEF ReplayIsStaged, Active
  <2>1. TypeOK /\ forward'.tokens \in CaptureSizes
    BY DEF Replayed, SeamInv, TypeOK
  <2>2. forward'.active \in ActiveSets(forward'.tokens)
    BY <1>1
  <2>3. ~Overflow(forward'.active)
    BY <2>1, <2>2, CapturedBatchFits
  <2>4. QED
    BY <2>3
<1>5. QED
  BY <1>1, <1>2, <1>3, <1>4 DEF SeamInv, StagedFits, DeferredIsWanted,
     ServedPhase, CapturedSize, Decided, ActiveExpertsAreComputed, Sizes

(***************************************************************************)
(* What one piece decides, the other one takes up.                         *)
(***************************************************************************)
LEMMA HandoffLemma == SeamInv => HandoffsAreTaken
<1> SUFFICES ASSUME SeamInv, pc = "mlp", forward.kind # "capture", ~Replayed
             PROVE  decision = "deferred" <=> TakesWaves
  BY DEF HandoffsAreTaken
<1>1. Planned = Active
  BY DEF SeamInv, CacheIsPrivate, Planned, StatsHit, Stats
<1>2. CASE decision = "deferred"
  BY <1>1, <1>2 DEF SeamInv, DeferredIsWanted, TakesWaves
<1>3. CASE decision = "staged"
  BY <1>1, <1>3 DEF SeamInv, StagedFits, TakesWaves
<1>4. QED
  BY <1>2, <1>3 DEF SeamInv, Decided

--------------------------------------------------------------------------
LEMMA SeamNext ==
    ReplaysFit /\ PhasesAgree /\ SeamInv /\ [Next]_vars => SeamInv'
<1> SUFFICES ASSUME ReplaysFit, PhasesAgree, SeamInv, [Next]_vars
             PROVE  SeamInv'
  OBVIOUS
<1> USE DEF SeamInv, CaptureSizes, ServingPhases, TopK
<1>1. CASE ProfileForward
  <2>1. InferredPhases \in SUBSET Phases /\ "profile" \in Kinds
    BY DEF InferredPhases, Kinds
  <2>2. Route("profile", InferredPhases) /\ pc = "router"
    BY <1>1 DEF ProfileForward
  <2>3. forward'.phase \in Phases
    BY <2>1, <2>2, RouterWrites
  <2>4. QED
    BY <1>1, <2>1, <2>2, <2>3, RouterStep DEF ProfileForward
<1>2. CASE WarmupForward
  <2>1. InferredPhases \in SUBSET Phases /\ "warmup" \in Kinds
    BY DEF InferredPhases, Kinds
  <2>2. QED
    BY <1>2, <2>1, RouterStep DEF WarmupForward, TypeOK
<1>3. CASE CaptureForward
  <2>1. InferredPhases \in SUBSET Phases /\ "capture" \in Kinds
    BY DEF InferredPhases, Kinds
  <2>2. QED
    BY <1>3, <2>1, RouterStep DEF CaptureForward, TypeOK
<1>4. CASE StartServing
  BY <1>4 DEF StartServing, TypeOK, CacheIsPrivate, StagedFits,
     DeferredIsWanted, ReplayIsStaged, ServedPhase, CapturedSize, Decided,
     ActiveExpertsAreComputed, Active
<1>5. CASE ServingForward
  <2>1. ServingPhases \in SUBSET Phases /\ "serving" \in Kinds
    BY DeploymentsAssumption DEF TypeOK, Kinds
  <2>2. QED
    BY <1>5, <2>1, RouterStep DEF ServingForward, TypeOK
<1>6. CASE StageIsCaptured
  BY <1>6 DEF StageIsCaptured, TypeOK, CacheIsPrivate, StagedFits,
     DeferredIsWanted, ReplayIsStaged, ServedPhase, CapturedSize, Decided,
     ActiveExpertsAreComputed, Active, Replayed
<1>7. CASE StageDefers
  <2>1. Stats \in RouteStatsRecords
    <3>1. StatsKey \in {"none", "pool", "heap"} \X Nat
      BY DEF StatsKey, TypeOK, Forwards
    <3>2. QED
      BY <3>1 DEF Stats, RouteStatsRecords, TypeOK, Forwards, Active
  <2>2. TypeOK'
    BY <1>7, <2>1 DEF StageDefers, TypeOK
  <2>3. WavesEnabled \/ Adaptive
    BY <1>7 DEF StageDefers, Defers
  <2>4. ~Replayed
    BY <1>7 DEF StageDefers, Defers, ReplayIsStaged
  <2>5. PhaseIsUnknown(forward.phase) => BeyondHint \/ Adaptive
    <3>1. CASE Adaptive
      BY <3>1
    <3>2. CASE GraphMode /\ ~Adaptive
      <4>1. forward.kind = "serving"
        BY <3>2 DEF Adaptive, TypeOK, Forwards, Kinds
      <4>2. forward.phase \in ServingPhases
        BY <1>7, <4>1 DEF StageDefers, ServedPhase
      <4>3. QED
        BY <3>2, <4>2 DEF PhasesAgree, GraphMode, PhaseIsUnknown, TypeOK
    <3>3. CASE ~GraphMode
      BY <1>7, <3>3 DEF StageDefers, Defers, StagePhase
    <3>4. QED
      BY <3>1, <3>2, <3>3
  <2>6. CacheIsPrivate'
    <3>1. routeStats' = NoStats \/ (routeStats' = Stats /\ Consults)
      BY <1>7, <2>3 DEF StageDefers, CacheIsPrivate, Consults
    <3>2. Consults' = Consults
      BY <1>7 DEF StageDefers, Consults, Adaptive
    <3>3. Stats' = Stats
      BY <1>7 DEF StageDefers, Stats, StatsKey, Replayed, Active
    <3>4. QED
      BY <1>7, <3>1, <3>2, <3>3 DEF StageDefers, CacheIsPrivate
  <2>7. DeferredIsWanted'
    BY <1>7, <2>3, <2>4, <2>5 DEF StageDefers, Defers, DeferredIsWanted,
       Active, Replayed, Adaptive, BeyondHint
  <2>8. QED
    BY <1>7, <2>2, <2>6, <2>7 DEF StageDefers, StagedFits, ReplayIsStaged,
       ServedPhase, CapturedSize, Decided, ActiveExpertsAreComputed, Active, Replayed
<1>8. CASE StageSlots
  <2>1. PICK kept \in SUBSET mapped :
          ~Overflow(kept \cup Active) /\ mapped' = kept \cup Active
    BY <1>8 DEF StageSlots
  <2>2. kept \cup Active \in SUBSET Experts
    BY DEF TypeOK, Forwards, Active
  <2>3. TypeOK'
    BY <1>8, <2>1, <2>2 DEF StageSlots, TypeOK
  <2>4. ~Overflow(Active)
    BY <2>1, <2>2, SubsetsFit
  <2>5. StagedFits'
    BY <1>8, <2>1, <2>4 DEF StageSlots, StagedFits, Active
  <2>6. QED
    BY <1>8, <2>3, <2>5 DEF StageSlots, CacheIsPrivate, DeferredIsWanted,
       ReplayIsStaged, ServedPhase, CapturedSize, Decided, ActiveExpertsAreComputed,
       Active, Replayed
<1>9. CASE StageRaises
  BY <1>9 DEF StageRaises, TypeOK, CacheIsPrivate, StagedFits,
     DeferredIsWanted, ReplayIsStaged, ServedPhase, CapturedSize, Decided,
     ActiveExpertsAreComputed, Active, Replayed
<1>10. ASSUME pc = "mlp", forward.kind # "capture", ~Replayed, ConsumeStats
       PROVE  routeStats' = NoStats
  BY <1>10 DEF ConsumeStats, CacheIsPrivate
<1>11. ASSUME pc = "mlp" PROVE Active \in SUBSET Experts
  BY DEF TypeOK, Forwards, Active
<1>12. CASE MlpWaves
  <2>1. Planned = Active
    BY DEF CacheIsPrivate, Planned, StatsHit, Stats
  <2>2. computed' = Active /\ routeStats' = NoStats /\ pc' = "router"
    BY <1>12, <1>10, <2>1 DEF MlpWaves
  <2>3. TypeOK'
    <3>1. NoStats \in RouteStatsRecords
      BY DEF NoStats, RouteStatsRecords
    <3>2. QED
      BY <1>12, <1>11, <2>2, <3>1 DEF MlpWaves, TypeOK
  <2>4. QED
    BY <1>12, <2>2, <2>3 DEF MlpWaves, CacheIsPrivate, StagedFits,
       DeferredIsWanted, ReplayIsStaged, ServedPhase, CapturedSize, Decided,
       ActiveExpertsAreComputed, Active
<1>13. CASE MlpSlots
  <2>1. decision = "staged"
    BY <1>13, HandoffLemma DEF MlpSlots, HandoffsAreTaken, Decided
  <2>2. computed' = Active /\ routeStats' = NoStats /\ pc' = "router"
    BY <1>13, <1>10, <2>1 DEF MlpSlots, StagedFits
  <2>3. TypeOK'
    <3>1. NoStats \in RouteStatsRecords
      BY DEF NoStats, RouteStatsRecords
    <3>2. QED
      BY <1>13, <1>11, <2>2, <3>1 DEF MlpSlots, TypeOK
  <2>4. QED
    BY <1>13, <2>2, <2>3 DEF MlpSlots, CacheIsPrivate, StagedFits,
       DeferredIsWanted, ReplayIsStaged, ServedPhase, CapturedSize, Decided,
       ActiveExpertsAreComputed, Active
<1>14. CASE MlpCapture
  <2>1. decision = "captured" /\ routeStats = NoStats
    BY <1>14 DEF MlpCapture, Decided, CacheIsPrivate
  <2>2. QED
    BY <1>14, <2>1 DEF MlpCapture, TypeOK, CacheIsPrivate, StagedFits,
       DeferredIsWanted, ReplayIsStaged, ServedPhase, CapturedSize, Decided,
       ActiveExpertsAreComputed, Active
<1>15. CASE MlpReplay
  <2>1. decision = "staged" /\ routeStats = NoStats
    BY <1>15 DEF MlpReplay, Replayed, Decided, DeferredIsWanted, CacheIsPrivate
  <2>2. computed' = Active /\ pc' = "router"
    BY <1>15, <2>1 DEF MlpReplay, StagedFits
  <2>3. TypeOK'
    BY <1>15, <1>11, <2>2 DEF MlpReplay, TypeOK
  <2>4. QED
    BY <1>15, <2>1, <2>2, <2>3 DEF MlpReplay, CacheIsPrivate, StagedFits,
       DeferredIsWanted, ReplayIsStaged, ServedPhase, CapturedSize, Decided,
       ActiveExpertsAreComputed, Active
<1>16. CASE UNCHANGED vars
  BY <1>16 DEF vars, TypeOK, CacheIsPrivate, StagedFits, DeferredIsWanted,
     ReplayIsStaged, ServedPhase, CapturedSize, Decided, ActiveExpertsAreComputed, Active,
     Replayed, Stats, StatsKey, Consults, Adaptive, BeyondHint
<1>17. QED
  BY <1>1, <1>2, <1>3, <1>4, <1>5, <1>6, <1>7, <1>8, <1>9, <1>12, <1>13,
     <1>14, <1>15, <1>16 DEF Next

--------------------------------------------------------------------------
(***************************************************************************)
(* The invariant holds in every behaviour of such a deployment.            *)
(***************************************************************************)
LEMMA SeamInvHolds ==
    ASSUME ReplaysFit, PhasesAgree
    PROVE  Spec => []SeamInv
<1>1. SeamInv /\ [Next]_vars => SeamInv'
  BY SeamNext
<1>2. QED
  BY <1>1, SeamInit, PTL DEF Spec

(***************************************************************************)
(* Every forward that is not refused computes all of its active experts    *)
(* (stage op, executor and replayed graph together).                       *)
(***************************************************************************)
THEOREM ActiveExpertsTheorem ==
    ASSUME ReplaysFit, PhasesAgree
    PROVE  Spec => []ActiveExpertsAreComputed
<1>1. SeamInv => ActiveExpertsAreComputed
  BY DEF SeamInv
<1>2. QED
  BY <1>1, SeamInvHolds, PTL

(***************************************************************************)
(* Stage op and executor decide alike: what the one defers the other takes *)
(* in waves, and nothing else.                                             *)
(***************************************************************************)
THEOREM HandoffsTheorem ==
    ASSUME ReplaysFit, PhasesAgree
    PROVE  Spec => []HandoffsAreTaken
<1>1. SeamInv => HandoffsAreTaken
  BY HandoffLemma
<1>2. QED
  BY <1>1, SeamInvHolds, PTL

--------------------------------------------------------------------------
(***************************************************************************)
(* Two results need no assumption about the deployment: they also hold     *)
(* where stage op and executor disagree and where a replayed batch         *)
(* overflows.  There an entry of the cache may outlive its forward, but    *)
(* only the entry of a replayed one, and its key is one of the graph pool, *)
(* which no executor ever looks up.                                        *)
(***************************************************************************)
StatsHaveAReader ==
    \/ routeStats = NoStats
    \/ routeStats.key[1] = "pool"
    \/ /\ pc = "mlp" /\ forward.kind # "capture" /\ ~Replayed
       /\ Consults
       /\ routeStats = Stats

DispatchInv == TypeOK /\ CapturedSize /\ StatsHaveAReader

LEMMA DispatchInit == Init => DispatchInv
<1> SUFFICES ASSUME Init PROVE DispatchInv
  OBVIOUS
<1>1. TypeOK
  BY SeamInit DEF SeamInv
<1>2. QED
  BY <1>1 DEF Init, DispatchInv, CapturedSize, StatsHaveAReader

(***************************************************************************)
(* A new forward finds no entry it could take for its own.                 *)
(***************************************************************************)
LEMMA DispatchRouterStep ==
    ASSUME DispatchInv, pc = "router",
           NEW kind \in Kinds, NEW phases \in SUBSET Phases,
           Route(kind, phases),
           life' \in {"profile", "capture", "serving"},
           compiledPhase' \in Phases,
           UNCHANGED <<deployment, mapped, routeStats, graphs>>
    PROVE  DispatchInv'
<1>1. /\ forward' \in Forwards
      /\ forward'.kind = kind
      /\ forward'.tokens \in Sizes(kind)
      /\ pc' = "stage" /\ decision' = "none" /\ computed' = {}
  BY RouterWrites DEF DispatchInv
<1>2. TypeOK'
  BY <1>1 DEF DispatchInv, TypeOK, CaptureSizes
<1>3. CapturedSize'
  BY <1>1 DEF CapturedSize, Sizes, CaptureSizes
<1>4. StatsHaveAReader'
  BY DEF DispatchInv, StatsHaveAReader
<1>5. QED
  BY <1>2, <1>3, <1>4 DEF DispatchInv

LEMMA DispatchNext == DispatchInv /\ [Next]_vars => DispatchInv'
<1> SUFFICES ASSUME DispatchInv, [Next]_vars PROVE DispatchInv'
  OBVIOUS
<1> USE DEF DispatchInv, CaptureSizes, ServingPhases
<1>1. CASE ProfileForward
  <2>1. InferredPhases \in SUBSET Phases /\ "profile" \in Kinds
    BY DEF InferredPhases, Kinds
  <2>2. Route("profile", InferredPhases) /\ pc = "router"
    BY <1>1 DEF ProfileForward
  <2>3. forward'.phase \in Phases
    BY <2>1, <2>2, RouterWrites
  <2>4. QED
    BY <1>1, <2>1, <2>2, <2>3, DispatchRouterStep DEF ProfileForward
<1>2. CASE WarmupForward
  <2>1. InferredPhases \in SUBSET Phases /\ "warmup" \in Kinds
    BY DEF InferredPhases, Kinds
  <2>2. QED
    BY <1>2, <2>1, DispatchRouterStep DEF WarmupForward, TypeOK
<1>3. CASE CaptureForward
  <2>1. InferredPhases \in SUBSET Phases /\ "capture" \in Kinds
    BY DEF InferredPhases, Kinds
  <2>2. QED
    BY <1>3, <2>1, DispatchRouterStep DEF CaptureForward, TypeOK
<1>4. CASE StartServing
  BY <1>4 DEF StartServing, TypeOK, CapturedSize, StatsHaveAReader
<1>5. CASE ServingForward
  <2>1. ServingPhases \in SUBSET Phases /\ "serving" \in Kinds
    BY DeploymentsAssumption DEF TypeOK, Kinds
  <2>2. QED
    BY <1>5, <2>1, DispatchRouterStep DEF ServingForward, TypeOK
<1>6. CASE StageIsCaptured
  BY <1>6 DEF StageIsCaptured, TypeOK, CapturedSize, StatsHaveAReader
<1>7. CASE StageDefers
  <2>1. Stats \in RouteStatsRecords
    <3>1. StatsKey \in {"none", "pool", "heap"} \X Nat
      BY DEF StatsKey, TypeOK, Forwards
    <3>2. QED
      BY <3>1 DEF Stats, RouteStatsRecords, TypeOK, Forwards, Active
  <2>2. TypeOK'
    BY <1>7, <2>1 DEF StageDefers, TypeOK
  <2>3. StatsHaveAReader'
    <3>1. Stats' = Stats /\ Consults' = Consults /\ Replayed' = Replayed
      BY <1>7 DEF StageDefers, Stats, StatsKey, Replayed, Active, Consults, Adaptive
    <3>2. CASE routeStats' = Stats /\ Replayed
      <4>1. Stats.key[1] = "pool"
        BY <3>2 DEF Stats, StatsKey
      <4>2. QED
        BY <3>2, <4>1 DEF StatsHaveAReader
    <3>3. CASE routeStats' = Stats /\ ~Replayed /\ (CacheStats \/ Adaptive)
      <4>1. Consults
        BY <1>7, <3>3 DEF StageDefers, Defers, Consults
      <4>2. QED
        BY <1>7, <3>1, <3>3, <4>1 DEF StageDefers, StatsHaveAReader
    <3>4. CASE routeStats' = routeStats
      BY <1>7, <3>4 DEF StageDefers, StatsHaveAReader
    <3>5. QED
      BY <1>7, <3>2, <3>3, <3>4 DEF StageDefers
  <2>4. QED
    BY <1>7, <2>2, <2>3 DEF StageDefers, CapturedSize
<1>8. CASE StageSlots
  <2>1. TypeOK'
    BY <1>8 DEF StageSlots, TypeOK, Forwards, Active
  <2>2. QED
    BY <1>8, <2>1 DEF StageSlots, CapturedSize, StatsHaveAReader
<1>9. CASE StageRaises
  BY <1>9 DEF StageRaises, TypeOK, CapturedSize, StatsHaveAReader
<1>10. ASSUME pc = "mlp", forward.kind # "capture", ~Replayed, ConsumeStats
       PROVE  /\ routeStats' = NoStats \/ routeStats'.key[1] = "pool"
              /\ routeStats' \in RouteStatsRecords
  <2>1. NoStats \in RouteStatsRecords
    BY DEF NoStats, RouteStatsRecords
  <2>2. QED
    BY <1>10, <2>1 DEF ConsumeStats, StatsHaveAReader, TypeOK
<1>11. CASE MlpWaves
  <2>1. TypeOK'
    BY <1>10, <1>11 DEF MlpWaves, TypeOK, Active, Forwards
  <2>2. QED
    BY <1>10, <1>11, <2>1 DEF MlpWaves, CapturedSize, StatsHaveAReader
<1>12. CASE MlpSlots
  <2>1. TypeOK'
    BY <1>10, <1>12 DEF MlpSlots, TypeOK, Active, Forwards
  <2>2. QED
    BY <1>10, <1>12, <2>1 DEF MlpSlots, CapturedSize, StatsHaveAReader
<1>13. CASE MlpCapture
  BY <1>13 DEF MlpCapture, TypeOK, CapturedSize, StatsHaveAReader
<1>14. CASE MlpReplay
  <2>1. TypeOK'
    BY <1>14 DEF MlpReplay, TypeOK, Active, Forwards
  <2>2. QED
    BY <1>14, <2>1 DEF MlpReplay, CapturedSize, StatsHaveAReader
<1>15. CASE UNCHANGED vars
  BY <1>15 DEF vars, TypeOK, CapturedSize, StatsHaveAReader, Stats, StatsKey,
     Active, Replayed, Consults, Adaptive
<1>16. QED
  BY <1>1, <1>2, <1>3, <1>4, <1>5, <1>6, <1>7, <1>8, <1>9, <1>11, <1>12,
     <1>13, <1>14, <1>15 DEF Next

LEMMA DispatchInvHolds == Spec => []DispatchInv
  BY DispatchInit, DispatchNext, PTL DEF Spec

(***************************************************************************)
(* The worker's life, the forward in hand and the cache of route stats     *)
(* stay in their domains, in every deployment.                             *)
(***************************************************************************)
THEOREM TypeCorrect == Spec => []TypeOK
<1>1. DispatchInv => TypeOK
  BY DEF DispatchInv
<1>2. QED
  BY <1>1, DispatchInvHolds, PTL

(***************************************************************************)
(* A hit in the route-stats cache is about the forward in hand, in every   *)
(* deployment: the executor of _maybe_run_b2_wave_prefill never plans from *)
(* the active experts of an earlier forward, although the key names only   *)
(* the address and the shape of topk_ids.                                  *)
(***************************************************************************)
THEOREM FreshnessTheorem == Spec => []RouteStatsAreFresh
<1>1. DispatchInv => RouteStatsAreFresh
  <2> SUFFICES ASSUME DispatchInv, pc = "mlp", forward.kind # "capture",
                      ~Replayed, StatsHit
               PROVE  routeStats.experts = Active
    BY DEF RouteStatsAreFresh
  <2>1. routeStats.key[1] = "heap"
    BY DEF StatsHit, StatsKey
  <2>2. routeStats = Stats
    BY <2>1 DEF DispatchInv, StatsHaveAReader, StatsHit
  <2>3. QED
    BY <2>2 DEF Stats
<1>2. QED
  BY <1>1, DispatchInvHolds, PTL
===========================================================================
