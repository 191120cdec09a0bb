------------------------ MODULE WaveExecutorProofs ------------------------
(***************************************************************************)
(* Proofs about WaveExecutor, for every number of buffers, prefetch depth, *)
(* load mode, overflow mode, number of waves and number of forwards: the   *)
(* stage buffers are handed over soundly, wave kernels read their own      *)
(* weights, and waves are transparent (MoeLayer).                          *)
(***************************************************************************)
EXTENDS WaveExecutor, FiniteSetTheorems, TLAPS

(***************************************************************************)
(* The inductive invariant, in four layers.                                *)
(*                                                                         *)
(* The first: types, the bounds of the wave loop, and what never happens   *)
(* without asynchronous loads.                                             *)
(***************************************************************************)
WavePhases == {"priming", "consuming", "prefetching", "refilling"}

InBounds ==
    /\ forward <= MaxForwards /\ waves <= MaxWaves /\ cursor <= waves
    /\ pc # "idle" => /\ forward >= 1
                      /\ position >= 1 /\ position <= waves
    /\ pc \in {"full", "computing"} => staged = {}
    /\ pc = "computing" => current = FullBank

SyncIsBare ==
    /\ ~AsyncLoad => batches = {} /\ staged = {} /\ cursor = 0
    /\ pc = "priming" => AsyncLoad /\ position = 1

OverlapHasBuffers ==
    AsyncLoad /\ PrefetchDepth > 0 /\ pc \in WavePhases => NumBuffers >= 2

(***************************************************************************)
(* The records of the staged waves: one for each wave from the current one *)
(* to the cursor when there is prefetching, else at most the current one.  *)
(***************************************************************************)
NextToConsume == IF pc \in {"priming", "consuming"} THEN position ELSE position + 1

StagedAreNext ==
    /\ pc = "idle" => staged = {}
    /\ \A r, q \in staged : r.wave = q.wave => r = q
    /\ AsyncLoad /\ PrefetchDepth > 0 /\ pc \in WavePhases =>
          /\ \A r \in staged : NextToConsume <= r.wave /\ r.wave <= cursor
          /\ \A w \in NextToConsume .. cursor : \E r \in staged : r.wave = w
          /\ pc # "priming" => position <= cursor
    /\ PrefetchDepth = 0 =>
          /\ cursor = 0
          /\ \A r \in staged : pc = "consuming" /\ r.wave = position

TypeInv == TypeOK /\ InBounds /\ SyncIsBare /\ OverlapHasBuffers /\ StagedAreNext

(***************************************************************************)
(* The second: the slots.  Those of a buffer are LOADING only for a staged *)
(* wave, unless something was raised.                                      *)
(***************************************************************************)
LoadingIsStaged ==
    raised \cap {"host_store", "load", "wave"} = {} =>
        /\ "assign" \notin raised
        /\ \A b \in Buffers : bankState[b] = "loading" =>
               \E r \in staged : r.buffer = b

SlotInv == StagedWavesOwnTheirBuffers /\ LoadingIsStaged

(***************************************************************************)
(* The third: time.  Kernels and batches are numbered in the order they    *)
(* are issued; the pool remembers a release after every kernel of a buffer *)
(* that may still run; a staged wave has the last batch of its buffer.     *)
(***************************************************************************)
Numbering ==
    /\ waitTicket <= batchSeq
    /\ \A k \in kernels : k.id <= kernelSeq /\ k.id >= 1 /\ k.after <= waitTicket
    /\ \A k, l \in kernels : k.id = l.id => k = l
    /\ \A c \in batches : c.ticket <= batchSeq
    /\ \A c, d \in batches : c.ticket = d.ticket => c = d
    /\ \A r \in staged : r.ticket <= batchSeq

ReleasesAreKnown ==
    /\ \A b \in Buffers : localRelease[b] # 0 => localRelease[b] = poolRelease[b]
    /\ AsyncLoad => \A k \in kernels : k.buffer \in Buffers => k.id <= poolRelease[k.buffer]

LastBatches ==
    /\ \A r \in staged : \A c \in batches : c.buffer = r.buffer => c.ticket <= r.ticket
    /\ pc = "prefetching" =>
          \A c \in batches : c.buffer = current => c.ticket <= waitTicket

OrderInv == Numbering /\ ReleasesAreKnown /\ LastBatches /\ CopiesAndKernelsAreOrdered

(***************************************************************************)
(* The fourth: data.  Loads(b, t) are the copies into buffer b up to batch *)
(* t that are still to come; after them the buffer holds weights w.        *)
(***************************************************************************)
Loads(b, t) == {c \in batches : c.buffer = b /\ c.ticket <= t}

WillHold(b, t, w) ==
    \/ Loads(b, t) = {} /\ content[b] = w
    \/ \E c \in Loads(b, t) : c.weights = w /\ \A d \in Loads(b, t) : d.ticket <= c.ticket

StagedWillHold ==
    \A r \in staged : WillHold(r.buffer, r.ticket, <<forward, r.wave>>)

CurrentWillHold ==
    /\ pc = "prefetching" => WillHold(current, waitTicket, <<forward, position>>)
    /\ pc = "computing" => content[FullBank] = WholeLayer(forward)

KernelsWillFind ==
    \A k \in kernels : \A w \in k.weights :
        IF k.buffer = FullBank THEN content[FullBank] = WholeLayer(w[1])
        ELSE WillHold(k.buffer, k.after, w)

WeightInv == StagedWillHold /\ CurrentWillHold /\ KernelsWillFind

WaveInv == TypeInv /\ SlotInv /\ OrderInv /\ WeightInv

--------------------------------------------------------------------------
LEMMA ConstantsType ==
    /\ NumBuffers \in Nat /\ NumBuffers >= 1 /\ 0 \in Buffers
    /\ MaxWaves \in Nat /\ MaxForwards \in Nat
    /\ FullBank \notin Buffers /\ NoBuffer \notin Buffers /\ FullBank # NoBuffer
    /\ Buffers \subseteq Banks /\ FullBank \in Banks
  BY BuffersAssumption, BoundsAssumption DEF Buffers, FullBank, NoBuffer, Banks

LEMMA SettingsType ==
    ASSUME TypeOK
    PROVE  AsyncLoad \in BOOLEAN /\ PrefetchDepth \in Nat
  BY BuffersAssumption DEF TypeOK, AsyncLoad, PrefetchDepth

LEMMA SyncBufferType ==
    ASSUME TypeOK
    PROVE  SyncBuffer \in Buffers
  <1>1. position - 1 \in Int /\ NumBuffers \in Nat \ {0}
    BY BuffersAssumption DEF TypeOK
  <1>2. \A i \in Int, n \in Nat \ {0} : i % n \in 0 .. n - 1
    OBVIOUS
  <1> QED BY <1>1, <1>2 DEF SyncBuffer, Buffers

LEMMA StageType ==
    ASSUME TypeOK, NEW w \in Nat, NEW b \in Buffers, Stage(w, b)
    PROVE  /\ bankState' \in [Banks -> {"empty", "loading", "ready"}]
           /\ batchSeq' \in Nat /\ batches' \in SUBSET BatchRecord
           /\ staged' \in SUBSET StageRecord
  <1>1. ReleaseOf(b) \in Nat
    BY DEF TypeOK, ReleaseOf
  <1>2. [ticket |-> batchSeq + 1, buffer |-> b, weights |-> <<forward, w>>,
         after |-> ReleaseOf(b)] \in BatchRecord
    BY <1>1 DEF TypeOK, BatchRecord
  <1>3. [wave |-> w, buffer |-> b, ticket |-> batchSeq + 1] \in StageRecord
    BY DEF TypeOK, StageRecord
  <1>4. staged' \in SUBSET StageRecord
    BY <1>3 DEF TypeOK, Stage
  <1>5. batches' \in SUBSET BatchRecord /\ batchSeq' \in Nat
    BY <1>2 DEF TypeOK, Stage
  <1>6. bankState' \in [Banks -> {"empty", "loading", "ready"}]
    BY ConstantsType DEF TypeOK, Stage
  <1> QED BY <1>4, <1>5, <1>6

LEMMA AbandonType ==
    ASSUME TypeOK, NEW origin \in {"assign", "host_store", "load", "wave", "full_layer"},
           Abandon(origin),
           bankState' \in [Banks -> {"empty", "loading", "ready"}],
           batchSeq' \in Nat, batches' \in SUBSET BatchRecord,
           content' \in [Banks -> Nat \X Nat]
    PROVE  TypeOK'
  BY DEF TypeOK, Abandon, loopVars, releaseVars, computeVars

LEMMA HeldType ==
    ASSUME TypeOK, NEW b \in Banks, NEW w \in WaveIds
    PROVE  Held(b, w) \in Nat \X Nat
  <1>1. WaveIds \subseteq Nat \X Nat
    BY BoundsAssumption DEF WaveIds
  <1> QED BY <1>1 DEF TypeOK, Held

LEMMA TypeInit == Init => TypeInv
  <1> SUFFICES ASSUME Init PROVE TypeInv
    OBVIOUS
  <1>1. NoWeights \in Nat \X Nat
    BY DEF NoWeights
  <1>2. TypeOK
    BY <1>1, ConstantsType DEF Init, TypeOK
  <1> QED BY <1>2, BoundsAssumption DEF Init, TypeInv, InBounds, SyncIsBare,
             OverlapHasBuffers, StagedAreNext, WavePhases

LEMMA TypeNext == TypeInv /\ [Next]_vars => TypeOK'
  <1> SUFFICES ASSUME TypeInv, [Next]_vars PROVE TypeOK'
    OBVIOUS
  <1> USE ConstantsType
  <1>0. TypeOK
    BY DEF TypeInv
  <1>1. ASSUME NEW n \in 2 .. MaxWaves, Begin(n) PROVE TypeOK'
    BY <1>0, <1>1 DEF Begin, TypeOK, computeVars
  <1>2. CASE Prefetch
    <2>1. PICK b \in Buffers : Stage(cursor + 1, b)
      BY <1>2 DEF Prefetch
    <2>2. cursor + 1 \in Nat
      BY <1>0 DEF TypeOK
    <2> QED BY <1>0, <1>2, <2>1, <2>2, StageType
            DEF Prefetch, TypeOK, loopVars, releaseVars, computeVars
  <1>3. CASE StageOnDemand
    <2>1. PICK b \in Buffers : Stage(position, b)
      BY <1>3 DEF StageOnDemand
    <2>2. position \in Nat
      BY <1>0 DEF TypeOK
    <2> QED BY <1>0, <1>3, <2>1, <2>2, StageType
            DEF StageOnDemand, TypeOK, loopVars, releaseVars, computeVars
  <1>4. CASE Primed
    BY <1>0, <1>4 DEF Primed, TypeOK, loopVars, stageVars, releaseVars, computeVars
  <1>5. CASE Consume
    <2>1. PICK r \in staged :
             /\ staged' = staged \ {r}
             /\ waitTicket' = Greater(waitTicket, r.ticket)
             /\ bankState' = [bankState EXCEPT ![r.buffer] = "ready"]
             /\ current' = r.buffer
      BY <1>5 DEF Consume
    <2>2. r.buffer \in Buffers /\ r.ticket \in Nat
      BY <1>0 DEF TypeOK, StageRecord
    <2>3. waitTicket' \in Nat
      BY <1>0, <2>1, <2>2 DEF TypeOK, Greater
    <2> QED BY <1>0, <1>5, <2>1, <2>2, <2>3 DEF Consume, TypeOK, releaseVars
  <1>6. CASE StageSync
    BY <1>0, <1>6, SyncBufferType DEF StageSync, TypeOK, releaseVars, computeVars
  <1>7. CASE Launch
    <2>1. /\ current \in Buffers
          /\ <<forward, position>> \in WaveIds
      BY <1>0, <1>7 DEF Launch, TypeOK, TypeInv, InBounds, WaveIds
    <2>2. WaveKernel(kernelSeq + 1) \in KernelRecord
      BY <1>0, <2>1 DEF TypeOK, WaveKernel, Kernel, KernelRecord
    <2>3. kernelSeq' \in Nat /\ kernels' \in SUBSET KernelRecord
      BY <1>0, <1>7, <2>2 DEF Launch, TypeOK
    <2>4. localRelease' \in [Buffers -> Nat] /\ poolRelease' \in [Buffers -> Nat]
      <3>1. kernelSeq + 1 \in Nat
        BY <1>0 DEF TypeOK
      <3>2. CASE AsyncLoad
        BY <1>0, <1>7, <2>1, <3>1, <3>2 DEF Launch, TypeOK
      <3>3. CASE ~AsyncLoad
        BY <1>0, <1>7, <3>3 DEF Launch, TypeOK, releaseVars
      <3> QED BY <3>2, <3>3
    <2> QED BY <1>0, <1>7, <2>1, <2>3, <2>4 DEF Launch, TypeOK, loopVars, stageVars
  <1>8. CASE NextWave
    BY <1>0, <1>8 DEF NextWave, TypeOK, stageVars, releaseVars, computeVars
  <1>9. CASE StageFullLayer
    <2>1. WholeLayer(forward) \in Nat \X Nat
      BY <1>0 DEF TypeOK, WholeLayer
    <2> QED BY <1>0, <1>9, <2>1 DEF StageFullLayer, TypeOK, releaseVars, computeVars
  <1>10. CASE LaunchFullLayer
    <2> DEFINE new == Kernel(kernelSeq + 1, {forward} \X (1 .. waves))
    <2>1. current \in Banks
      BY <1>0, <1>10 DEF LaunchFullLayer, TypeOK, TypeInv, InBounds
    <2>2. {forward} \X (1 .. waves) \subseteq WaveIds
      BY <1>0, <1>10 DEF LaunchFullLayer, TypeOK, TypeInv, InBounds, WaveIds
    <2>3. new \in KernelRecord
      BY <1>0, <2>1, <2>2 DEF TypeOK, Kernel, KernelRecord
    <2> HIDE DEF new
    <2> QED BY <1>0, <1>10, <2>3 DEF LaunchFullLayer, TypeOK, loopVars, stageVars, releaseVars, new
  <1>11. CASE AssignRaises
    BY <1>0, <1>11, AbandonType DEF AssignRaises, TypeOK
  <1>12. CASE HostStoreRaises
    BY <1>0, <1>12, AbandonType DEF HostStoreRaises, TypeOK
  <1>13. CASE LoadRaises
    <2>1. PICK b \in Buffers :
             /\ bankState' = [bankState EXCEPT ![b] = "empty"]
             /\ \/ UNCHANGED <<batches, batchSeq>>
                \/ /\ batchSeq' = batchSeq + 1
                   /\ batches' = batches \cup
                         {[ticket |-> batchSeq + 1, buffer |-> b,
                           weights |-> NoWeights, after |-> ReleaseOf(b)]}
      BY <1>13 DEF LoadRaises
    <2>2. ReleaseOf(b) \in Nat /\ NoWeights \in Nat \X Nat
      BY <1>0 DEF TypeOK, ReleaseOf, NoWeights
    <2>3. batchSeq' \in Nat /\ batches' \in SUBSET BatchRecord
      BY <1>0, <2>1, <2>2 DEF TypeOK, BatchRecord
    <2> QED BY <1>0, <1>13, <2>1, <2>3, AbandonType DEF LoadRaises, TypeOK
  <1>14. CASE SyncLoadRaises
    <2>1. NoWeights \in Nat \X Nat
      BY DEF NoWeights
    <2>2. content' \in [Banks -> Nat \X Nat]
      BY <1>0, <1>14, <2>1 DEF SyncLoadRaises, TypeOK
    <2> QED BY <1>0, <1>14, <2>2, AbandonType DEF SyncLoadRaises, TypeOK
  <1>15. CASE WaveRaises
    BY <1>0, <1>15, AbandonType DEF WaveRaises, TypeOK
  <1>16. CASE FallBack
    BY <1>0, <1>16 DEF FallBack, TypeOK, loopVars, stageVars, releaseVars, computeVars
  <1>17. CASE FullLayerRaises
    <2>1. NoWeights \in Nat \X Nat
      BY DEF NoWeights
    <2> QED BY <1>0, <1>17, <2>1, AbandonType DEF FullLayerRaises, TypeOK
  <1>18. ASSUME NEW c \in batches, BatchDone(c) PROVE TypeOK'
    <2>1. c \in BatchRecord
      BY <1>0 DEF TypeOK
    <2> QED BY <1>0, <1>18, <2>1
            DEF BatchDone, BatchRecord, TypeOK, loopVars, releaseVars, computeVars
  <1>19. ASSUME NEW k \in kernels, KernelDone(k) PROVE TypeOK'
    <2>1. k.buffer \in Banks
      BY <1>0 DEF TypeOK, KernelRecord
    <2>2. \A w \in WaveIds : Held(k.buffer, w) \in Nat \X Nat
      BY <1>0, <2>1, HeldType
    <2>3. NoWeights \in Nat \X Nat
      BY DEF NoWeights
    <2>4. result' \in [WaveIds -> Nat \X Nat]
      BY <1>19, <2>2, <2>3 DEF KernelDone
    <2> QED BY <1>0, <1>19, <2>4
            DEF KernelDone, TypeOK, loopVars, stageVars, releaseVars
  <1>20. CASE UNCHANGED vars
    BY <1>0, <1>20 DEF vars, TypeOK, loopVars, stageVars, releaseVars, computeVars
  <1> QED BY <1>1, <1>2, <1>3, <1>4, <1>5, <1>6, <1>7, <1>8, <1>9, <1>10, <1>11, <1>12,
             <1>13, <1>14, <1>15, <1>16, <1>17, <1>18, <1>19, <1>20
          DEF Next, Host, HostFault, Device

--------------------------------------------------------------------------
(***************************************************************************)
(* When a wave can be prefetched.                                          *)
(***************************************************************************)
LEMMA AheadCases ==
    /\ pc = "priming" => Ahead = Lesser(PrefetchDepth, Lesser(NumBuffers, waves))
    /\ pc = "prefetching" => Ahead = Lesser(PrefetchDepth, NumBuffers - 1)
    /\ pc = "refilling" => Ahead = Lesser(PrefetchDepth, NumBuffers)
    /\ pc \notin {"priming", "prefetching", "refilling"} => Ahead = 0
  BY Zenon DEF Ahead

LEMMA FewStaged ==
    ASSUME TypeInv, PrefetchDepth = 0 \/ pc \notin WavePhases
    PROVE  Cardinality(staged) \in Nat
  <1>1. staged = {} \/ \E r \in staged : staged = {r}
    BY DEF TypeInv, StagedAreNext, InBounds, TypeOK, WavePhases
  <1> QED BY <1>1, FS_EmptySet, FS_Singleton

LEMMA NoPrefetch ==
    ASSUME TypeInv, PrefetchDepth = 0 \/ pc \notin WavePhases
    PROVE  ~CanPrefetch
  <1>1. Cardinality(staged) \in Nat
    BY FewStaged
  <1>2. Ahead = 0
    BY AheadCases, ConstantsType DEF TypeInv, TypeOK, Lesser, WavePhases
  <1> QED BY <1>1, <1>2 DEF CanPrefetch

\* As long as waves are left, none of them staged, the next one can be.
LEMMA PrefetchIsPossible ==
    ASSUME TypeInv, AsyncLoad, PrefetchDepth > 0, pc \in {"priming", "refilling"},
           ~CanPrefetch, staged = {}
    PROVE  cursor = waves
  <1>1. Cardinality(staged) = 0
    BY FS_EmptySet
  <1>2. ASSUME cursor # waves PROVE FALSE
    <2>1. waves \in Nat /\ cursor \in Nat /\ cursor < waves
      BY <1>2 DEF TypeInv, TypeOK, InBounds
    <2>2. Ahead > 0
      BY <2>1, AheadCases, ConstantsType, SettingsType DEF TypeInv, Lesser
    <2>3. Busy = {}
      BY DEF Busy
    <2> QED BY <1>1, <2>1, <2>2, <2>3, ConstantsType DEF CanPrefetch
  <1> QED BY <1>2

LEMMA FreeBufferExists ==
    ASSUME Busy # Buffers, Busy \subseteq Buffers
    PROVE  \E b \in Buffers : b \notin Busy
  OBVIOUS

(***************************************************************************)
(* What a step does to the control state and the records.                  *)
(***************************************************************************)
ControlInv == InBounds /\ SyncIsBare /\ OverlapHasBuffers /\ StagedAreNext

LEMMA AbandonControl ==
    ASSUME TypeInv, NEW origin, Abandon(origin),
           ~AsyncLoad => batches' = batches
    PROVE  ControlInv'
  <1> USE DEF TypeInv, TypeOK, Abandon, releaseVars, computeVars
  <1>1. InBounds'
    BY DEF InBounds
  <1>2. SyncIsBare' /\ OverlapHasBuffers'
    BY DEF SyncIsBare, OverlapHasBuffers, AsyncLoad, PrefetchDepth, WavePhases
  <1>3. StagedAreNext'
    BY DEF StagedAreNext, AsyncLoad, PrefetchDepth, WavePhases
  <1> QED BY <1>1, <1>2, <1>3 DEF ControlInv

LEMMA SameControl ==
    ASSUME TypeInv, UNCHANGED <<config, pc, loopVars, cursor, staged>>,
           ~AsyncLoad => batches' \subseteq batches
    PROVE  ControlInv'
  BY DEF TypeInv, ControlInv, InBounds, SyncIsBare, OverlapHasBuffers, StagedAreNext,
         loopVars, AsyncLoad, PrefetchDepth, NextToConsume

LEMMA ControlNext == TypeInv /\ [Next]_vars => ControlInv'
  <1> SUFFICES ASSUME TypeInv, [Next]_vars PROVE ControlInv'
    OBVIOUS
  <1> USE ConstantsType
  <1>0. TypeOK /\ TypeOK'
    BY TypeNext DEF TypeInv
  <1>a. AsyncLoad \in BOOLEAN /\ PrefetchDepth \in Nat
    BY <1>0, SettingsType
  <1>b. InBounds /\ SyncIsBare /\ OverlapHasBuffers /\ StagedAreNext
    BY DEF TypeInv
  <1>1. ASSUME NEW n \in 2 .. MaxWaves, Begin(n) PROVE ControlInv'
    <2>1. /\ config' = config /\ pc = "idle" /\ forward < MaxForwards
          /\ forward' = forward + 1 /\ waves' = n /\ position' = 1 /\ cursor' = 0
          /\ staged' = {} /\ batches' = batches
      BY <1>1 DEF Begin
    <2>2. \/ pc' = "full"
          \/ pc' = "priming" /\ AsyncLoad /\ ~PreflightFails
          \/ pc' = "consuming" /\ ~AsyncLoad
      BY <1>1, <1>a DEF Begin
    <2>3. InBounds' /\ SyncIsBare'
      BY <1>0, <1>b, <2>1, <2>2 DEF TypeOK, InBounds, SyncIsBare, AsyncLoad
    <2>4. OverlapHasBuffers'
      BY <2>1, <2>2 DEF OverlapHasBuffers, AsyncLoad, PrefetchDepth, PreflightFails, WavePhases
    <2>5. StagedAreNext'
      BY <2>1, <2>2 DEF StagedAreNext, NextToConsume, AsyncLoad, PrefetchDepth, WavePhases
    <2> QED BY <2>3, <2>4, <2>5 DEF ControlInv
  <1>2. CASE Prefetch
    <2>1. PICK b \in Buffers : Stage(cursor + 1, b)
      BY <1>2 DEF Prefetch
    <2>2. /\ UNCHANGED <<config, pc, forward, waves, position, current>>
          /\ cursor' = cursor + 1 /\ cursor < waves /\ AsyncLoad
          /\ staged' = staged \cup {[wave |-> cursor + 1, buffer |-> b, ticket |-> batchSeq + 1]}
      BY <1>2, <2>1 DEF Prefetch, CanPrefetch, Stage, loopVars
    <2>3. PrefetchDepth > 0 /\ pc \in WavePhases
      BY <1>2, <1>a, NoPrefetch DEF Prefetch
    <2>4. InBounds' /\ SyncIsBare' /\ OverlapHasBuffers'
      BY <1>0, <1>b, <2>2, <2>3 DEF TypeOK, InBounds, SyncIsBare, OverlapHasBuffers,
         AsyncLoad, PrefetchDepth, WavePhases
    <2>5. NextToConsume' = NextToConsume /\ NextToConsume <= cursor + 1
          /\ NextToConsume \in Nat
      BY <1>0, <1>b, <2>2, <2>3 DEF TypeOK, InBounds, SyncIsBare, StagedAreNext,
         NextToConsume, WavePhases
    <2>6. StagedAreNext'
      <3>1. \A r \in staged : r.wave <= cursor /\ r.wave \in Nat
        BY <1>0, <1>b, <2>2, <2>3 DEF TypeOK, StageRecord, StagedAreNext
      <3>2. \A r, q \in staged' : r.wave = q.wave => r = q
        BY <1>0, <1>b, <2>2, <3>1 DEF TypeOK, StagedAreNext
      <3>3. \A r \in staged' : NextToConsume <= r.wave /\ r.wave <= cursor + 1
        BY <1>0, <1>b, <2>2, <2>3, <2>5, <3>1 DEF TypeOK, StagedAreNext
      <3>4. \A w \in NextToConsume .. cursor + 1 : \E r \in staged' : r.wave = w
        <4> SUFFICES ASSUME NEW w \in NextToConsume .. cursor + 1
                     PROVE  \E r \in staged' : r.wave = w
          OBVIOUS
        <4>1. CASE w = cursor + 1
          <5>1. [wave |-> cursor + 1, buffer |-> b, ticket |-> batchSeq + 1] \in staged'
            BY <2>2
          <5> QED BY <4>1, <5>1
        <4>2. CASE w # cursor + 1
          BY <1>0, <1>b, <2>2, <2>3, <2>5, <4>2 DEF TypeOK, StagedAreNext
        <4> QED BY <4>1, <4>2
      <3> QED BY <1>0, <1>a, <1>b, <2>2, <2>3, <2>5, <3>2, <3>3, <3>4
              DEF TypeOK, StagedAreNext, AsyncLoad, PrefetchDepth, WavePhases
    <2> QED BY <2>4, <2>6 DEF ControlInv
  <1>3. CASE StageOnDemand
    <2>1. PICK b \in Buffers : Stage(position, b)
      BY <1>3 DEF StageOnDemand
    <2>2. /\ UNCHANGED <<config, pc, forward, waves, position, current, cursor>>
          /\ AsyncLoad /\ pc = "consuming" /\ \A r \in staged : r.wave # position
          /\ staged' = staged \cup {[wave |-> position, buffer |-> b, ticket |-> batchSeq + 1]}
      BY <1>3, <2>1 DEF StageOnDemand, Demanded, Stage, loopVars
    <2>3. PrefetchDepth = 0
      <3> SUFFICES ASSUME PrefetchDepth > 0 PROVE FALSE
        BY <1>a
      <3>1. position <= cursor /\ NextToConsume = position
        BY <1>b, <2>2 DEF StagedAreNext, NextToConsume, WavePhases
      <3>2. position \in NextToConsume .. cursor
        BY <1>0, <3>1 DEF TypeOK
      <3> QED BY <1>b, <2>2, <3>2 DEF StagedAreNext, WavePhases
    <2>4. StagedAreNext'
      BY <1>b, <2>2, <2>3 DEF StagedAreNext, PrefetchDepth
    <2> QED BY <1>b, <2>2, <2>4 DEF ControlInv, InBounds, SyncIsBare, OverlapHasBuffers,
            AsyncLoad, PrefetchDepth, WavePhases
  <1>4. CASE Primed
    <2>1. /\ UNCHANGED <<config, forward, waves, position, current, cursor, staged, batches>>
          /\ pc = "priming" /\ pc' = "consuming" /\ ~CanPrefetch /\ AsyncLoad /\ position = 1
      BY <1>4, <1>b DEF Primed, loopVars, stageVars, SyncIsBare
    <2>2. PrefetchDepth > 0 => position <= cursor
      <3> SUFFICES ASSUME PrefetchDepth > 0 PROVE 1 <= cursor
        BY <2>1
      <3>1. CASE staged = {}
        BY <1>0, <1>b, <2>1, <3>1, PrefetchIsPossible DEF TypeOK, InBounds
      <3>2. ASSUME NEW r \in staged PROVE 1 <= cursor
        BY <1>0, <1>b, <2>1 DEF TypeOK, StageRecord, StagedAreNext, NextToConsume, WavePhases
      <3> QED BY <3>1, <3>2
    <2>3. StagedAreNext'
      BY <1>b, <2>1, <2>2 DEF StagedAreNext, NextToConsume, AsyncLoad, PrefetchDepth, WavePhases
    <2> QED BY <1>b, <2>1, <2>3 DEF ControlInv, InBounds, SyncIsBare, OverlapHasBuffers,
            AsyncLoad, PrefetchDepth, WavePhases
  <1>5. CASE Consume
    <2>1. PICK r \in staged : r.wave = position /\ staged' = staged \ {r}
      BY <1>5 DEF Consume
    <2>2. /\ UNCHANGED <<config, forward, waves, position, cursor, batches>>
          /\ pc = "consuming" /\ pc' = "prefetching"
      BY <1>5 DEF Consume
    <2>3. \A q \in staged' : q \in staged /\ q.wave # position
      BY <1>b, <2>1 DEF StagedAreNext
    <2>4. StagedAreNext'
      <3>1. CASE AsyncLoad /\ PrefetchDepth > 0
        <4>1. \A q \in staged : position <= q.wave /\ q.wave <= cursor /\ q.wave \in Nat
          BY <1>0, <1>b, <2>2, <3>1
             DEF TypeOK, StageRecord, StagedAreNext, NextToConsume, WavePhases
        <4>2. \A w \in position + 1 .. cursor : \E q \in staged' : q.wave = w
          <5> SUFFICES ASSUME NEW w \in position + 1 .. cursor
                       PROVE  \E q \in staged' : q.wave = w
            OBVIOUS
          <5>1. w \in position .. cursor /\ w # position
            BY <1>0 DEF TypeOK
          <5>2. \E q \in staged : q.wave = w
            BY <1>b, <2>2, <3>1, <5>1 DEF StagedAreNext, NextToConsume, WavePhases
          <5> QED BY <2>1, <5>1, <5>2
        <4>3. NextToConsume' = position + 1
          BY <2>2 DEF NextToConsume
        <4>4. \A q \in staged' : position + 1 <= q.wave /\ q.wave <= cursor
          <5>1. position \in Nat
            BY <1>0 DEF TypeOK
          <5>2. \A q \in staged' : q \in staged /\ q.wave # position
            BY <2>3
          <5> QED BY <4>1, <5>1, <5>2
        <4> QED BY <1>b, <2>2, <2>3, <3>1, <4>2, <4>3, <4>4
                DEF StagedAreNext, AsyncLoad, PrefetchDepth, WavePhases
      <3>2. CASE ~(AsyncLoad /\ PrefetchDepth > 0)
        BY <1>b, <2>2, <2>3, <3>2 DEF StagedAreNext, AsyncLoad, PrefetchDepth, WavePhases
      <3> QED BY <3>1, <3>2
    <2> QED BY <1>b, <2>1, <2>2, <2>4 DEF ControlInv, InBounds, SyncIsBare, OverlapHasBuffers,
            AsyncLoad, PrefetchDepth, WavePhases
  <1>6. CASE StageSync
    <2>1. /\ UNCHANGED <<config, forward, waves, position, cursor, staged, batches>>
          /\ pc = "consuming" /\ pc' = "prefetching" /\ ~AsyncLoad
      BY <1>6 DEF StageSync
    <2>2. staged = {}
      BY <1>b, <2>1 DEF SyncIsBare
    <2> QED BY <1>b, <2>1, <2>2 DEF ControlInv, InBounds, SyncIsBare, OverlapHasBuffers,
            StagedAreNext, AsyncLoad, PrefetchDepth
  <1>7. CASE Launch
    <2>1. /\ UNCHANGED <<config, forward, waves, position, cursor, staged, batches>>
          /\ pc = "prefetching" /\ pc' = "refilling"
      BY <1>7 DEF Launch, loopVars, stageVars
    <2>2. NextToConsume' = NextToConsume
      BY <2>1 DEF NextToConsume
    <2> QED BY <1>b, <2>1, <2>2 DEF ControlInv, InBounds, SyncIsBare, OverlapHasBuffers,
            StagedAreNext, AsyncLoad, PrefetchDepth, WavePhases
  <1>8. CASE NextWave
    <2>1. /\ UNCHANGED <<config, forward, waves, cursor, staged, batches>>
          /\ pc = "refilling" /\ position' = position + 1 /\ ~CanPrefetch
          /\ pc' = IF position = waves THEN "idle" ELSE "consuming"
      BY <1>8 DEF NextWave, stageVars
    <2>2. InBounds' /\ SyncIsBare' /\ OverlapHasBuffers'
      BY <1>0, <1>b, <2>1 DEF TypeOK, InBounds, SyncIsBare, OverlapHasBuffers,
         AsyncLoad, PrefetchDepth, WavePhases
    <2>3. \A r \in staged : AsyncLoad /\ PrefetchDepth > 0 /\ position + 1 <= r.wave
                            /\ r.wave <= cursor /\ r.wave \in Nat
      BY <1>0, <1>a, <1>b, <2>1 DEF TypeOK, StageRecord, SyncIsBare, StagedAreNext,
         NextToConsume, WavePhases
    <2>4. CASE position = waves
      <3>1. staged = {}
        <4>1. position \in Nat /\ cursor \in Nat /\ waves \in Nat /\ cursor <= waves
          BY <1>0, <1>b DEF TypeOK, InBounds
        <4> QED BY <2>3, <2>4, <4>1
      <3> QED BY <1>b, <2>1, <2>2, <2>4, <3>1
              DEF ControlInv, StagedAreNext, PrefetchDepth, WavePhases
    <2>5. CASE position # waves
      <3>1. AsyncLoad /\ PrefetchDepth > 0 => position + 1 <= cursor
        <4> SUFFICES ASSUME AsyncLoad, PrefetchDepth > 0 PROVE position + 1 <= cursor
          OBVIOUS
        <4>1. CASE staged = {}
          BY <1>0, <1>b, <2>1, <2>5, <4>1, PrefetchIsPossible DEF TypeOK, InBounds
        <4>2. CASE staged # {}
          BY <1>0, <2>3, <4>2 DEF TypeOK
        <4> QED BY <4>1, <4>2
      <3>2. NextToConsume' = NextToConsume
        BY <2>1, <2>5 DEF NextToConsume
      <3>3. StagedAreNext'
        BY <1>a, <1>b, <2>1, <2>3, <2>5, <3>1, <3>2
           DEF StagedAreNext, AsyncLoad, PrefetchDepth, WavePhases
      <3> QED BY <2>2, <3>3 DEF ControlInv
    <2> QED BY <2>4, <2>5
  <1>9. CASE StageFullLayer
    <2>1. /\ UNCHANGED <<config, forward, waves, position, cursor, staged, batches>>
          /\ pc = "full" /\ pc' = "computing" /\ current' = FullBank
      BY <1>9 DEF StageFullLayer
    <2> QED BY <1>b, <2>1 DEF ControlInv, InBounds, SyncIsBare, OverlapHasBuffers,
            StagedAreNext, AsyncLoad, PrefetchDepth, WavePhases
  <1>10. CASE LaunchFullLayer
    <2>1. /\ UNCHANGED <<config, forward, waves, position, cursor, staged, batches>>
          /\ pc = "computing" /\ pc' = "idle"
      BY <1>10 DEF LaunchFullLayer, loopVars, stageVars
    <2> QED BY <1>b, <2>1 DEF ControlInv, InBounds, SyncIsBare, OverlapHasBuffers,
            StagedAreNext, AsyncLoad, PrefetchDepth, WavePhases
  <1>11. CASE AssignRaises
    BY <1>11, AbandonControl DEF AssignRaises
  <1>12. CASE HostStoreRaises
    BY <1>12, AbandonControl DEF HostStoreRaises
  <1>13. CASE LoadRaises
    BY <1>13, AbandonControl DEF LoadRaises
  <1>14. CASE SyncLoadRaises
    BY <1>14, AbandonControl DEF SyncLoadRaises
  <1>15. CASE WaveRaises
    BY <1>15, AbandonControl DEF WaveRaises
  <1>16. CASE FallBack
    <2>1. /\ UNCHANGED <<config, forward, waves, position, cursor, staged, batches>>
          /\ pc \in WavePhases /\ pc' = "full" /\ (Planning \/ Combining)
      BY <1>16 DEF FallBack, loopVars, stageVars, Planning, Combining, WavePhases
    <2>2. staged = {}
      <3>1. CASE Combining
        <4>1. \A r \in staged : AsyncLoad /\ PrefetchDepth > 0 /\ position + 1 <= r.wave
                                /\ r.wave <= cursor /\ r.wave \in Nat
          BY <1>0, <1>a, <1>b, <3>1 DEF Combining, TypeOK, StageRecord, SyncIsBare,
             StagedAreNext, NextToConsume, WavePhases
        <4>2. /\ position \in Nat /\ cursor \in Nat /\ waves \in Nat
              /\ cursor <= waves /\ position = waves
          BY <1>0, <1>b, <3>1 DEF Combining, TypeOK, InBounds
        <4> QED BY <4>1, <4>2
      <3> QED BY <2>1, <3>1 DEF Planning
    <2>3. InBounds' /\ SyncIsBare'
      BY <1>b, <2>1, <2>2 DEF InBounds, SyncIsBare, AsyncLoad, WavePhases
    <2>4. OverlapHasBuffers' /\ StagedAreNext'
      BY <1>b, <2>1, <2>2 DEF OverlapHasBuffers, StagedAreNext, AsyncLoad, PrefetchDepth, WavePhases
    <2> QED BY <2>3, <2>4 DEF ControlInv
  <1>17. CASE FullLayerRaises
    BY <1>17, AbandonControl DEF FullLayerRaises
  <1>18. ASSUME NEW c \in batches, BatchDone(c) PROVE ControlInv'
    BY <1>18, SameControl DEF BatchDone
  <1>19. ASSUME NEW k \in kernels, KernelDone(k) PROVE ControlInv'
    BY <1>19, SameControl DEF KernelDone, stageVars
  <1>20. CASE UNCHANGED vars
    BY <1>20, SameControl DEF vars, stageVars
  <1> QED BY <1>1, <1>2, <1>3, <1>4, <1>5, <1>6, <1>7, <1>8, <1>9, <1>10, <1>11, <1>12,
             <1>13, <1>14, <1>15, <1>16, <1>17, <1>18, <1>19, <1>20
          DEF Next, Host, HostFault, Device

LEMMA TypeInvNext == TypeInv /\ [Next]_vars => TypeInv'
  BY TypeNext, ControlNext DEF TypeInv, ControlInv

LEMMA TypeInvariant == Spec => []TypeInv
  BY TypeInit, TypeInvNext, PTL DEF Spec

(***************************************************************************)
(* The wave loop, the pool and the streams stay in their domains.          *)
(***************************************************************************)
THEOREM TypeCorrect == Spec => []TypeOK
  <1>1. TypeInv => TypeOK
    BY DEF TypeInv
  <1> QED BY <1>1, TypeInvariant, PTL

(***************************************************************************)
(* No wave is skipped or staged twice, and a prefetching executor never    *)
(* stages on demand (_issue_next_staged_wave, staged_issue_cursor).        *)
(***************************************************************************)
THEOREM PrefetchTheorem == Spec => []PrefetchedWavesAreNext
  <1>1. TypeInv => PrefetchedWavesAreNext
    <2> SUFFICES ASSUME TypeInv PROVE PrefetchedWavesAreNext
      OBVIOUS
    <2>0. TypeOK /\ StagedAreNext
      BY DEF TypeInv
    <2>1. ASSUME AsyncLoad, PrefetchDepth > 0, pc \notin {"idle", "full", "computing"}
          PROVE  {r.wave : r \in staged} = NextToConsume .. cursor
      <3>1. pc \in WavePhases
        BY <2>0, <2>1 DEF TypeOK, WavePhases
      <3>2. \A r \in staged : r.wave \in NextToConsume .. cursor
        BY <2>0, <2>1, <3>1 DEF TypeOK, StageRecord, StagedAreNext, NextToConsume
      <3>3. \A w \in NextToConsume .. cursor : \E r \in staged : r.wave = w
        BY <2>0, <2>1, <3>1 DEF StagedAreNext
      <3> QED BY <3>2, <3>3
    <2>2. ASSUME PrefetchDepth > 0, Demanded PROVE FALSE
      <3>1. AsyncLoad /\ pc = "consuming" /\ \A r \in staged : r.wave # position
        BY <2>2 DEF Demanded
      <3>2. NextToConsume = position /\ position <= cursor
        BY <2>0, <2>2, <3>1 DEF StagedAreNext, NextToConsume, WavePhases
      <3>3. position \in NextToConsume .. cursor
        BY <2>0, <3>2 DEF TypeOK
      <3> QED BY <2>0, <2>2, <3>1, <3>3 DEF StagedAreNext, WavePhases
    <2> QED BY <2>1, <2>2 DEF PrefetchedWavesAreNext, NextToConsume
  <1> QED BY <1>1, TypeInvariant, PTL

--------------------------------------------------------------------------
(***************************************************************************)
(* The slots of the buffers.                                               *)
(***************************************************************************)
LEMMA SlotInit == Init => SlotInv
  BY DEF Init, SlotInv, StagedWavesOwnTheirBuffers, LoadingIsStaged, Banks, Buffers

\* Staging a wave into a free buffer hands it over.
LEMMA StageKeepsSlots ==
    ASSUME TypeInv, SlotInv, NEW w, NEW b \in Buffers, FreeBuffer(b), Stage(w, b),
           UNCHANGED <<pc, current, raised>>
    PROVE  SlotInv'
  <1> DEFINE new == [wave |-> w, buffer |-> b, ticket |-> batchSeq + 1]
  <1>1. /\ staged' = staged \cup {new}
        /\ bankState' = [bankState EXCEPT ![b] = "loading"]
    BY DEF Stage
  <1>2. new.buffer = b
    OBVIOUS
  <1> HIDE DEF new
  <1>3. \A r \in staged : r.buffer # b
    BY DEF FreeBuffer, Busy
  <1>4. pc = "prefetching" => b # current
    BY DEF FreeBuffer, Busy
  <1>5. bankState \in [Banks -> {"empty", "loading", "ready"}] /\ b \in Banks
    BY ConstantsType DEF TypeInv, TypeOK
  <1>6. \A r \in staged : r.buffer \in Banks
    BY ConstantsType DEF TypeInv, TypeOK, StageRecord
  <1>7. StagedWavesOwnTheirBuffers'
    BY <1>1, <1>2, <1>3, <1>4, <1>5, <1>6 DEF SlotInv, StagedWavesOwnTheirBuffers
  <1>8. LoadingIsStaged'
    BY <1>1, <1>2, <1>5, ConstantsType DEF SlotInv, LoadingIsStaged
  <1> QED BY <1>7, <1>8 DEF SlotInv

\* An abandoned forward leaves no records, and slots only with an exception.
LEMMA AbandonKeepsSlots ==
    ASSUME SlotInv, NEW origin, Abandon(origin),
           \/ origin \in {"host_store", "load", "wave"}
           \/ /\ origin = "full_layer" /\ staged = {}
              /\ \A b \in Buffers : bankState'[b] = bankState[b]
    PROVE  SlotInv'
  <1>1. staged' = {} /\ raised' = raised \cup {origin}
    BY DEF Abandon
  <1>2. LoadingIsStaged'
    BY <1>1 DEF SlotInv, LoadingIsStaged
  <1> QED BY <1>1, <1>2 DEF SlotInv, StagedWavesOwnTheirBuffers

LEMMA SlotNext == TypeInv /\ SlotInv /\ [Next]_vars => SlotInv'
  <1> SUFFICES ASSUME TypeInv, SlotInv, [Next]_vars PROVE SlotInv'
    OBVIOUS
  <1> USE ConstantsType
  <1>0. TypeOK
    BY DEF TypeInv
  \* A step that leaves the records and the slots of the buffers alone.
  <1>a. ASSUME UNCHANGED <<staged, raised>>,
               \A b \in Buffers : bankState'[b] = bankState[b],
               pc' = "prefetching" => pc = "prefetching" /\ UNCHANGED current
        PROVE  SlotInv'
    <2>1. \A r \in staged : r.buffer \in Buffers
      BY <1>0 DEF TypeOK, StageRecord
    <2> QED BY <1>a, <2>1 DEF SlotInv, StagedWavesOwnTheirBuffers, LoadingIsStaged
  <1>1. ASSUME NEW n \in 2 .. MaxWaves, Begin(n) PROVE SlotInv'
    <2>1. staged = {} /\ staged' = {} /\ UNCHANGED <<raised, bankState>>
      BY <1>1 DEF Begin, TypeInv, StagedAreNext
    <2> QED BY <2>1 DEF SlotInv, StagedWavesOwnTheirBuffers, LoadingIsStaged
  <1>2. CASE Prefetch
    BY <1>2, StageKeepsSlots DEF Prefetch, loopVars
  <1>3. CASE StageOnDemand
    BY <1>3, StageKeepsSlots DEF StageOnDemand, loopVars
  <1>4. CASE Primed \/ Launch \/ NextWave \/ LaunchFullLayer \/ FallBack
    BY <1>0, <1>4, <1>a DEF Primed, Launch, NextWave, LaunchFullLayer, FallBack, loopVars, stageVars
  <1>5. CASE Consume
    <2>1. PICK r \in staged :
             /\ staged' = staged \ {r}
             /\ bankState' = [bankState EXCEPT ![r.buffer] = "ready"]
             /\ current' = r.buffer
      BY <1>5 DEF Consume
    <2>2. \A q \in staged : q.buffer \in Buffers
      BY <1>0 DEF TypeOK, StageRecord
    <2>3. \A q \in staged' : q \in staged /\ q.buffer # r.buffer
      BY <2>1 DEF SlotInv, StagedWavesOwnTheirBuffers
    <2>4. \A b \in Buffers : b # r.buffer => bankState'[b] = bankState[b]
      BY <1>0, <2>1 DEF TypeOK
    <2>5. bankState'[r.buffer] = "ready" /\ raised' = raised
      BY <1>0, <1>5, <2>1, <2>2 DEF TypeOK, Consume
    <2>6. StagedWavesOwnTheirBuffers'
      BY <2>1, <2>2, <2>3, <2>4 DEF SlotInv, StagedWavesOwnTheirBuffers
    <2>7. LoadingIsStaged'
      BY <2>1, <2>4, <2>5 DEF SlotInv, LoadingIsStaged
    <2> QED BY <2>6, <2>7 DEF SlotInv
  <1>6. CASE StageSync
    <2>1. staged = {} /\ staged' = {} /\ raised' = raised
      BY <1>6 DEF StageSync, TypeInv, SyncIsBare
    <2>2. \A b \in Buffers : bankState'[b] = "loading" => bankState[b] = "loading"
      BY <1>0, <1>6 DEF StageSync, TypeOK
    <2> QED BY <2>1, <2>2 DEF SlotInv, StagedWavesOwnTheirBuffers, LoadingIsStaged
  <1>7. CASE StageFullLayer
    BY <1>0, <1>7, <1>a DEF StageFullLayer, TypeOK
  <1>8. CASE AssignRaises
    <2>1. PICK b \in Buffers : Target(b) /\ bankState[b] = "loading"
      BY <1>8 DEF AssignRaises
    <2>2. \A r \in staged : r.buffer # b
      BY <2>1 DEF Target, FreeBuffer, Busy, TypeInv, SyncIsBare
    <2>3. raised \cap {"host_store", "load", "wave"} # {}
      BY <2>1, <2>2 DEF SlotInv, LoadingIsStaged
    <2>4. staged' = {} /\ raised \subseteq raised'
      BY <1>8 DEF AssignRaises, Abandon
    <2> QED BY <2>3, <2>4 DEF SlotInv, StagedWavesOwnTheirBuffers, LoadingIsStaged
  <1>9. CASE HostStoreRaises
    BY <1>9, AbandonKeepsSlots DEF HostStoreRaises
  <1>10. CASE LoadRaises
    BY <1>10, AbandonKeepsSlots DEF LoadRaises
  <1>11. CASE SyncLoadRaises
    BY <1>11, AbandonKeepsSlots DEF SyncLoadRaises
  <1>12. CASE WaveRaises
    BY <1>12, AbandonKeepsSlots DEF WaveRaises
  <1>13. CASE FullLayerRaises
    <2>1. staged = {}
      BY <1>13 DEF FullLayerRaises, TypeInv, InBounds
    <2>2. \A b \in Buffers : bankState'[b] = bankState[b]
      BY <1>0, <1>13 DEF FullLayerRaises, TypeOK
    <2> QED BY <1>13, <2>1, <2>2, AbandonKeepsSlots DEF FullLayerRaises
  <1>14. ASSUME NEW c \in batches, BatchDone(c) PROVE SlotInv'
    BY <1>14, <1>a DEF BatchDone, loopVars
  <1>15. ASSUME NEW k \in kernels, KernelDone(k) PROVE SlotInv'
    BY <1>15, <1>a DEF KernelDone, loopVars, stageVars
  <1>16. CASE UNCHANGED vars
    BY <1>16, <1>a DEF vars, loopVars, stageVars
  <1> QED BY <1>1, <1>2, <1>3, <1>4, <1>5, <1>6, <1>7, <1>8, <1>9, <1>10, <1>11, <1>12,
             <1>13, <1>14, <1>15, <1>16
          DEF Next, Host, HostFault, Device

LEMMA SlotInvariant == Spec => [](TypeInv /\ SlotInv)
  BY TypeInvariant, SlotInit, SlotNext, PTL DEF Spec

(***************************************************************************)
(* A staged wave keeps its buffer until it is consumed, and a wave that    *)
(* has to be staged on demand finds one (_next_free_buffer).               *)
(***************************************************************************)
THEOREM HandoverTheorem == Spec => []BuffersAreHandedOver
  <1>1. TypeInv /\ SlotInv => BuffersAreHandedOver
    <2> SUFFICES ASSUME TypeInv, SlotInv, AsyncLoad, pc = "consuming",
                        \A r \in staged : r.wave # position
                 PROVE  Busy # Buffers
      BY DEF SlotInv, BuffersAreHandedOver, AStageBufferIsFree
    <2>0. TypeOK /\ StagedAreNext /\ PrefetchDepth \in Nat
      BY SettingsType DEF TypeInv
    <2>1. staged = {}
      <3>1. CASE PrefetchDepth = 0
        BY <2>0, <3>1 DEF StagedAreNext
      <3>2. CASE PrefetchDepth > 0
        <4>1. NextToConsume = position /\ position <= cursor
          BY <2>0, <3>2 DEF StagedAreNext, NextToConsume, WavePhases
        <4>2. position \in NextToConsume .. cursor
          BY <2>0, <4>1 DEF TypeOK
        <4> QED BY <2>0, <3>2, <4>2 DEF StagedAreNext, WavePhases
      <3> QED BY <2>0, <3>1, <3>2
    <2>2. Busy = {}
      BY <2>1 DEF Busy
    <2> QED BY <2>2, ConstantsType
  <1> QED BY <1>1, SlotInvariant, PTL

(***************************************************************************)
(* Slots that cannot be assigned are left behind only by an exception      *)
(* (_require_reassignable).                                                *)
(***************************************************************************)
THEOREM AssignTheorem == Spec => []AssignNeedsAFailure
  <1>1. SlotInv => AssignNeedsAFailure
    BY DEF SlotInv, LoadingIsStaged, AssignNeedsAFailure
  <1> QED BY <1>1, SlotInvariant, PTL

--------------------------------------------------------------------------
(***************************************************************************)
(* The order of copies and kernels.                                        *)
(***************************************************************************)
LEMMA OrderInit == Init => OrderInv
  BY DEF Init, OrderInv, Numbering, ReleasesAreKnown, LastBatches, CopiesAndKernelsAreOrdered,
         Buffers

\* The release a copy waits for is behind every kernel of its buffer.
LEMMA ReleaseIsLast ==
    ASSUME TypeInv, ReleasesAreKnown, NEW b \in Buffers
    PROVE  /\ ReleaseOf(b) = poolRelease[b] /\ ReleaseOf(b) \in Nat
           /\ AsyncLoad => \A k \in kernels : k.buffer = b => k.id <= ReleaseOf(b)
  BY DEF TypeInv, TypeOK, ReleasesAreKnown, ReleaseOf

LEMMA StageKeepsOrder ==
    ASSUME TypeInv, SlotInv, OrderInv, NEW w, NEW b \in Buffers, FreeBuffer(b), Stage(w, b),
           AsyncLoad,
           UNCHANGED <<config, pc, current, localRelease, poolRelease, waitTicket,
                       kernels, kernelSeq>>
    PROVE  OrderInv'
  <1> DEFINE new == [ticket |-> batchSeq + 1, buffer |-> b,
                     weights |-> <<forward, w>>, after |-> ReleaseOf(b)]
             record == [wave |-> w, buffer |-> b, ticket |-> batchSeq + 1]
  <1>1. /\ batchSeq' = batchSeq + 1 /\ batches' = batches \cup {new}
        /\ staged' = staged \cup {record}
    BY DEF Stage
  <1>2. /\ new.ticket = batchSeq + 1 /\ new.buffer = b /\ new.after = ReleaseOf(b)
        /\ record.buffer = b /\ record.ticket = batchSeq + 1
    OBVIOUS
  <1> HIDE DEF new, record
  <1>3. /\ batchSeq \in Nat /\ waitTicket \in Nat
        /\ \A c \in batches : c.ticket \in Nat
        /\ \A r \in staged : r.ticket \in Nat /\ r.buffer \in Buffers
    BY DEF TypeInv, TypeOK, BatchRecord, StageRecord
  <1>4. Numbering'
    BY <1>1, <1>2, <1>3 DEF OrderInv, Numbering
  <1>5. ReleasesAreKnown'
    BY DEF OrderInv, ReleasesAreKnown, AsyncLoad
  <1>6. LastBatches'
    <2>1. \A r \in staged : r.buffer # b
      BY DEF FreeBuffer, Busy
    <2>2. pc = "prefetching" => b # current
      BY DEF FreeBuffer, Busy
    <2>3. \A c \in batches : c.ticket <= batchSeq + 1
      BY <1>3 DEF OrderInv, Numbering
    <2>4. \A r \in staged' : \A c \in batches' : c.buffer = r.buffer => c.ticket <= r.ticket
      BY <1>1, <1>2, <1>3, <2>1, <2>3 DEF OrderInv, LastBatches
    <2> QED BY <1>1, <1>2, <2>2, <2>4 DEF OrderInv, LastBatches
  <1>7. CopiesAndKernelsAreOrdered'
    <2>1. \A k \in kernels : k.buffer = b => k.id <= new.after
      BY <1>2, ReleaseIsLast DEF OrderInv
    <2> QED BY <1>1, <1>2, <2>1 DEF OrderInv, CopiesAndKernelsAreOrdered
  <1> QED BY <1>4, <1>5, <1>6, <1>7 DEF OrderInv

LEMMA LaunchKeepsOrder ==
    ASSUME TypeInv, OrderInv, NEW ids, pc' \notin {"prefetching"},
           kernelSeq' = kernelSeq + 1,
           kernels' = kernels \cup {Kernel(kernelSeq + 1, ids)},
           \A c \in batches : c.buffer = current => c.ticket <= waitTicket,
           UNCHANGED <<config, staged, batches, batchSeq, waitTicket>>,
           ReleasesAreKnown'
    PROVE  OrderInv'
  <1> DEFINE new == Kernel(kernelSeq + 1, ids)
  <1>1. new.id = kernelSeq + 1 /\ new.buffer = current /\ new.after = waitTicket
    BY DEF Kernel
  <1>2. kernels' = kernels \cup {new}
    OBVIOUS
  <1> HIDE DEF new
  <1>3. kernelSeq \in Nat /\ waitTicket \in Nat /\ \A k \in kernels : k.id \in Nat
    BY DEF TypeInv, TypeOK, KernelRecord
  <1>4. Numbering'
    BY <1>1, <1>2, <1>3 DEF OrderInv, Numbering
  <1>5. CopiesAndKernelsAreOrdered'
    BY <1>1, <1>2 DEF OrderInv, CopiesAndKernelsAreOrdered
  <1> QED BY <1>4, <1>5 DEF OrderInv, LastBatches

LEMMA OrderNext == TypeInv /\ SlotInv /\ OrderInv /\ [Next]_vars => OrderInv'
  <1> SUFFICES ASSUME TypeInv, SlotInv, OrderInv, [Next]_vars PROVE OrderInv'
    OBVIOUS
  <1> USE ConstantsType
  <1>0. TypeOK
    BY DEF TypeInv
  \* A step of the host that issues nothing and gives up records at most.
  <1>a. ASSUME UNCHANGED <<config, batches, batchSeq, waitTicket, kernels, kernelSeq, poolRelease>>,
               \A b \in Buffers : localRelease'[b] = localRelease[b] \/ localRelease'[b] = 0,
               staged' \subseteq staged,
               pc' = "prefetching" => pc = "prefetching" /\ UNCHANGED current
        PROVE  OrderInv'
    <2>1. Numbering' /\ ReleasesAreKnown'
      BY <1>a DEF OrderInv, Numbering, ReleasesAreKnown, AsyncLoad
    <2>2. LastBatches' /\ CopiesAndKernelsAreOrdered'
      BY <1>a DEF OrderInv, LastBatches, CopiesAndKernelsAreOrdered
    <2> QED BY <2>1, <2>2 DEF OrderInv
  <1>1. ASSUME NEW n \in 2 .. MaxWaves, Begin(n) PROVE OrderInv'
    <2>1. pc' # "prefetching"
      BY <1>1 DEF Begin
    <2>2. staged' \subseteq staged
      BY <1>1 DEF Begin
    <2>3. UNCHANGED <<config, batches, batchSeq, waitTicket, kernels, kernelSeq, poolRelease>>
      BY <1>1 DEF Begin, computeVars
    <2>4. \A b \in Buffers : localRelease'[b] = 0
      BY <1>1 DEF Begin
    <2> QED BY <2>1, <2>2, <2>3, <2>4, <1>a
  <1>2. CASE Prefetch
    BY <1>2, StageKeepsOrder DEF Prefetch, CanPrefetch, loopVars, releaseVars, computeVars
  <1>3. CASE StageOnDemand
    BY <1>3, StageKeepsOrder DEF StageOnDemand, Demanded, loopVars, releaseVars, computeVars
  <1>4. CASE Primed \/ NextWave \/ StageFullLayer \/ FallBack
    BY <1>4, <1>a DEF Primed, NextWave, StageFullLayer, FallBack, loopVars, stageVars,
       releaseVars, computeVars
  <1>5. CASE Consume
    <2>1. PICK r \in staged :
             /\ staged' = staged \ {r}
             /\ waitTicket' = Greater(waitTicket, r.ticket)
             /\ current' = r.buffer
      BY <1>5 DEF Consume
    <2>2. UNCHANGED <<config, batches, batchSeq, localRelease, poolRelease, kernels, kernelSeq>>
      BY <1>5 DEF Consume, releaseVars
    <2>3. waitTicket \in Nat /\ r.ticket \in Nat /\ batchSeq \in Nat
          /\ (\A k \in kernels : k.after \in Nat) /\ \A c \in batches : c.ticket \in Nat
      BY <1>0 DEF TypeOK, StageRecord, BatchRecord, KernelRecord
    <2>4. waitTicket <= waitTicket' /\ r.ticket <= waitTicket' /\ waitTicket' \in Nat
          /\ waitTicket' <= batchSeq
      BY <2>1, <2>3 DEF Greater, OrderInv, Numbering
    <2>5. Numbering'
      BY <2>1, <2>2, <2>3, <2>4 DEF OrderInv, Numbering
    <2>6. LastBatches'
      <3>1. \A c \in batches : c.buffer = r.buffer => c.ticket <= r.ticket
        BY DEF OrderInv, LastBatches
      <3>2. \A c \in batches' : c.buffer = current' => c.ticket <= waitTicket'
        BY <2>1, <2>2, <2>3, <2>4, <3>1
      <3> QED BY <2>1, <2>2, <3>2 DEF OrderInv, LastBatches
    <2>7. ReleasesAreKnown' /\ CopiesAndKernelsAreOrdered'
      BY <2>2 DEF OrderInv, ReleasesAreKnown, CopiesAndKernelsAreOrdered, AsyncLoad
    <2> QED BY <2>5, <2>6, <2>7 DEF OrderInv
  <1>6. CASE StageSync
    <2>1. batches = {} /\ staged = {}
      BY <1>6 DEF StageSync, TypeInv, SyncIsBare
    <2>2. UNCHANGED <<config, batches, staged, batchSeq, waitTicket, localRelease, poolRelease,
                      kernels, kernelSeq>>
      BY <1>6 DEF StageSync, releaseVars, computeVars
    <2> QED BY <2>1, <2>2 DEF OrderInv, Numbering, ReleasesAreKnown, LastBatches,
            CopiesAndKernelsAreOrdered, AsyncLoad
  <1>7. CASE Launch
    <2>1. /\ kernelSeq' = kernelSeq + 1 /\ kernels' = kernels \cup {WaveKernel(kernelSeq + 1)}
          /\ UNCHANGED <<config, staged, batches, batchSeq, waitTicket>>
          /\ pc = "prefetching" /\ pc' = "refilling"
      BY <1>7 DEF Launch, stageVars
    <2>2. current \in Buffers
      BY <1>0, <2>1 DEF TypeOK
    <2>3. ReleasesAreKnown'
      <3>1. CASE AsyncLoad
        <4> DEFINE new == WaveKernel(kernelSeq + 1)
        <4>1. new.id = kernelSeq + 1 /\ new.buffer = current /\ kernels' = kernels \cup {new}
          BY <2>1 DEF WaveKernel, Kernel
        <4> HIDE DEF new
        <4>2. /\ localRelease' = [localRelease EXCEPT ![current] = kernelSeq + 1]
              /\ poolRelease' = [poolRelease EXCEPT ![current] = kernelSeq + 1]
              /\ localRelease \in [Buffers -> Nat] /\ poolRelease \in [Buffers -> Nat]
          BY <1>0, <1>7, <3>1 DEF Launch, TypeOK
        <4>3. kernelSeq \in Nat /\ \A k \in kernels : k.id \in Nat /\ k.id <= kernelSeq
          BY <1>0 DEF TypeOK, KernelRecord, OrderInv, Numbering
        <4>4. \A b \in Buffers : localRelease'[b] # 0 => localRelease'[b] = poolRelease'[b]
          BY <2>2, <4>2 DEF OrderInv, ReleasesAreKnown
        <4>5. \A k \in kernels' : k.buffer \in Buffers => k.id <= poolRelease'[k.buffer]
          BY <2>2, <3>1, <4>1, <4>2, <4>3 DEF OrderInv, ReleasesAreKnown
        <4> QED BY <4>4, <4>5 DEF ReleasesAreKnown
      <3>2. CASE ~AsyncLoad
        BY <1>7, <2>1, <3>2 DEF Launch, releaseVars, OrderInv, ReleasesAreKnown, AsyncLoad
      <3> QED BY <3>1, <3>2
    <2>4. \A c \in batches : c.buffer = current => c.ticket <= waitTicket
      BY <2>1 DEF OrderInv, LastBatches
    <2> QED BY <2>1, <2>3, <2>4, LaunchKeepsOrder DEF WaveKernel
  <1>8. CASE LaunchFullLayer
    <2>1. /\ kernelSeq' = kernelSeq + 1
          /\ kernels' = kernels \cup {Kernel(kernelSeq + 1, {forward} \X (1 .. waves))}
          /\ UNCHANGED <<config, staged, batches, batchSeq, waitTicket, localRelease, poolRelease>>
          /\ pc = "computing" /\ pc' = "idle"
      BY <1>8 DEF LaunchFullLayer, stageVars, releaseVars
    <2>2. current = FullBank
      BY <2>1 DEF TypeInv, InBounds
    <2>3. Kernel(kernelSeq + 1, {forward} \X (1 .. waves)).buffer \notin Buffers
      BY <2>2 DEF Kernel
    <2>4. ReleasesAreKnown'
      BY <2>1, <2>3 DEF OrderInv, ReleasesAreKnown, AsyncLoad
    <2>5. \A c \in batches : c.buffer # current
      BY <1>0, <2>2 DEF TypeOK, BatchRecord
    <2> QED BY <2>1, <2>4, <2>5, LaunchKeepsOrder
  <1>9. CASE AssignRaises \/ HostStoreRaises \/ SyncLoadRaises \/ WaveRaises \/ FullLayerRaises
    BY <1>9, <1>a DEF AssignRaises, HostStoreRaises, SyncLoadRaises, WaveRaises,
       FullLayerRaises, Abandon, releaseVars, computeVars
  <1>10. CASE LoadRaises
    <2>1. PICK b \in Buffers :
             \/ UNCHANGED <<batches, batchSeq>>
             \/ /\ batchSeq' = batchSeq + 1
                /\ batches' = batches \cup
                      {[ticket |-> batchSeq + 1, buffer |-> b,
                        weights |-> NoWeights, after |-> ReleaseOf(b)]}
      BY <1>10 DEF LoadRaises
    <2>2. /\ UNCHANGED <<config, waitTicket, localRelease, poolRelease, kernels, kernelSeq>>
          /\ AsyncLoad /\ staged' = {} /\ pc' = "idle"
      BY <1>10 DEF LoadRaises, Abandon, releaseVars, computeVars
    <2>3. CASE UNCHANGED <<batches, batchSeq>>
      BY <1>a, <2>2, <2>3
    <2>4. CASE batchSeq' = batchSeq + 1
      <3> DEFINE new == [ticket |-> batchSeq + 1, buffer |-> b,
                         weights |-> NoWeights, after |-> ReleaseOf(b)]
      <3>0. batchSeq \in Nat /\ waitTicket \in Nat /\ \A c \in batches : c.ticket \in Nat
        BY <1>0 DEF TypeOK, BatchRecord
      <3>1. batches' = batches \cup {new}
        BY <2>1, <2>4, <3>0
      <3>2. new.ticket = batchSeq + 1 /\ new.buffer = b /\ new.after = ReleaseOf(b)
        OBVIOUS
      <3> HIDE DEF new
      <3>3. Numbering'
        BY <2>2, <2>4, <3>0, <3>1, <3>2 DEF OrderInv, Numbering
      <3>4. ReleasesAreKnown' /\ LastBatches'
        BY <2>2 DEF OrderInv, ReleasesAreKnown, LastBatches, AsyncLoad
      <3>5. \A k \in kernels : k.buffer = b => k.id <= new.after
        BY <2>2, <3>2, ReleaseIsLast DEF OrderInv
      <3>6. CopiesAndKernelsAreOrdered'
        BY <2>2, <3>1, <3>2, <3>5 DEF OrderInv, CopiesAndKernelsAreOrdered
      <3> QED BY <3>3, <3>4, <3>6 DEF OrderInv
    <2> QED BY <2>1, <2>3, <2>4
  <1>11. ASSUME NEW c \in batches, BatchDone(c) PROVE OrderInv'
    <2>1. /\ batches' \subseteq batches
          /\ UNCHANGED <<config, pc, current, staged, batchSeq, localRelease, poolRelease,
                         waitTicket, kernels, kernelSeq>>
      BY <1>11 DEF BatchDone, loopVars, releaseVars, computeVars
    <2>2. Numbering' /\ ReleasesAreKnown'
      BY <2>1 DEF OrderInv, Numbering, ReleasesAreKnown, AsyncLoad
    <2>3. LastBatches' /\ CopiesAndKernelsAreOrdered'
      BY <2>1 DEF OrderInv, LastBatches, CopiesAndKernelsAreOrdered
    <2> QED BY <2>2, <2>3 DEF OrderInv
  <1>12. ASSUME NEW k \in kernels, KernelDone(k) PROVE OrderInv'
    <2>1. /\ kernels' \subseteq kernels
          /\ UNCHANGED <<config, pc, current, staged, batches, batchSeq, localRelease, poolRelease,
                         waitTicket, kernelSeq>>
      BY <1>12 DEF KernelDone, loopVars, stageVars, releaseVars
    <2>2. Numbering' /\ ReleasesAreKnown'
      BY <2>1 DEF OrderInv, Numbering, ReleasesAreKnown, AsyncLoad
    <2>3. LastBatches' /\ CopiesAndKernelsAreOrdered'
      BY <2>1 DEF OrderInv, LastBatches, CopiesAndKernelsAreOrdered
    <2> QED BY <2>2, <2>3 DEF OrderInv
  <1>13. CASE UNCHANGED vars
    BY <1>13, <1>a DEF vars, loopVars, stageVars, releaseVars, computeVars
  <1> QED BY <1>1, <1>2, <1>3, <1>4, <1>5, <1>6, <1>7, <1>8, <1>9, <1>10, <1>11, <1>12, <1>13
          DEF Next, Host, HostFault, Device

LEMMA OrderInvariant == Spec => [](TypeInv /\ SlotInv /\ OrderInv)
  BY SlotInvariant, OrderInit, OrderNext, PTL DEF Spec

(***************************************************************************)
(* A copy into a buffer and a kernel reading it are ordered by an event:   *)
(* the ready event of the wave or the release event of the pool.           *)
(***************************************************************************)
THEOREM OrderTheorem == Spec => []CopiesAndKernelsAreOrdered
  <1>1. OrderInv => CopiesAndKernelsAreOrdered
    BY DEF OrderInv
  <1> QED BY <1>1, OrderInvariant, PTL

--------------------------------------------------------------------------
(***************************************************************************)
(* The weights in the buffers.                                             *)
(***************************************************************************)
LEMMA WeightInit == Init => WeightInv
  BY DEF Init, WeightInv, StagedWillHold, CurrentWillHold, KernelsWillFind

\* Batches of other buffers, and later ones, do not matter.
LEMMA WillHoldStays ==
    ASSUME NEW b, NEW t, NEW w, WillHold(b, t, w), content'[b] = content[b],
           \A c \in batches \cup batches' :
               c.buffer = b /\ c.ticket <= t => c \in batches /\ c \in batches'
    PROVE  WillHold(b, t, w)'
  <1>1. Loads(b, t)' = Loads(b, t)
    BY DEF Loads
  <1> QED BY <1>1 DEF WillHold

\* A copy brings weights nearer, if none is awaited that comes later.
LEMMA CopyKeepsWillHold ==
    ASSUME TypeInv, OrderInv, NEW b \in Buffers, NEW t \in Nat, NEW w, WillHold(b, t, w),
           NEW c \in batches, BatchDone(c), c.buffer = b => c.ticket <= t
    PROVE  WillHold(b, t, w)'
  <1>1. /\ batches' = batches \ {c} /\ content' = [content EXCEPT ![c.buffer] = c.weights]
        /\ \A d \in batches : c.ticket <= d.ticket
    BY DEF BatchDone, Copyable
  <1>2. /\ b \in Banks /\ c.buffer \in Banks /\ content \in [Banks -> Nat \X Nat]
        /\ \A d \in batches : d.ticket \in Nat
        /\ \A d, e \in batches : d.ticket = e.ticket => d = e
    BY ConstantsType DEF TypeInv, TypeOK, BatchRecord, OrderInv, Numbering
  <1>3. CASE c.buffer # b
    BY <1>1, <1>2, <1>3, WillHoldStays
  <1>4. CASE c.buffer = b
    <2>1. c \in Loads(b, t)
      BY <1>4 DEF Loads
    <2>2. PICK d \in Loads(b, t) : d.weights = w /\ \A e \in Loads(b, t) : e.ticket <= d.ticket
      BY <2>1 DEF WillHold
    <2>3. Loads(b, t)' = Loads(b, t) \ {c} /\ content'[b] = c.weights
      BY <1>1, <1>2, <1>4 DEF Loads
    <2>4. CASE d = c
      <3>1. \A e \in Loads(b, t) : e = c
        BY <1>1, <1>2, <2>2, <2>4 DEF Loads
      <3> QED BY <2>2, <2>3, <2>4, <3>1 DEF WillHold
    <2>5. CASE d # c
      BY <2>2, <2>3, <2>5 DEF WillHold
    <2> QED BY <2>4, <2>5
  <1> QED BY <1>3, <1>4

LEMMA StageKeepsWeights ==
    ASSUME TypeInv, SlotInv, OrderInv, WeightInv,
           NEW w \in Nat, NEW b \in Buffers, FreeBuffer(b), Stage(w, b),
           pc \in WavePhases,
           UNCHANGED <<pc, forward, position, current, waitTicket, kernels, content>>
    PROVE  WeightInv'
  <1>1. PICK new, record :
          /\ batches' = batches \cup {new} /\ staged' = staged \cup {record}
          /\ new = [ticket |-> batchSeq + 1, buffer |-> b,
                    weights |-> <<forward, w>>, after |-> ReleaseOf(b)]
          /\ record = [wave |-> w, buffer |-> b, ticket |-> batchSeq + 1]
    BY DEF Stage
  <1>2. /\ new.ticket = batchSeq + 1 /\ new.buffer = b /\ new.weights = <<forward, w>>
        /\ record.buffer = b /\ record.ticket = new.ticket /\ record.wave = w
    BY <1>1
  <1>3. /\ batchSeq \in Nat /\ waitTicket \in Nat /\ waitTicket <= batchSeq
        /\ \A c \in batches : c.ticket \in Nat /\ c.ticket <= batchSeq
        /\ \A r \in staged : r.ticket \in Nat /\ r.ticket <= batchSeq /\ r.buffer \in Buffers
        /\ \A k \in kernels : k.after \in Nat /\ k.after <= waitTicket
    BY DEF TypeInv, TypeOK, BatchRecord, StageRecord, KernelRecord, OrderInv, Numbering
  \* The new batch is behind everything that is awaited.
  <1>4. ASSUME NEW a, NEW t \in Nat, NEW v, t <= batchSeq, WillHold(a, t, v)
        PROVE  WillHold(a, t, v)'
    <2>1. \A c \in batches \cup batches' :
               c.buffer = a /\ c.ticket <= t => c \in batches /\ c \in batches'
      BY <1>1, <1>2, <1>3, <1>4
    <2> QED BY <1>4, <2>1, WillHoldStays
  <1>5. WillHold(b, record.ticket, <<forward, w>>)'
    <2>1. new \in Loads(b, record.ticket)'
      BY <1>1, <1>2, <1>3 DEF Loads
    <2>2. \A d \in Loads(b, record.ticket)' : d.ticket <= new.ticket
      BY <1>2 DEF Loads
    <2> QED BY <1>2, <2>1, <2>2 DEF WillHold
  <1>6. StagedWillHold'
    <2> SUFFICES ASSUME NEW r \in staged' PROVE WillHold(r.buffer, r.ticket, <<forward, r.wave>>)'
      BY DEF StagedWillHold
    <2>1. CASE r = record
      BY <1>2, <1>5, <2>1
    <2>2. CASE r \in staged
      BY <1>3, <1>4, <2>2 DEF WeightInv, StagedWillHold
    <2> QED BY <1>1, <2>1, <2>2
  <1>7. CurrentWillHold'
    <2>1. pc = "prefetching" => WillHold(current, waitTicket, <<forward, position>>)'
      BY <1>3, <1>4 DEF WeightInv, CurrentWillHold
    <2> QED BY <2>1 DEF CurrentWillHold, WavePhases
  <1>8. KernelsWillFind'
    <2> SUFFICES ASSUME NEW k \in kernels, NEW v \in k.weights
                 PROVE  (IF k.buffer = FullBank THEN content[FullBank] = WholeLayer(v[1])
                         ELSE WillHold(k.buffer, k.after, v))'
      BY DEF KernelsWillFind
    <2>1. CASE k.buffer = FullBank
      BY <2>1 DEF WeightInv, KernelsWillFind, FullBank, WholeLayer
    <2>2. CASE k.buffer # FullBank
      <3>1. k.after \in Nat /\ k.after <= batchSeq /\ WillHold(k.buffer, k.after, v)
        BY <1>3, <2>2 DEF WeightInv, KernelsWillFind
      <3> QED BY <1>4, <2>2, <3>1 DEF FullBank
    <2> QED BY <2>1, <2>2
  <1> QED BY <1>6, <1>7, <1>8 DEF WeightInv

\* The kernel of a layer or wave whose weights are there, or on their way.
LEMMA LaunchKeepsWeights ==
    ASSUME WeightInv, NEW ids, pc' \notin {"prefetching", "computing"},
           kernels' = kernels \cup {Kernel(kernelSeq + 1, ids)},
           \A w \in ids : IF current = FullBank THEN content[FullBank] = WholeLayer(w[1])
                          ELSE WillHold(current, waitTicket, w),
           UNCHANGED <<forward, staged, batches, content>>
    PROVE  WeightInv'
  <1> PICK new : new = Kernel(kernelSeq + 1, ids)
    OBVIOUS
  <1>1. new.weights = ids /\ new.buffer = current /\ new.after = waitTicket
        /\ kernels' = kernels \cup {new}
    BY DEF Kernel
  <1>2. \A b, t, w : WillHold(b, t, w)' = WillHold(b, t, w)
    BY DEF WillHold, Loads
  <1>3. StagedWillHold' /\ CurrentWillHold'
    BY <1>2 DEF WeightInv, StagedWillHold, CurrentWillHold
  <1>4. \A w \in ids : IF new.buffer = FullBank THEN content[FullBank] = WholeLayer(w[1])
                       ELSE WillHold(new.buffer, new.after, w)
    BY <1>1
  <1>5. KernelsWillFind'
    BY <1>1, <1>2, <1>4 DEF WeightInv, KernelsWillFind, WholeLayer, FullBank
  <1> QED BY <1>3, <1>5 DEF WeightInv

LEMMA WeightNext ==
    TypeInv /\ SlotInv /\ OrderInv /\ WeightInv /\ [Next]_vars => WeightInv'
  <1> SUFFICES ASSUME TypeInv, SlotInv, OrderInv, WeightInv, [Next]_vars PROVE WeightInv'
    OBVIOUS
  <1> USE ConstantsType
  <1>0. TypeOK
    BY DEF TypeInv
  \* A step of the host that touches no weights, and gives up records at most.
  <1>a. ASSUME UNCHANGED <<waitTicket, kernels, batches, content>>,
               staged' \subseteq staged, staged' # {} => forward' = forward,
               pc' \notin {"prefetching", "computing"}
        PROVE  WeightInv'
    <2>1. \A b, t, w : WillHold(b, t, w)' = WillHold(b, t, w)
      BY <1>a DEF WillHold, Loads
    <2>2. StagedWillHold'
      BY <1>a, <2>1 DEF WeightInv, StagedWillHold
    <2>3. KernelsWillFind'
      BY <1>a, <2>1 DEF WeightInv, KernelsWillFind, WholeLayer, FullBank
    <2> QED BY <1>a, <2>2, <2>3 DEF WeightInv, CurrentWillHold
  <1>1. ASSUME NEW n \in 2 .. MaxWaves, Begin(n) PROVE WeightInv'
    <2>1. pc' \notin {"prefetching", "computing"} /\ staged' = {}
      BY <1>1 DEF Begin
    <2>2. UNCHANGED <<waitTicket, kernels, batches, content>>
      BY <1>1 DEF Begin, computeVars
    <2> QED BY <1>a, <2>1, <2>2
  <1>2. CASE Prefetch
    <2>1. PICK b \in Buffers : FreeBuffer(b) /\ Stage(cursor + 1, b)
      BY <1>2 DEF Prefetch
    <2>2. cursor + 1 \in Nat /\ pc \in WavePhases
      BY <1>0, <1>2, NoPrefetch DEF TypeOK, Prefetch
    <2> QED BY <1>2, <2>1, <2>2, StageKeepsWeights DEF Prefetch, loopVars, computeVars
  <1>3. CASE StageOnDemand
    <2>1. PICK b \in Buffers : FreeBuffer(b) /\ Stage(position, b)
      BY <1>3 DEF StageOnDemand
    <2>2. position \in Nat /\ pc \in WavePhases
      BY <1>0, <1>3 DEF TypeOK, StageOnDemand, Demanded, WavePhases
    <2> QED BY <1>3, <2>1, <2>2, StageKeepsWeights DEF StageOnDemand, loopVars, computeVars
  <1>4. CASE Primed \/ NextWave \/ FallBack
    <2>1. UNCHANGED <<waitTicket, kernels, batches, content, staged, forward>>
      BY <1>4 DEF Primed, NextWave, FallBack, loopVars, stageVars, computeVars
    <2>2. pc' \notin {"prefetching", "computing"}
      BY <1>4 DEF Primed, NextWave, FallBack
    <2> QED BY <1>a, <2>1, <2>2
  <1>5. CASE Consume
    <2>1. PICK r \in staged :
             /\ r.wave = position
             /\ staged' = staged \ {r}
             /\ waitTicket' = Greater(waitTicket, r.ticket)
             /\ current' = r.buffer
      BY <1>5 DEF Consume
    <2>2. UNCHANGED <<forward, position, batches, kernels, content>> /\ pc' = "prefetching"
      BY <1>5 DEF Consume
    <2>3. \A b, t, w : WillHold(b, t, w)' = WillHold(b, t, w)
      BY <2>2 DEF WillHold, Loads
    <2>4. CurrentWillHold'
      <3>1. WillHold(r.buffer, r.ticket, <<forward, position>>)
        BY <2>1 DEF WeightInv, StagedWillHold
      <3>2. waitTicket \in Nat /\ r.ticket \in Nat /\ \A c \in batches : c.ticket \in Nat
        BY <1>0 DEF TypeOK, StageRecord, BatchRecord
      <3>3. r.ticket <= waitTicket' /\ waitTicket' \in Nat
        BY <2>1, <3>2 DEF Greater
      <3>4. \A c \in batches : c.buffer = r.buffer => c.ticket <= r.ticket
        BY DEF OrderInv, LastBatches
      <3>5. \A t \in Nat : r.ticket <= t => Loads(r.buffer, t) = Loads(r.buffer, r.ticket)
        BY <3>2, <3>4 DEF Loads
      <3>6. \A t \in Nat : r.ticket <= t => WillHold(r.buffer, t, <<forward, position>>)
        BY <3>1, <3>5 DEF WillHold
      <3>7. WillHold(r.buffer, waitTicket', <<forward, position>>)
        BY <3>3, <3>6
      <3>8. PICK t : t = waitTicket'
        OBVIOUS
      <3>9. WillHold(r.buffer, t, <<forward, position>>)'
        BY <2>2, <2>3, <3>7, <3>8 DEF WillHold, Loads
      <3>10. WillHold(current, waitTicket, <<forward, position>>)'
        BY <2>1, <3>8, <3>9 DEF WillHold, Loads
      <3> QED BY <2>2, <3>10 DEF CurrentWillHold
    <2>5. StagedWillHold'
      BY <2>1, <2>2, <2>3 DEF WeightInv, StagedWillHold
    <2>6. KernelsWillFind'
      BY <2>2, <2>3 DEF WeightInv, KernelsWillFind, WholeLayer, FullBank
    <2> QED BY <2>4, <2>5, <2>6 DEF WeightInv
  <1>6. CASE StageSync
    <2>1. batches = {} /\ staged = {} /\ SyncBuffer \in Buffers
      BY <1>0, <1>6, SyncBufferType DEF StageSync, TypeInv, SyncIsBare
    <2>2. /\ UNCHANGED <<forward, position, staged, batches, kernels>>
          /\ kernels = {} /\ pc' = "prefetching" /\ current' = SyncBuffer
          /\ content' = [content EXCEPT ![SyncBuffer] = <<forward, position>>]
      BY <1>6 DEF StageSync, computeVars
    <2>3. content'[SyncBuffer] = <<forward, position>>
      BY <1>0, <2>1, <2>2 DEF TypeOK
    <2>4. CurrentWillHold'
      BY <2>1, <2>2, <2>3 DEF CurrentWillHold, WillHold, Loads
    <2> QED BY <2>1, <2>2, <2>4 DEF WeightInv, StagedWillHold, KernelsWillFind
  <1>7. CASE Launch
    <2>1. /\ kernels' = kernels \cup {Kernel(kernelSeq + 1, {<<forward, position>>})}
          /\ UNCHANGED <<forward, staged, batches, content>>
          /\ pc = "prefetching" /\ pc' = "refilling"
      BY <1>7 DEF Launch, WaveKernel, loopVars, stageVars
    <2>2. current # FullBank /\ WillHold(current, waitTicket, <<forward, position>>)
      BY <1>0, <2>1 DEF TypeOK, WeightInv, CurrentWillHold
    <2> QED BY <2>1, <2>2, LaunchKeepsWeights
  <1>8. CASE StageFullLayer
    <2>1. /\ kernels = {} /\ kernels' = {} /\ pc' = "computing" /\ staged' = staged
          /\ content' = [content EXCEPT ![FullBank] = WholeLayer(forward)]
          /\ forward' = forward /\ pc = "full"
      BY <1>8 DEF StageFullLayer, computeVars
    <2>2. staged = {} /\ content'[FullBank] = WholeLayer(forward)
      BY <1>0, <2>1 DEF TypeOK, TypeInv, InBounds
    <2>3. CurrentWillHold'
      BY <2>1, <2>2 DEF CurrentWillHold, FullBank, WholeLayer
    <2> QED BY <2>1, <2>2, <2>3 DEF WeightInv, StagedWillHold, KernelsWillFind
  <1>9. CASE LaunchFullLayer
    <2> DEFINE ids == {forward} \X (1 .. waves)
    <2>1. /\ kernels' = kernels \cup {Kernel(kernelSeq + 1, ids)}
          /\ UNCHANGED <<forward, staged, batches, content>>
          /\ pc = "computing" /\ pc' = "idle"
      BY <1>9 DEF LaunchFullLayer, loopVars, stageVars
    <2>2. current = FullBank /\ content[FullBank] = WholeLayer(forward)
      BY <2>1 DEF TypeInv, InBounds, WeightInv, CurrentWillHold
    <2>3. \A w \in ids : w[1] = forward
      OBVIOUS
    <2> HIDE DEF ids
    <2> QED BY <2>1, <2>2, <2>3, LaunchKeepsWeights
  <1>10. CASE AssignRaises \/ HostStoreRaises \/ WaveRaises
    <2>1. UNCHANGED <<waitTicket, kernels, batches, content>> /\ staged' = {} /\ pc' = "idle"
      BY <1>10 DEF AssignRaises, HostStoreRaises, WaveRaises, Abandon, computeVars
    <2> QED BY <1>a, <2>1
  <1>11. CASE LoadRaises
    <2>1. /\ UNCHANGED <<waitTicket, kernels, content>> /\ staged' = {} /\ pc' = "idle"
          /\ \/ UNCHANGED <<batches, batchSeq>>
             \/ \E new : new.ticket = batchSeq + 1 /\ batches' = batches \cup {new}
      BY <1>11 DEF LoadRaises, Abandon, computeVars
    <2>2. CASE UNCHANGED <<batches, batchSeq>>
      BY <1>a, <2>1, <2>2
    <2>3. ASSUME NEW new, new.ticket = batchSeq + 1, batches' = batches \cup {new}
          PROVE  WeightInv'
      <3>1. /\ batchSeq \in Nat /\ waitTicket \in Nat /\ waitTicket <= batchSeq
            /\ \A k \in kernels : k.after \in Nat /\ k.after <= waitTicket
        BY <1>0 DEF TypeOK, KernelRecord, OrderInv, Numbering
      <3>2. \A k \in kernels : ~(new.ticket <= k.after)
        BY <2>3, <3>1
      <3>3. ASSUME NEW k \in kernels, NEW w, WillHold(k.buffer, k.after, w)
            PROVE  WillHold(k.buffer, k.after, w)'
        BY <2>1, <2>3, <3>2, <3>3, WillHoldStays
      <3>4. KernelsWillFind'
        BY <2>1, <3>3 DEF WeightInv, KernelsWillFind, WholeLayer, FullBank
      <3> QED BY <2>1, <3>4 DEF WeightInv, StagedWillHold, CurrentWillHold
    <2> QED BY <2>1, <2>2, <2>3
  <1>12. CASE SyncLoadRaises
    <2>1. UNCHANGED <<waitTicket, kernels, batches>> /\ staged' = {} /\ pc' = "idle"
          /\ (UNCHANGED content \/ kernels = {})
      BY <1>12 DEF SyncLoadRaises, Abandon, computeVars
    <2>2. CASE UNCHANGED content
      BY <1>a, <2>1, <2>2
    <2>3. CASE kernels = {}
      BY <2>1, <2>3 DEF WeightInv, StagedWillHold, CurrentWillHold, KernelsWillFind
    <2> QED BY <2>1, <2>2, <2>3
  <1>13. CASE FullLayerRaises
    <2>1. kernels = {} /\ kernels' = {} /\ staged' = {} /\ pc' = "idle"
      BY <1>13 DEF FullLayerRaises, Abandon, computeVars
    <2> QED BY <2>1 DEF WeightInv, StagedWillHold, CurrentWillHold, KernelsWillFind
  <1>14. ASSUME NEW c \in batches, BatchDone(c) PROVE WeightInv'
    <2>1. /\ UNCHANGED <<pc, forward, position, current, staged, waitTicket, kernels>>
          /\ content' = [content EXCEPT ![c.buffer] = c.weights]
          /\ \A k \in kernels : k.id > c.after
      BY <1>14 DEF BatchDone, Copyable, loopVars, computeVars
    <2>2. /\ waitTicket \in Nat /\ c.buffer \in Buffers /\ c.after \in Nat
          /\ c.ticket \in Nat
          /\ \A r \in staged : r.ticket \in Nat /\ r.buffer \in Buffers
          /\ \A k \in kernels : k.after \in Nat /\ k.id \in Nat /\ k.buffer \in Banks
      BY <1>0 DEF TypeOK, StageRecord, BatchRecord, KernelRecord
    <2>3. content'[FullBank] = content[FullBank]
      BY <1>0, <2>1, <2>2 DEF TypeOK
    <2>4. StagedWillHold'
      <3> SUFFICES ASSUME NEW r \in staged
                   PROVE  WillHold(r.buffer, r.ticket, <<forward, r.wave>>)'
        BY <2>1 DEF StagedWillHold
      <3>1. c.buffer = r.buffer => c.ticket <= r.ticket
        BY DEF OrderInv, LastBatches
      <3>2. WillHold(r.buffer, r.ticket, <<forward, r.wave>>)
        BY DEF WeightInv, StagedWillHold
      <3>3. PICK w : w = <<forward, r.wave>> /\ w = <<forward', r.wave>>
        BY <2>1
      <3>4. WillHold(r.buffer, r.ticket, w)'
        BY <1>14, <2>2, <3>1, <3>2, <3>3, CopyKeepsWillHold
      <3> QED BY <3>3, <3>4 DEF WillHold, Loads
    <2>5. CurrentWillHold'
      <3>1. ASSUME pc = "prefetching" PROVE WillHold(current, waitTicket, <<forward, position>>)'
        <4>1. PICK b, t, w : b = current /\ t = waitTicket /\ w = <<forward, position>>
          OBVIOUS
        <4>2. b \in Buffers /\ t \in Nat /\ WillHold(b, t, w) /\ (c.buffer = b => c.ticket <= t)
          BY <1>0, <2>2, <3>1, <4>1 DEF TypeOK, WeightInv, CurrentWillHold, OrderInv, LastBatches
        <4>3. WillHold(b, t, w)'
          BY <1>14, <4>2, CopyKeepsWillHold
        <4>4. b = current' /\ t = waitTicket' /\ w = <<forward', position'>>
          BY <2>1, <4>1
        <4> QED BY <4>3, <4>4 DEF WillHold, Loads
      <3> QED BY <2>1, <2>3, <3>1 DEF WeightInv, CurrentWillHold, FullBank, WholeLayer
    <2>6. KernelsWillFind'
      <3> SUFFICES ASSUME NEW k \in kernels, NEW w \in k.weights
                   PROVE  (IF k.buffer = FullBank THEN content[FullBank] = WholeLayer(w[1])
                           ELSE WillHold(k.buffer, k.after, w))'
        BY <2>1 DEF KernelsWillFind
      <3>1. CASE k.buffer = FullBank
        BY <2>3, <3>1 DEF WeightInv, KernelsWillFind, FullBank, WholeLayer
      <3>2. CASE k.buffer # FullBank
        <4>1. WillHold(k.buffer, k.after, w) /\ k.buffer \in Buffers
          BY <2>2, <3>2 DEF WeightInv, KernelsWillFind, FullBank, Banks
        <4>2. c.buffer = k.buffer => c.ticket <= k.after \/ k.id <= c.after
          BY DEF OrderInv, CopiesAndKernelsAreOrdered
        <4>3. c.buffer = k.buffer => c.ticket <= k.after
          BY <2>1, <2>2, <4>2
        <4>4. WillHold(k.buffer, k.after, w)'
          BY <1>14, <2>2, <4>1, <4>3, CopyKeepsWillHold
        <4> QED BY <3>2, <4>4 DEF FullBank
      <3> QED BY <3>1, <3>2
    <2> QED BY <2>4, <2>5, <2>6 DEF WeightInv
  <1>15. ASSUME NEW k \in kernels, KernelDone(k) PROVE WeightInv'
    <2>1. /\ UNCHANGED <<pc, forward, position, current, staged, waitTicket, batches, content>>
          /\ kernels' \subseteq kernels
      BY <1>15 DEF KernelDone, loopVars, stageVars
    <2>2. \A b, t, w : WillHold(b, t, w)' = WillHold(b, t, w)
      BY <2>1 DEF WillHold, Loads
    <2>3. StagedWillHold' /\ CurrentWillHold'
      BY <2>1, <2>2 DEF WeightInv, StagedWillHold, CurrentWillHold, FullBank, WholeLayer,
         WillHold, Loads
    <2>4. KernelsWillFind'
      BY <2>1, <2>2 DEF WeightInv, KernelsWillFind, FullBank, WholeLayer
    <2> QED BY <2>3, <2>4 DEF WeightInv
  <1>16. CASE UNCHANGED vars
    <2>1. UNCHANGED <<pc, forward, position, current, staged, waitTicket, kernels, batches, content>>
      BY <1>16 DEF vars, loopVars, stageVars, computeVars
    <2> QED BY <2>1 DEF WeightInv, StagedWillHold, CurrentWillHold, KernelsWillFind,
            WillHold, Loads, FullBank, WholeLayer
  <1> QED BY <1>1, <1>2, <1>3, <1>4, <1>5, <1>6, <1>7, <1>8, <1>9, <1>10, <1>11, <1>12,
             <1>13, <1>14, <1>15, <1>16
          DEF Next, Host, HostFault, Device

LEMMA WaveInvariant == Spec => []WaveInv
  <1>1. Init => WaveInv
    BY TypeInit, SlotInit, OrderInit, WeightInit DEF WaveInv
  <1>2. WaveInv /\ [Next]_vars => WaveInv'
    BY TypeInvNext, SlotNext, OrderNext, WeightNext DEF WaveInv
  <1> QED BY <1>1, <1>2, PTL DEF Spec

\* Where no copy is awaited any more, the weights are there.
LEMMA RunnableReads ==
    ASSUME WaveInv, NEW k \in kernels, Runnable(k), NEW w \in k.weights
    PROVE  Held(k.buffer, w) = w
  <1>1. w \in WaveIds
    BY DEF WaveInv, TypeInv, TypeOK, KernelRecord
  <1>2. w = <<w[1], w[2]>>
    BY <1>1 DEF WaveIds
  <1>3. CASE k.buffer = FullBank
    BY <1>3 DEF WaveInv, WeightInv, KernelsWillFind, Held
  <1>4. CASE k.buffer # FullBank
    <2>1. WillHold(k.buffer, k.after, w)
      BY <1>4 DEF WaveInv, WeightInv, KernelsWillFind
    <2>2. \A c \in batches : c.ticket > k.after /\ c.ticket \in Nat /\ k.after \in Nat
      BY DEF Runnable, WaveInv, TypeInv, TypeOK, BatchRecord, KernelRecord
    <2>3. Loads(k.buffer, k.after) = {}
      BY <2>2 DEF Loads
    <2>4. content[k.buffer] = w
      BY <2>1, <2>3 DEF WillHold
    <2> QED BY <2>4 DEF Held
  <1> QED BY <1>3, <1>4

(***************************************************************************)
(* A kernel that may run finds the weights of its wave, or of its whole    *)
(* layer, in the bank it was launched on (prepare_prefill_stage_plan,      *)
(* prepare_full_layer_prefill_plan and the events around them).            *)
(***************************************************************************)
THEOREM WavesTheorem == Spec => []WavesReadTheirWeights
  <1>1. WaveInv => WavesReadTheirWeights
    BY RunnableReads DEF WavesReadTheirWeights
  <1> QED BY <1>1, WaveInvariant, PTL

--------------------------------------------------------------------------
(***************************************************************************)
(* The refinement: a launch is an Issue, a finished kernel an Execute with *)
(* the right weights, and everything else a stutter.                       *)
(***************************************************************************)
LEMMA LaunchIssues ==
    ASSUME NEW ids \in SUBSET WaveIds,
           kernelSeq' = kernelSeq + 1, result' = result,
           kernels' = kernels \cup {Kernel(kernelSeq + 1, ids)}
    PROVE  Abstract!Issue(ids)
  <1> PICK new : new = Kernel(kernelSeq + 1, ids)
    OBVIOUS
  <1>1. new.id = kernelSeq + 1 /\ new.weights = ids /\ kernels' = kernels \cup {new}
    BY DEF Kernel
  <1>2. WaveQueue' = WaveQueue \cup {[id |-> kernelSeq + 1, experts |-> ids]}
    BY <1>1 DEF WaveQueue
  <1> QED BY <1>2 DEF Abstract!Issue

LEMMA KernelDoneExecutes ==
    ASSUME WaveInv, NEW k \in kernels, KernelDone(k)
    PROVE  \E q \in WaveQueue : Abstract!Execute(q)
  <1> PICK q : q = [id |-> k.id, experts |-> k.weights]
    OBVIOUS
  <1>1. q \in WaveQueue /\ q.id = k.id /\ q.experts = k.weights
    BY DEF WaveQueue
  <1>2. /\ kernels' = kernels \ {k} /\ kernelSeq' = kernelSeq /\ Runnable(k)
        /\ result' = [w \in WaveIds |-> IF w \in k.weights THEN Held(k.buffer, w) ELSE NoWeights]
    BY DEF KernelDone
  <1>3. \A r \in WaveQueue : q.id <= r.id
    BY <1>1, <1>2 DEF WaveQueue, Runnable
  <1>4. WaveQueue' = WaveQueue \ {q}
    <2>1. \A l \in kernels : l # k => [id |-> l.id, experts |-> l.weights] # q
      <3>1. \A l \in kernels : l # k => l.id # k.id
        BY DEF WaveInv, OrderInv, Numbering
      <3> QED BY <1>1, <3>1
    <2> QED BY <1>2, <2>1 DEF WaveQueue
  <1>5. result' = [w \in WaveIds |-> IF w \in q.experts THEN w ELSE NoWeights]
    BY <1>1, <1>2, RunnableReads
  <1> QED BY <1>1, <1>2, <1>3, <1>4, <1>5 DEF Abstract!Execute

(***************************************************************************)
(* Waves are transparent: WaveExecutor implements MoeLayer, in which every *)
(* expert is resident (_run_b2_wave_prefill and its fallback).             *)
(***************************************************************************)
THEOREM WavesAreTransparent == Spec => AbstractSpec
  <1>1. Init => Abstract!Init
    BY DEF Init, Abstract!Init, WaveQueue
  <1>2. WaveInv /\ [Next]_vars => [Abstract!Next]_(Abstract!vars)
    <2> SUFFICES ASSUME WaveInv, [Next]_vars PROVE [Abstract!Next]_(Abstract!vars)
      OBVIOUS
    <2>1. CASE Launch
      <3>1. {<<forward, position>>} \in SUBSET WaveIds
        BY <2>1, BoundsAssumption DEF Launch, WaveInv, TypeInv, TypeOK, InBounds, WaveIds
      <3>2. /\ kernelSeq' = kernelSeq + 1 /\ result' = result
            /\ kernels' = kernels \cup {Kernel(kernelSeq + 1, {<<forward, position>>})}
        BY <2>1 DEF Launch, WaveKernel
      <3> QED BY <3>1, <3>2, LaunchIssues DEF Abstract!Next
    <2>2. CASE LaunchFullLayer
      <3> PICK ids : ids = {forward} \X (1 .. waves)
        OBVIOUS
      <3>1. ids \in SUBSET WaveIds
        BY <2>2, BoundsAssumption DEF LaunchFullLayer, WaveInv, TypeInv, TypeOK, InBounds, WaveIds
      <3>2. /\ kernelSeq' = kernelSeq + 1 /\ result' = result
            /\ kernels' = kernels \cup {Kernel(kernelSeq + 1, ids)}
        BY <2>2 DEF LaunchFullLayer
      <3> QED BY <3>1, <3>2, LaunchIssues DEF Abstract!Next
    <2>3. ASSUME NEW k \in kernels, KernelDone(k) PROVE Abstract!Next
      BY <2>3, KernelDoneExecutes DEF Abstract!Next
    <2>4. ASSUME UNCHANGED <<kernels, kernelSeq, result>> PROVE UNCHANGED Abstract!vars
      BY <2>4 DEF Abstract!vars, WaveQueue
    <2>5. \/ Launch \/ LaunchFullLayer \/ \E k \in kernels : KernelDone(k)
          \/ UNCHANGED <<kernels, kernelSeq, result>>
      BY DEF Next, Host, HostFault, Device, Begin, Prefetch, StageOnDemand, Primed, Consume,
             StageSync, NextWave, StageFullLayer, AssignRaises, HostStoreRaises, LoadRaises,
             SyncLoadRaises, WaveRaises, FallBack, FullLayerRaises, BatchDone, Abandon,
             vars, computeVars
    <2> QED BY <2>1, <2>2, <2>3, <2>4, <2>5
  <1> QED BY <1>1, <1>2, WaveInvariant, PTL DEF Spec, AbstractSpec, Abstract!Spec
===========================================================================
