---------------------------- MODULE AutoConfig ----------------------------
(***************************************************************************)
(* How a deployment gets its configuration (moe_offload/autoconfig.py,     *)
(* _apply_env_defaults_from_gb in patches/patch_fused_moe.py, launcher.py).*)
(* The settings are environment variables.  The user exports some; the     *)
(* plugin adds the others twice, first when it is registered, before the   *)
(* model is known, then when the engine arguments are; worker processes    *)
(* inherit them and are registered once more.                              *)
(*                                                                         *)
(* A setting that may be absent is a set with at most one element.  Sizes  *)
(* are in units small enough to be integers.                               *)
(***************************************************************************)
EXTENDS Integers, Sequences, FiniteSetsExt

CONSTANTS
    DefaultModel,   \* _DEFAULT_QWEN3_30B_A3B_CONFIG
    Models,         \* the models that may be served
    Shells,         \* what the user may have set and asked for
    Readings,       \* answers of torch.npu.mem_get_info, {} for none
    Profiles,       \* prefill profiles: sequences of measured events
    Workers,
    ReferenceTarget \* _REFERENCE_OFFLOAD_GB_FOR_SLOTS, in units

VARIABLES
    shell,      \* what the user set and asked for
    model,      \* the model that is served
    profile,    \* the profile VLLM_..._PREFILL_RESIDENCY_PROFILE names
    stage,      \* how far the engine process has come
    env,        \* its environment
    plan,       \* _ascend_moe_offload_autoconfig_plan
    workers,    \* the environment of each worker process
    loaded      \* MoeOffloadConfig of each worker

vars == <<shell, model, profile, stage, env, plan, workers, loaded>>

Lesser(m, n) == IF m <= n THEN m ELSE n
Greater(m, n) == IF m >= n THEN m ELSE n
Smallest(S) == CHOOSE m \in S : \A n \in S : m <= n
CeilDiv(m, n) == (m + n - 1) \div n

\* Python's round(m / n): halves go to the even neighbour.
Rounded(m, n) ==
    LET r == (2 * m + n) \div (2 * n)
    IN  IF (2 * m + n) % (2 * n) = 0 /\ r % 2 = 1 THEN r - 1 ELSE r

\* os.environ.setdefault
Default(setting, value) == IF setting = {} THEN {value} ELSE setting
Setting(s) == CHOOSE value \in s : TRUE

--------------------------------------------------------------------------
(***************************************************************************)
(* Which layers are offloaded.                                             *)
(***************************************************************************)
Layers(m) == 0 .. (m.layers - 1)
LayerSize(m) == m.expert * m.experts

PrefetchGroupSize == 4
Group(m) == Lesser(PrefetchGroupSize, m.layers)

OffloadedPerGroup(gb, m) ==
    LET groups == CeilDiv(m.layers, Group(m))
    IN  Lesser(Group(m), Greater(1, Rounded(gb, LayerSize(m) * groups)))

\* derive_prefetch_defaults: the last ones of each group.
GroupBased(gb, m) ==
    {l \in Layers(m) : l % Group(m) >= Group(m) - OffloadedPerGroup(gb, m)}

\* The events of a profile that tell what the prefill of a layer costs, and the
\* cost of each layer that has one: the sum, not the mean.
CostEvents(events) ==
    {i \in DOMAIN events :
        /\ events[i].name \in {"b2_work_conserving_prefill", "prefill_resident_native"}
        /\ events[i].layer >= 0}
Score(events, layer) ==
    MapThenSumSet(LAMBDA i : events[i].ms,
                  {i \in CostEvents(events) : events[i].layer = layer})
Costs(events) ==
    [layer \in {events[i].layer : i \in CostEvents(events)} |-> Score(events, layer)]

\* The place of l among the layers of S, the dear ones first or the cheap ones,
\* equals by number.
DearerIn(S, cost, l) ==
    Cardinality({k \in S : cost[k] > cost[l] \/ (cost[k] = cost[l] /\ k < l)})
CheaperIn(S, cost, l) ==
    Cardinality({k \in S : cost[k] < cost[l] \/ (cost[k] = cost[l] /\ k < l)})

\* plan_profile_guided_prefill_residency: the dearest offloaded layer changes
\* places with the cheapest resident one, and so on while that pays.
ProfileGuided(offloaded, m, cost) ==
    LET measured == Layers(m) \cap DOMAIN cost
        dear == offloaded \cap measured
        cheap == measured \ offloaded
        swaps == {p \in dear \X cheap :
                    /\ DearerIn(dear, cost, p[1]) = CheaperIn(cheap, cost, p[2])
                    /\ cost[p[1]] > cost[p[2]]}
    IN  (offloaded \ {p[1] : p \in swaps}) \cup {p[2] : p \in swaps}

Offloaded(gb, m, sew) ==
    IF sew THEN ProfileGuided(GroupBased(gb, m), m, Costs(profile)) ELSE GroupBased(gb, m)

--------------------------------------------------------------------------
(***************************************************************************)
(* How many slots each of them gets.                                       *)
(***************************************************************************)
PrefillBuffers == 2
SlotPercent == 12

\* _target_b2_waves_for_offload
TargetWaves(gb) == Greater(2, CeilDiv(4 * ReferenceTarget, gb))

\* What offloading saves, less the quarter that is to remain saved.
NetSaving(m, offloaded) ==
    LET saved == Cardinality(offloaded) * LayerSize(m) IN saved - CeilDiv(saved, 4)

\* The memory the slot banks may take: within the saving, the free memory and a
\* share of the device, after the reserve for the KV cache, the activations and
\* the system.
SlotBudget(m, offloaded, reading) ==
    Smallest({Greater(0, NetSaving(m, offloaded) - m.reserve)}
             \cup {Greater(0, r.usable - m.reserve) : r \in reading}
             \cup {(r.total * SlotPercent) \div 100 : r \in reading})

\* suggest_num_slots: enough for a decode step and for the waves aimed at, if the
\* budget allows, and one in any case.
WantedSlots(gb, m, batch) ==
    Greater(1, Greater(Lesser(m.topK * batch, m.experts),
                       CeilDiv(m.experts, TargetWaves(gb))))
AffordableSlots(m, banks, budget) == Greater(1, budget \div (m.expert * banks))

NumSlots(gb, m, batch, offloaded, reading) ==
    LET banks == Cardinality(offloaded) + PrefillBuffers
        affordable == AffordableSlots(m, banks, SlotBudget(m, offloaded, reading))
    IN  Lesser(m.experts, Lesser(WantedSlots(gb, m, batch), affordable))

--------------------------------------------------------------------------
(***************************************************************************)
(* The two applications of the defaults to an environment.                 *)
(***************************************************************************)

\* _DEFAULT_ENV_VARS and _SEW_DATAPLANE_ENV_VARS
Layered(e) == Default(e.layered, ~shell.sew)
Release(e) == IF shell.sew THEN Default(e.release, TRUE) ELSE e.release

\* _apply_env_defaults_from_gb: for the default model, whatever is served.
Bootstrapped(e, reading) ==
    LET offloaded == Offloaded(e.gb, DefaultModel, shell.sew)
        slots == Default(e.slots, NumSlots(e.gb, DefaultModel, 1, offloaded, reading))
    IN  [gb |-> e.gb,
         slots |-> slots,
         boot |-> IF e.slots = {} THEN TRUE ELSE e.boot,
         fanout |-> IF e.fanout = {} THEN slots ELSE e.fanout,
         resident |-> Default(e.resident, Layers(DefaultModel) \ offloaded),
         layered |-> Layered(e),
         release |-> Release(e)]

Bootstrap(e, reading) == IF e.gb > 0 THEN Bootstrapped(e, reading) ELSE e

\* _load_model_config_dict finds the config.json of a local directory only.
PlanModel == IF shell.local THEN model ELSE DefaultModel

\* The layers apply_moe_offload_defaults plans to offload.
PlanOffloaded == Offloaded(env.gb, PlanModel, shell.sew /\ env.resident = {})

ExplicitSlots == env.slots # {} /\ ~env.boot

\* apply_moe_offload_defaults
Configured(reading) ==
    LET slots == IF ExplicitSlots THEN env.slots
                 ELSE {NumSlots(env.gb, PlanModel, shell.batch, PlanOffloaded, reading)}
    IN  [gb |-> env.gb,
         slots |-> slots,
         boot |-> FALSE,
         fanout |-> IF env.fanout = {} THEN slots ELSE env.fanout,
         resident |-> Default(env.resident, Layers(PlanModel) \ PlanOffloaded),
         layered |-> Layered(env),
         release |-> Release(env)]

--------------------------------------------------------------------------
(***************************************************************************)
(* The engine process.                                                     *)
(***************************************************************************)
Init ==
    /\ shell \in Shells /\ model \in Models /\ profile \in Profiles
    /\ stage = "started"
    /\ env = [gb |-> shell.gbEnv, slots |-> shell.slots, boot |-> FALSE,
              fanout |-> shell.fanout, resident |-> shell.resident,
              layered |-> shell.layered, release |-> shell.release]
    /\ plan = {}
    /\ workers = [w \in Workers |-> {}]
    /\ loaded = [w \in Workers |-> {}]

\* inspect_environment: some defects are errors in strict mode only.
Warnings ==
    IF shell.strict THEN {}
    ELSE {"runtime_not_git", "runtime_dirty", "vllm_not_git"}
             \ (IF shell.pinned THEN {"runtime_not_git"} ELSE {})
Errors == shell.defects \ Warnings

\* latchmoe serve; vLLM's own command goes without.
Launch ==
    /\ stage = "started"
    /\ stage' = IF shell.launcher /\ (Errors # {} \/ shell.prefixCaching)
                THEN "refused" ELSE "launched"
    /\ UNCHANGED <<shell, model, profile, env, plan, workers, loaded>>

\* register(), by the plugin loader: with COMPAT_ONLY nothing below is installed.
Register ==
    /\ stage = "launched"
    /\ IF shell.compatOnly
       THEN stage' = "native" /\ UNCHANGED env
       ELSE /\ stage' = "registered"
            /\ \E reading \in Readings : env' = Bootstrap(env, reading)
    /\ UNCHANGED <<shell, model, profile, plan, workers, loaded>>

\* NPUPlatform.pre_register_and_update: the defaults again, and the option.
PreRegister ==
    /\ stage = "registered"
    /\ stage' = "parsing"
    /\ \E reading \in Readings : env' = Bootstrap(env, reading)
    /\ UNCHANGED <<shell, model, profile, plan, workers, loaded>>

\* --ascend-moe-offload-gb
ParseArguments ==
    /\ stage = "parsing"
    /\ stage' = "parsed"
    /\ env' = [env EXCEPT !.gb = IF shell.gbCli = {} THEN env.gb ELSE Setting(shell.gbCli)]
    /\ UNCHANGED <<shell, model, profile, plan, workers, loaded>>

\* EngineArgs.create_engine_config without a target: vLLM as it is.
ConfigureNative ==
    /\ stage = "parsed" /\ env.gb = 0
    /\ stage' = "native"
    /\ UNCHANGED <<shell, model, profile, env, plan, workers, loaded>>

\* Contradictions between the settings, and models without experts.
Conflict ==
    \/ shell.uva
    \/ Layered(env) = {TRUE} /\ Release(env) = {TRUE}
    \/ shell.sew /\ shell.nativePrefetch
    \/ PlanModel.experts = 0

\* Only the UVA check precedes the first defaults.
ConfigureRaises ==
    /\ stage = "parsed" /\ env.gb > 0
    /\ Conflict
    /\ stage' = "refused"
    /\ env' = IF shell.uva THEN env
              ELSE [env EXCEPT !.layered = Layered(env), !.release = Release(env)]
    /\ UNCHANGED <<shell, model, profile, plan, workers, loaded>>

\* _ensure_moe_offload_splitting_op, of the final configuration: a full graph
\* would capture the staging op.
GraphHidesStaging == shell.sew /\ shell.graphs = "full"

\* EngineArgs.create_engine_config, which may be called again.
Configure ==
    /\ stage \in {"parsed", "configured"} /\ env.gb > 0
    /\ ~Conflict
    /\ stage' = IF GraphHidesStaging THEN "refused" ELSE "configured"
    /\ \E reading \in Readings :
          /\ env' = Configured(reading)
          /\ plan' = {[offloaded |-> PlanOffloaded,
                       budget |-> SlotBudget(PlanModel, PlanOffloaded, reading)]}
    /\ UNCHANGED <<shell, model, profile, workers, loaded>>

--------------------------------------------------------------------------
(***************************************************************************)
(* The worker processes, which vLLM starts with the engine's configuration.*)
(***************************************************************************)
Spawn(w) ==
    /\ stage = "configured" /\ workers[w] = {}
    /\ workers' = [workers EXCEPT ![w] = {env}]
    /\ UNCHANGED <<shell, model, profile, stage, env, plan, loaded>>

RegisterWorker(w) ==
    /\ \E e \in workers[w], reading \in Readings :
          workers' = [workers EXCEPT ![w] = {Bootstrap(e, reading)}]
    /\ UNCHANGED <<shell, model, profile, stage, env, plan, loaded>>

\* MoeOffloadConfig.from_env
RuntimeConfig(e) == [numSlots |-> e.slots, resident |-> e.resident,
                     fanout |-> e.fanout, release |-> e.release = {TRUE}]

LoadRuntime(w) ==
    /\ \E e \in workers[w] : loaded' = [loaded EXCEPT ![w] = {RuntimeConfig(e)}]
    /\ UNCHANGED <<shell, model, profile, stage, env, plan, workers>>

Next ==
    \/ Launch
    \/ Register
    \/ PreRegister
    \/ ParseArguments
    \/ ConfigureNative
    \/ ConfigureRaises
    \/ Configure
    \/ \E w \in Workers : Spawn(w) \/ RegisterWorker(w) \/ LoadRuntime(w)

Spec == Init /\ [][Next]_vars

--------------------------------------------------------------------------
(***************************************************************************)
(* The slot banks of a worker fit the budget they were planned with, unless*)
(* the user chose the layers or the slots, or the budget is below one slot *)
(* per layer ("derives resident layers and slot capacity at startup,       *)
(* bounded by physical HBM, KV-cache reserve, and a minimum net-saving     *)
(* constraint", README.md).                                                *)
(***************************************************************************)
SlotBanksFitTheBudget ==
    \A w \in Workers : \A c \in loaded[w] : \A p \in plan :
        shell.slots = {} /\ shell.resident = {} /\ shell.local /\ c.numSlots # {1} =>
            LET banks == Layers(model) \ Setting(c.resident)
            IN  Cardinality(banks) * Setting(c.numSlots) * model.expert <= p.budget

(***************************************************************************)
(* Once the engine is configured its settings stay: neither another engine *)
(* configuration nor the registrations in the workers, which see less free *)
(* memory, derive them anew.                                               *)
(***************************************************************************)
ConfigurationStays == [][stage = "configured" => UNCHANGED env]_vars

(***************************************************************************)
(* All processes agree on the layout: a worker runs with the slots, the    *)
(* resident layers and the release setting of the engine, which plans the  *)
(* KV cache and the graphs with them.                                      *)
(***************************************************************************)
WorkersAgree ==
    \A w \in Workers : \A c \in loaded[w] : c = RuntimeConfig(env)
===========================================================================
