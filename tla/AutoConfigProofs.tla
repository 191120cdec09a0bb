------------------------- MODULE AutoConfigProofs -------------------------
(***************************************************************************)
(* The environment of a configured engine is a fixed point: every setting  *)
(* the defaults would add is there and the slots are not preliminary, so   *)
(* that neither application of the defaults changes it.                    *)
(***************************************************************************)
EXTENDS AutoConfig, TLAPS

\* e is an environment and nothing else.
IsEnvironment(e) ==
    e = [gb |-> e.gb, slots |-> e.slots, boot |-> e.boot, fanout |-> e.fanout,
         resident |-> e.resident, layered |-> e.layered, release |-> e.release]

Settled(e) ==
    /\ IsEnvironment(e)
    /\ e.slots # {} /\ e.boot = FALSE
    /\ e.fanout # {} /\ e.resident # {} /\ e.layered # {}
    /\ shell.sew => e.release # {}

IInv ==
    /\ stage = "configured" => Settled(env) /\ ~GraphHidesStaging
    /\ workers = [w \in Workers |-> workers[w]]
    /\ loaded = [w \in Workers |-> loaded[w]]
    /\ \A w \in Workers :
          /\ workers[w] # {} => stage = "configured" /\ workers[w] = {env}
          /\ loaded[w] # {} => stage = "configured" /\ loaded[w] = {RuntimeConfig(env)}

(***************************************************************************)
(* What apply_moe_offload_defaults leaves is settled.                      *)
(***************************************************************************)
LEMMA ConfiguredSettles ==
    ASSUME NEW reading
    PROVE  Settled(Configured(reading))
<1> DEFINE s == IF ExplicitSlots THEN env.slots
                ELSE {NumSlots(env.gb, PlanModel, shell.batch, PlanOffloaded, reading)}
           c == Configured(reading)
<1>1. s # {}
  BY DEF ExplicitSlots
<1>2. c = [gb |-> env.gb, slots |-> s, boot |-> FALSE,
           fanout |-> IF env.fanout = {} THEN s ELSE env.fanout,
           resident |-> Default(env.resident, Layers(PlanModel) \ PlanOffloaded),
           layered |-> Layered(env), release |-> Release(env)]
  BY DEF Configured
<1>3. /\ \A S, v : Default(S, v) # {}
      /\ Layered(env) # {} /\ (shell.sew => Release(env) # {})
  BY DEF Default, Layered, Release
<1> HIDE DEF s, c
<1>4. IsEnvironment(c)
  BY <1>2 DEF IsEnvironment
<1>5. c.slots # {} /\ c.boot = FALSE /\ c.fanout # {} /\ c.resident # {}
      /\ c.layered # {} /\ (shell.sew => c.release # {})
  BY <1>1, <1>2, <1>3
<1>6. Settled(c)
  BY <1>4, <1>5 DEF Settled
<1> QED BY <1>6 DEF c

(***************************************************************************)
(* apply_moe_offload_defaults does not change settled settings.            *)
(***************************************************************************)
LEMMA ConfiguredIsIdempotent ==
    ASSUME NEW reading, Settled(env)
    PROVE  Configured(reading) = env
<1>1. ExplicitSlots
  BY DEF Settled, ExplicitSlots
<1>2. /\ \A v : Default(env.resident, v) = env.resident
      /\ Layered(env) = env.layered /\ Release(env) = env.release
  BY DEF Settled, Default, Layered, Release
<1>3. Configured(reading) =
         [gb |-> env.gb, slots |-> env.slots, boot |-> env.boot, fanout |-> env.fanout,
          resident |-> env.resident, layered |-> env.layered, release |-> env.release]
  BY <1>1, <1>2 DEF Settled, Configured
<1> QED BY <1>3 DEF Settled, IsEnvironment

(***************************************************************************)
(* Nor does a registration, whatever memory it finds free.                 *)
(***************************************************************************)
LEMMA BootstrapIsIdempotent ==
    ASSUME NEW e, NEW reading, Settled(e)
    PROVE  Bootstrap(e, reading) = e
<1>1. /\ \A v : Default(e.resident, v) = e.resident
      /\ \A v : Default(e.slots, v) = e.slots
      /\ Layered(e) = e.layered /\ Release(e) = e.release
  BY DEF Settled, Default, Layered, Release
<1>2. Bootstrapped(e, reading) =
         [gb |-> e.gb, slots |-> e.slots, boot |-> e.boot, fanout |-> e.fanout,
          resident |-> e.resident, layered |-> e.layered, release |-> e.release]
  BY <1>1 DEF Settled, Bootstrapped
<1> QED BY <1>2 DEF Settled, IsEnvironment, Bootstrap

(***************************************************************************)
(* What a step that keeps the environment keeps.                           *)
(***************************************************************************)
LEMMA Kept ==
    ASSUME env' = env, shell' = shell
    PROVE  /\ Settled(env)' = Settled(env) /\ RuntimeConfig(env)' = RuntimeConfig(env)
           /\ GraphHidesStaging' = GraphHidesStaging
BY DEF Settled, IsEnvironment, RuntimeConfig, GraphHidesStaging

(***************************************************************************)
(* A settled environment stays what it is.                                 *)
(***************************************************************************)
LEMMA Invariance == Spec => []IInv
<1>1. Init => IInv
  BY DEF Init, IInv
<1>2. IInv /\ [Next]_vars => IInv'
  <2> SUFFICES ASSUME IInv, [Next]_vars PROVE IInv'
    OBVIOUS
  <2> USE DEF IInv
  <2>1. CASE Launch
    BY <2>1 DEF Launch
  <2>2. CASE Register
    BY <2>2 DEF Register
  <2>3. CASE PreRegister
    BY <2>3 DEF PreRegister
  <2>4. CASE ParseArguments
    BY <2>4 DEF ParseArguments
  <2>5. CASE ConfigureNative
    BY <2>5 DEF ConfigureNative
  <2>6. CASE ConfigureRaises
    BY <2>6 DEF ConfigureRaises
  <2>7. CASE Configure
    <3>1. PICK reading \in Readings : env' = Configured(reading)
      BY <2>7 DEF Configure
    <3>2. shell' = shell /\ workers' = workers /\ loaded' = loaded
      BY <2>7 DEF Configure
    <3>3. GraphHidesStaging' = GraphHidesStaging
          /\ stage' = IF GraphHidesStaging THEN "refused" ELSE "configured"
      BY <2>7, <3>2 DEF Configure, GraphHidesStaging
    <3>4. Settled(env)'
      <4>1. Settled(Configured(reading))
        BY ConfiguredSettles
      <4> QED BY <3>1, <3>2, <4>1 DEF Settled, IsEnvironment
    <3>5. CASE stage = "parsed"
      <4>1. \A w \in Workers : workers[w] = {} /\ loaded[w] = {}
        BY <3>5
      <4> QED BY <3>2, <3>4, <3>3, <4>1
    <3>6. CASE stage = "configured"
      <4>1. env' = env
        BY <3>1, <3>6, ConfiguredIsIdempotent
      <4>2. RuntimeConfig(env)' = RuntimeConfig(env)
        BY <4>1 DEF RuntimeConfig
      <4>3. stage' = "configured" /\ Settled(env)' /\ ~GraphHidesStaging'
        BY <3>4, <3>6, <3>3
      <4>4. \A w \in Workers :
               /\ workers'[w] # {} => stage = "configured" /\ workers'[w] = {env'}
               /\ loaded'[w] # {} =>
                     stage = "configured" /\ loaded'[w] = {RuntimeConfig(env)'}
        BY <3>2, <4>1, <4>2
      <4> QED BY <3>2, <3>6, <4>3, <4>4
    <3> QED BY <2>7, <3>5, <3>6 DEF Configure
  <2>8. ASSUME NEW w \in Workers, Spawn(w) PROVE IInv'
    <3>1. /\ stage = "configured" /\ stage' = stage /\ env' = env /\ shell' = shell
          /\ workers' = [workers EXCEPT ![w] = {env}] /\ loaded' = loaded
      BY <2>8 DEF Spawn
    <3> QED BY <3>1, Kept
  <2>9. ASSUME NEW w \in Workers, RegisterWorker(w) PROVE IInv'
    <3>1. /\ stage' = stage /\ env' = env /\ shell' = shell /\ loaded' = loaded
      BY <2>9 DEF RegisterWorker
    <3>2. PICK e \in workers[w], reading \in Readings :
             workers' = [workers EXCEPT ![w] = {Bootstrap(e, reading)}]
      BY <2>9 DEF RegisterWorker
    <3>3. e = env /\ stage = "configured" /\ Settled(env)
      OBVIOUS
    <3>4. workers' = [workers EXCEPT ![w] = {env}]
      BY <3>2, <3>3, BootstrapIsIdempotent
    <3> QED BY <3>1, <3>3, <3>4, Kept
  <2>10. ASSUME NEW w \in Workers, LoadRuntime(w) PROVE IInv'
    <3>1. /\ stage' = stage /\ env' = env /\ shell' = shell /\ workers' = workers
      BY <2>10 DEF LoadRuntime
    <3>2. PICK e \in workers[w] : loaded' = [loaded EXCEPT ![w] = {RuntimeConfig(e)}]
      BY <2>10 DEF LoadRuntime
    <3>3. e = env /\ stage = "configured"
      OBVIOUS
    <3>4. loaded' = [loaded EXCEPT ![w] = {RuntimeConfig(env)}]
      BY <3>2, <3>3
    <3> QED BY <3>1, <3>3, <3>4, Kept
  <2>11. CASE UNCHANGED vars
    BY <2>11, Kept DEF vars
  <2> QED BY <2>1, <2>2, <2>3, <2>4, <2>5, <2>6, <2>7, <2>8, <2>9, <2>10, <2>11 DEF Next
<1> QED BY <1>1, <1>2, PTL DEF Spec

(***************************************************************************)
(* A worker runs with the slots, the resident layers and the release       *)
(* setting of the engine, however often each of them is configured or      *)
(* registered and whatever memory it finds free when it is.                *)
(***************************************************************************)
THEOREM AllProcessesAgree == Spec => []WorkersAgree
<1>1. IInv => WorkersAgree
  BY DEF IInv, WorkersAgree
<1> QED BY <1>1, Invariance, PTL

(***************************************************************************)
(* The settings of a configured engine stay as they are.                   *)
(***************************************************************************)
THEOREM ConfiguredOnce == Spec => ConfigurationStays
<1>1. IInv /\ [Next]_vars => [stage = "configured" => UNCHANGED env]_vars
  <2> SUFFICES ASSUME IInv, Next, stage = "configured" PROVE UNCHANGED env
    BY DEF vars
  <2>1. CASE Configure
    BY <2>1, ConfiguredIsIdempotent DEF Configure, IInv
  <2> QED BY <2>1 DEF Next, Launch, Register, PreRegister, ParseArguments, ConfigureNative,
                      ConfigureRaises, Spawn, RegisterWorker, LoadRuntime
<1> QED BY <1>1, Invariance, PTL DEF Spec, ConfigurationStays
===========================================================================
