------------------------- MODULE ControlPlaneProofs -------------------------
(***************************************************************************)
(* Theorems about ControlPlane, for any configs, services, pools, urls and *)
(* channel size.                                                           *)
(***************************************************************************)
EXTENDS ControlPlane, TLAPS

Applying == {"router", "clear", "limiters", "states", "config"}
              \cup PassiveFields

(* What each task holds at each point of its run.                          *)
Locals ==
  /\ reload_pc \in Applying => new_config \in Configs
  /\ reload_pc \notin {"limiters", "states"} => reload_todo = {}
  /\ reload_pc = "limiters" => reload_todo \subseteq LimitedKeys[new_config]
  /\ reload_pc = "states" => reload_todo \subseteq Urls
  /\ discovery_pc = "swap" => loaded \in Configs
  /\ discovery_pc # "states" => discovery_todo = {}

Inv == TypeOK /\ Locals

(* The sets that describe the configs are what their names say.            *)
LEMMA ConfigTypes ==
  ASSUME NEW c \in Configs
  PROVE  /\ StaticOrigins[c] \subseteq Urls
         /\ PoolNames[c] \subseteq Pools
         /\ LimitedKeys[c] \subseteq Keys
BY ControlPlaneAssumption

(* Both tasks hold a validated config whenever they apply one, and every   *)
(* field of AppState is well typed, under any interleaving of watch_config *)
(* and run_k8s_discovery.                                                  *)
LEMMA LocalsInvariant == Spec => []Inv
<1> USE ControlPlaneAssumption
<1>1. Init => Inv
  <2> SUFFICES ASSUME Init PROVE Inv
    OBVIOUS
  <2>1. router \in [config : Configs, k8s : [Pools -> SUBSET Urls]]
    BY DEF Init, from_config, NoK8s
  <2>2. /\ route_ratelimiters \in [Keys -> Configs \cup {NoConfig}]
        /\ passive \in [PassiveFields -> Configs]
        /\ cluster \in [Services -> Origins \cup {NoOrigin}]
        /\ k8s_origins \in [Pools -> SUBSET Urls]
    BY DEF Init, LimitersOf, NoK8s
  <2>3. /\ origin_states \in SUBSET Urls
        /\ stream \in Seq(Origins \cup {NoOrigin})
    BY ConfigTypes DEF Init
  <2>4. Locals
    BY DEF Init, Locals, Applying, PassiveFields
  <2>5. /\ file \in Contents /\ watching \in BOOLEAN
        /\ reload_pc \in ReloadPCs /\ discovery_pc \in DiscoveryPCs
    BY DEF Init, ReloadPCs, DiscoveryPCs, Contents
  <2>6. /\ events \in 0 .. MaxEvents /\ channel \in 0 .. ChannelSize
        /\ new_config \in Configs \cup {NoConfig} /\ config \in Configs
        /\ loaded \in Configs \cup {NoConfig}
        /\ reload_todo = {} /\ discovery_todo = {}
    BY DEF Init
  <2> QED
    BY <2>1, <2>2, <2>3, <2>4, <2>5, <2>6 DEF Inv, TypeOK
<1>2. Inv /\ [Next]_vars => Inv'
  <2> SUFFICES ASSUME Inv, [Next]_vars PROVE Inv'
    OBVIOUS
  <2> USE DEF Inv, TypeOK, Locals, PassiveFields, ReloadPCs, DiscoveryPCs,
              Contents, Applying, fileVars, reloadVars, clusterVars,
              discoveryVars, appState
  <2>1. ASSUME NEW c \in Edits, edit_file(c) PROVE Inv'
    BY <2>1 DEF edit_file
  <2>2. CASE blocking_send
    BY <2>2 DEF blocking_send
  <2>3. CASE watch
    BY <2>3 DEF watch, ReloadGoto
  <2>4. CASE recv
    BY <2>4 DEF recv, ReloadGoto
  <2>5. CASE debounce
    BY <2>5 DEF debounce, ReloadGoto
  <2>6. CASE drain
    BY <2>6 DEF drain, ReloadGoto
  <2>7. CASE load
    BY <2>7 DEF load, ReloadGoto
  <2>8. CASE swap_router
    BY <2>8 DEF swap_router, ReloadGoto, from_config, NoK8s
  <2>9. CASE clear_ratelimiters
    BY <2>9, ConfigTypes DEF clear_ratelimiters, ReloadGoto
  <2>10. CASE insert_ratelimiter
    <3>1. new_config \in Configs /\ reload_pc = "limiters"
      BY <2>10 DEF insert_ratelimiter, ReloadGoto
    <3>2. ASSUME NEW k \in reload_todo,
                 ReloadGoto("limiters", "limiters"),
                 route_ratelimiters' =
                   [route_ratelimiters EXCEPT ![k] = new_config],
                 reload_todo' = reload_todo \ {k}
          PROVE  Inv'
      BY <2>10, <3>1, <3>2, ConfigTypes DEF insert_ratelimiter, ReloadGoto
    <3>3. ASSUME ReloadGoto("limiters", "states"),
                 reload_todo' = StaticOrigins[new_config],
                 UNCHANGED route_ratelimiters
          PROVE  Inv'
      BY <2>10, <3>1, <3>3, ConfigTypes DEF insert_ratelimiter, ReloadGoto
    <3> QED BY <2>10, <3>2, <3>3 DEF insert_ratelimiter
  <2>11. CASE add_origin_state
    BY <2>11, ConfigTypes DEF add_origin_state, ReloadGoto
  <2>12. CASE store_passive
    BY <2>12 DEF store_passive, ReloadGoto
  <2>13. CASE swap_config
    BY <2>13 DEF swap_config, ReloadGoto
  <2>14. ASSUME NEW s \in Services, apply_service(s) PROVE Inv'
    BY <2>14 DEF apply_service
  <2>15. ASSUME NEW s \in Services, delete_service(s) PROVE Inv'
    BY <2>15 DEF delete_service
  <2>16. CASE next_service
    BY <2>16 DEF next_service, DiscoveryGoto, Origins
  <2>17. CASE next_error
    <3>1. stream' \in Seq(Origins \cup {NoOrigin})
      <4>1. CASE UNCHANGED stream
        BY <4>1
      <4>2. ASSUME NEW q \in Listings,
                   stream' = [i \in DOMAIN q |-> cluster[q[i]]]
            PROVE  stream' \in Seq(Origins \cup {NoOrigin})
        <5>1. PICK n \in 0 .. MaxStream : q \in [1 .. n -> Services]
          BY DEF Listings
        <5> QED BY <4>2, <5>1
      <4> QED BY <2>17, <4>1, <4>2 DEF next_error
    <3> QED BY <2>17, <3>1 DEF next_error, DiscoveryGoto
  <2>18. CASE resume
    BY <2>18 DEF resume, DiscoveryGoto
  <2>19. CASE load_config
    BY <2>19 DEF load_config, DiscoveryGoto
  <2>20. CASE swap_k8s_router
    BY <2>20 DEF swap_k8s_router, DiscoveryGoto, from_config_with_k8s
  <2>21. CASE add_k8s_state
    BY <2>21 DEF add_k8s_state, DiscoveryGoto
  <2>22. CASE UNCHANGED vars
    BY <2>22 DEF vars
  <2> QED
    BY <2>1, <2>2, <2>3, <2>4, <2>5, <2>6, <2>7, <2>8, <2>9, <2>10, <2>11,
       <2>12, <2>13, <2>14, <2>15, <2>16, <2>17, <2>18, <2>19, <2>20, <2>21,
       <2>22 DEF Next, Environment, ReloadStep, RebuildStep
<1> QED BY <1>1, <1>2, PTL DEF Spec

(* Every field of AppState stays well typed: in particular the channel     *)
(* never holds more than its capacity and no task ever applies anything    *)
(* but a validated config.                                                 *)
THEOREM ControlPlaneTypeCorrect == Spec => []TypeOK
<1>1. Inv => TypeOK
  BY DEF Inv
<1> QED
  BY <1>1, LocalsInvariant, PTL

(* Every static origin of config c has its state.                          *)
Covered(c) == StaticOrigins[c] \subseteq origin_states

(* Who owes what: a router that lacks states was swapped in by a task that *)
(* still has them to add.  The config in force is covered, and so is the   *)
(* one rebuild_router has loaded, because the config is swapped last.      *)
StatesInv ==
  /\ Covered(config)
  /\ discovery_pc = "swap" => Covered(loaded)
  /\ reload_pc = "states" =>
       StaticOrigins[new_config] \subseteq origin_states \cup reload_todo
  /\ reload_pc \in PassiveFields \cup {"config"} => Covered(new_config)
  /\ \/ Covered(router.config)
     \/ /\ reload_pc \in {"clear", "limiters", "states"}
        /\ router.config = new_config
  /\ \A p \in Pools : router.k8s[p] \subseteq origin_states \cup discovery_todo

(* No step of watch_config or of run_k8s_discovery breaks StatesInv.       *)
LEMMA StatesInvariant == Spec => []StatesInv
<1> USE ControlPlaneAssumption
<1>1. Init => StatesInv
  BY DEF Init, StatesInv, Covered, from_config, NoK8s, PassiveFields
<1>2. Inv /\ StatesInv /\ [Next]_vars => StatesInv'
  <2> SUFFICES ASSUME Inv, StatesInv, [Next]_vars PROVE StatesInv'
    OBVIOUS
  <2> USE DEF StatesInv, Covered, PassiveFields, fileVars, reloadVars,
              clusterVars, discoveryVars, appState
  <2>1. ASSUME NEW c \in Edits, edit_file(c) PROVE StatesInv'
    BY <2>1 DEF edit_file
  <2>2. CASE blocking_send
    BY <2>2 DEF blocking_send
  <2>3. CASE watch \/ recv \/ debounce \/ drain \/ load
    BY <2>3 DEF watch, recv, debounce, drain, load, ReloadGoto
  <2>4. CASE swap_router
    BY <2>4 DEF swap_router, ReloadGoto, from_config, NoK8s
  <2>5. CASE clear_ratelimiters
    BY <2>5 DEF clear_ratelimiters, ReloadGoto
  <2>6. CASE insert_ratelimiter
    BY <2>6 DEF insert_ratelimiter, ReloadGoto
  <2>7. CASE add_origin_state
    BY <2>7 DEF add_origin_state, ReloadGoto
  <2>8. CASE store_passive
    BY <2>8 DEF store_passive, ReloadGoto
  <2>9. CASE swap_config
    BY <2>9 DEF swap_config, ReloadGoto
  <2>10. ASSUME NEW s \in Services, apply_service(s) \/ delete_service(s)
         PROVE  StatesInv'
    BY <2>10 DEF apply_service, delete_service
  <2>11. CASE next_service \/ next_error \/ resume
    BY <2>11 DEF next_service, next_error, resume, DiscoveryGoto
  <2>12. CASE load_config
    BY <2>12 DEF load_config, DiscoveryGoto
  <2>13. CASE swap_k8s_router
    BY <2>13 DEF swap_k8s_router, DiscoveryGoto, from_config_with_k8s
  <2>14. CASE add_k8s_state
    BY <2>14 DEF add_k8s_state, DiscoveryGoto
  <2>15. CASE UNCHANGED vars
    BY <2>15 DEF vars
  <2> QED
    BY <2>1, <2>2, <2>3, <2>4, <2>5, <2>6, <2>7, <2>8, <2>9, <2>10, <2>11,
       <2>12, <2>13, <2>14, <2>15
    DEF Next, Environment, ReloadStep, RebuildStep
<1> QED
  BY <1>1, <1>2, LocalsInvariant, PTL DEF Spec

(* Whatever the interleaving of reloads with discoveries, once both are    *)
(* done every candidate of the router has an entry in origin_states.       *)
THEOREM CandidatesGetState == Spec => []CandidatesHaveState
<1>1. Inv /\ StatesInv => CandidatesHaveState
  <2> SUFFICES ASSUME Inv, StatesInv, ReloadIdle, DiscoveryIdle
               PROVE  candidates(router) \subseteq origin_states
    BY DEF CandidatesHaveState
  <2>1. discovery_todo = {} /\ Covered(router.config)
    BY DEF Inv, Locals, StatesInv, ReloadIdle, DiscoveryIdle
  <2>2. PoolNames[router.config] \subseteq Pools
    BY ConfigTypes DEF Inv, TypeOK
  <2>3. \A p \in PoolNames[router.config] :
          router.k8s[p] \subseteq origin_states
    BY <2>1, <2>2 DEF StatesInv
  <2> QED BY <2>1, <2>3 DEF candidates, Covered
<1> QED
  BY <1>1, StatesInvariant, LocalsInvariant, PTL

(* The passive settings already stored when watch_config is at pc.         *)
Stored(pc) ==
  CASE pc = "failure_threshold" -> {"enabled"}
    [] pc = "success_threshold" -> {"enabled", "failure_threshold"}
    [] pc = "config" -> PassiveFields
    [] OTHER -> {}

(* Limiters and passive settings are the old config's up to their turn and *)
(* the new config's after it.                                              *)
ReadyInv ==
  /\ ReloadIdle \/ reload_pc \in {"router", "clear"} =>
       route_ratelimiters = LimitersOf(config)
  /\ reload_pc = "limiters" =>
       route_ratelimiters =
         [k \in Keys |-> IF k \in LimitedKeys[new_config] \ reload_todo
                           THEN new_config ELSE NoConfig]
  /\ reload_pc \in PassiveFields \cup {"states", "config"} =>
       route_ratelimiters = LimitersOf(new_config)
  /\ passive = [f \in PassiveFields |->
                  IF f \in Stored(reload_pc) THEN new_config ELSE config]

(* Each of watch_config's stores moves ReadyInv on, and discovery writes   *)
(* neither limiters nor passive settings.                                  *)
LEMMA ReadyInvariant == Spec => []ReadyInv
<1> USE ControlPlaneAssumption
<1>1. Init => ReadyInv
  BY DEF Init, ReadyInv, ReloadIdle, Stored, PassiveFields
<1>2. Inv /\ ReadyInv /\ [Next]_vars => ReadyInv'
  <2> SUFFICES ASSUME Inv, ReadyInv, [Next]_vars PROVE ReadyInv'
    OBVIOUS
  <2> USE DEF ReadyInv, ReloadIdle, LimitersOf, PassiveFields, Stored,
              fileVars, reloadVars, clusterVars, discoveryVars, appState
  <2>1. ASSUME NEW c \in Edits, edit_file(c) PROVE ReadyInv'
    BY <2>1 DEF edit_file
  <2>2. CASE blocking_send
    BY <2>2 DEF blocking_send
  <2>3. CASE watch \/ recv \/ debounce \/ drain
    BY <2>3 DEF watch, recv, debounce, drain, ReloadGoto
  <2>4. CASE load
    BY <2>4 DEF load, ReloadGoto
  <2>5. CASE swap_router
    BY <2>5 DEF swap_router, ReloadGoto
  <2>6. CASE clear_ratelimiters
    BY <2>6 DEF clear_ratelimiters, ReloadGoto
  <2>7. CASE insert_ratelimiter
    BY <2>7 DEF insert_ratelimiter, ReloadGoto, Inv, Locals
  <2>8. CASE add_origin_state
    BY <2>8 DEF add_origin_state, ReloadGoto
  <2>9. CASE store_passive
    BY <2>9 DEF store_passive, ReloadGoto
  <2>10. CASE swap_config
    BY <2>10 DEF swap_config, ReloadGoto
  <2>11. ASSUME NEW s \in Services, apply_service(s) \/ delete_service(s)
         PROVE  ReadyInv'
    BY <2>11 DEF apply_service, delete_service
  <2>12. CASE next_service \/ next_error \/ resume
    BY <2>12 DEF next_service, next_error, resume
  <2>13. CASE load_config \/ swap_k8s_router \/ add_k8s_state
    BY <2>13 DEF load_config, swap_k8s_router, add_k8s_state
  <2>14. CASE UNCHANGED vars
    BY <2>14 DEF vars
  <2> QED
    BY <2>1, <2>2, <2>3, <2>4, <2>5, <2>6, <2>7, <2>8, <2>9, <2>10, <2>11,
       <2>12, <2>13, <2>14 DEF Next, Environment, ReloadStep, RebuildStep
<1> QED
  BY <1>1, <1>2, LocalsInvariant, PTL DEF Spec

(* The order of watch_config's stores, config last, keeps its promise:     *)
(* when no reload is being applied, limiters, passive settings and origin  *)
(* states are those of the config in force.                                *)
THEOREM ConfigIsReady == Spec => []ConfigReady
<1>1. ReadyInv /\ StatesInv => ConfigReady
  BY DEF ReadyInv, StatesInv, Covered, ConfigReady, ReloadIdle, Stored
<1> QED
  BY <1>1, ReadyInvariant, StatesInvariant, PTL

(* With no service the router is written by watch_config alone: it is that *)
(* of the config being applied from its swap on, and of the config in      *)
(* force otherwise.                                                        *)
SoleWriter ==
  /\ stream = << >> /\ discovery_pc = "next"
  /\ router.config =
       IF reload_pc \in Applying \ {"router"} THEN new_config ELSE config

(* Without discovery a reload leaves the router of the config it swapped   *)
(* in: what MCLostUpdate shows broken takes a second writer.               *)
THEOREM RouterIsReloaded ==
  ASSUME Services = {}
  PROVE  Spec => []RouterFollowsConfig
<1> USE ControlPlaneAssumption DEF Applying, PassiveFields
<1>1. Init => SoleWriter
  BY DEF Init, SoleWriter, from_config
<1>2. SoleWriter /\ [Next]_vars => SoleWriter'
  <2> SUFFICES ASSUME SoleWriter, [Next]_vars PROVE SoleWriter'
    OBVIOUS
  <2> USE DEF SoleWriter, ReloadGoto, DiscoveryGoto, fileVars, reloadVars,
              clusterVars, discoveryVars, appState
  <2>1. CASE Environment
    BY <2>1 DEF Environment, edit_file
  <2>2. CASE blocking_send
    BY <2>2 DEF blocking_send
  <2>3. CASE watch \/ recv \/ debounce \/ drain \/ load
    BY <2>3 DEF watch, recv, debounce, drain, load
  <2>4. CASE swap_router
    BY <2>4 DEF swap_router, from_config
  <2>5. CASE clear_ratelimiters
    BY <2>5 DEF clear_ratelimiters
  <2>6. CASE insert_ratelimiter
    BY <2>6 DEF insert_ratelimiter
  <2>7. CASE add_origin_state
    BY <2>7 DEF add_origin_state
  <2>8. CASE store_passive
    BY <2>8 DEF store_passive
  <2>9. CASE swap_config
    BY <2>9 DEF swap_config
  <2>10. CASE next_service
    BY <2>10 DEF next_service
  <2>11. CASE resume \/ RebuildStep
    BY <2>11 DEF resume, RebuildStep, load_config, swap_k8s_router,
                 add_k8s_state
  <2>12. CASE UNCHANGED vars
    BY <2>12 DEF vars
  <2> QED
    BY <2>1, <2>2, <2>3, <2>4, <2>5, <2>6, <2>7, <2>8, <2>9, <2>10, <2>11,
       <2>12 DEF Next, ReloadStep
<1>3. SoleWriter => RouterFollowsConfig
  BY DEF SoleWriter, RouterFollowsConfig, ReloadIdle
<1> QED
  BY <1>1, <1>2, <1>3, PTL DEF Spec
=============================================================================
