--------------------------- MODULE RequestsProofs ---------------------------
(***************************************************************************)
(* Theorems about Requests, for any number of handlers, any configs and    *)
(* services.  They rest on the invariants of ControlPlaneProofs: handlers  *)
(* only read, so every behaviour of Requests is one of ControlPlane.       *)
(***************************************************************************)
EXTENDS Requests, ControlPlaneProofs

(* Requests take nothing away from reload and discovery and add nothing.   *)
LEMMA RequestsOnlyRead == RequestsSpec => Spec
<1>1. RequestsInit => Init
  BY DEF RequestsInit
<1>2. [RequestsNext]_requestsVars => [Next]_vars
  BY DEF RequestsNext, ControlStep, requestsVars
<1> QED BY <1>1, <1>2, PTL DEF RequestsSpec, Spec

(* Of AppState's map of origin states nothing is ever removed.             *)
LEMMA StatesOnlyGrow ==
  ASSUME [Next]_vars
  PROVE  origin_states \subseteq origin_states'
<1> USE DEF fileVars, reloadVars, clusterVars, discoveryVars, appState
<1>1. CASE Environment
  BY <1>1 DEF Environment, edit_file, apply_service, delete_service, next_error
<1>2. CASE blocking_send
  BY <1>2 DEF blocking_send
<1>3. CASE watch \/ recv \/ debounce \/ drain \/ load
  BY <1>3 DEF watch, recv, debounce, drain, load
<1>4. CASE swap_router \/ clear_ratelimiters \/ insert_ratelimiter
  BY <1>4 DEF swap_router, clear_ratelimiters, insert_ratelimiter
<1>5. CASE add_origin_state
  BY <1>5 DEF add_origin_state
<1>6. CASE store_passive \/ swap_config
  BY <1>6 DEF store_passive, swap_config
<1>7. CASE next_service \/ resume \/ load_config \/ swap_k8s_router
  BY <1>7 DEF next_service, resume, load_config, swap_k8s_router
<1>8. CASE add_k8s_state
  BY <1>8 DEF add_k8s_state
<1>9. CASE UNCHANGED vars
  BY <1>9 DEF vars
<1> QED
  BY <1>1, <1>2, <1>3, <1>4, <1>5, <1>6, <1>7, <1>8, <1>9
  DEF Next, ReloadStep, RebuildStep

(* What a task owes of origin states, it adds before it forgets it.        *)
LEMMA OwedIsPaid ==
  ASSUME Inv, [Next]_vars
  PROVE  origin_states \cup Owed \subseteq (origin_states \cup Owed)'
<1> USE DEF Owed, Inv, Locals, fileVars, reloadVars, clusterVars,
            discoveryVars, appState
<1>1. CASE Environment
  BY <1>1 DEF Environment, edit_file, apply_service, delete_service,
              next_error, DiscoveryGoto
<1>2. CASE blocking_send
  BY <1>2 DEF blocking_send
<1>3. CASE watch \/ recv \/ debounce \/ drain \/ load
  BY <1>3 DEF watch, recv, debounce, drain, load, ReloadGoto
<1>4. CASE swap_router \/ clear_ratelimiters
  BY <1>4 DEF swap_router, clear_ratelimiters, ReloadGoto
<1>5. CASE insert_ratelimiter
  BY <1>5 DEF insert_ratelimiter, ReloadGoto
<1>6. CASE add_origin_state
  BY <1>6 DEF add_origin_state, ReloadGoto, PassiveFields
<1>7. CASE store_passive \/ swap_config
  BY <1>7 DEF store_passive, swap_config, ReloadGoto
<1>8. CASE next_service \/ resume \/ load_config
  BY <1>8 DEF next_service, resume, load_config, DiscoveryGoto
<1>9. CASE swap_k8s_router
  BY <1>9 DEF swap_k8s_router, DiscoveryGoto
<1>10. CASE add_k8s_state
  BY <1>10 DEF add_k8s_state, DiscoveryGoto
<1>11. CASE UNCHANGED vars
  BY <1>11 DEF vars
<1> QED
  BY <1>1, <1>2, <1>3, <1>4, <1>5, <1>6, <1>7, <1>8, <1>9, <1>10, <1>11
  DEF Next, ReloadStep, RebuildStep

(* A candidate of the router has its state or is owed one by the task that *)
(* swapped the router in.                                                  *)
LEMMA CandidatesAreOwed ==
  ASSUME Inv, StatesInv
  PROVE  candidates(router) \subseteq origin_states \cup Owed
<1>1. router.config \in Configs
  BY DEF Inv, TypeOK
<1>2. StaticOrigins[router.config] \subseteq origin_states \cup Owed
  BY DEF StatesInv, Covered, Owed
<1>3. \A p \in PoolNames[router.config] :
        router.k8s[p] \subseteq origin_states \cup Owed
  BY <1>1, ConfigTypes DEF StatesInv, Owed
<1> QED BY <1>2, <1>3 DEF candidates

(* The config in force changes only when a reload has one in hand.         *)
LEMMA ConfigStays ==
  ASSUME Inv, [Next]_vars, new_config = NoConfig
  PROVE  config' = config
<1> USE DEF fileVars, reloadVars, clusterVars, discoveryVars, appState
<1>1. CASE Environment
  BY <1>1 DEF Environment, edit_file, apply_service, delete_service, next_error
<1>2. CASE blocking_send
  BY <1>2 DEF blocking_send
<1>3. CASE watch \/ recv \/ debounce \/ drain \/ load
  BY <1>3 DEF watch, recv, debounce, drain, load
<1>4. CASE swap_router \/ clear_ratelimiters \/ insert_ratelimiter
  BY <1>4 DEF swap_router, clear_ratelimiters, insert_ratelimiter
<1>5. CASE add_origin_state \/ store_passive
  BY <1>5 DEF add_origin_state, store_passive
<1>6. CASE swap_config
  BY <1>6, ControlPlaneAssumption
  DEF swap_config, ReloadGoto, Inv, Locals, Applying
<1>7. CASE next_service \/ resume \/ RebuildStep
  BY <1>7 DEF next_service, resume, RebuildStep, load_config,
              swap_k8s_router, add_k8s_state
<1>8. CASE UNCHANGED vars
  BY <1>8 DEF vars
<1> QED
  BY <1>1, <1>2, <1>3, <1>4, <1>5, <1>6, <1>7, <1>8 DEF Next, ReloadStep

(* A handler without a request is well typed.                              *)
LEMMA IdleIsRequest ==
  /\ Idle \in Request
  /\ \A r \in Request, s \in Statuses : Answered(r, s) \in Request
<1>1. Idle \in Request
  <2>1. (CHOOSE k \in Keys : TRUE) \in Keys
    BY RequestsAssumption
  <2> QED
    BY <2>1, ControlPlaneAssumption DEF Idle, Request, Statuses
<1> QED
  BY <1>1, ZenonT(40) DEF Answered, Request

(* The types of what reload and discovery, match_route, check_limit,       *)
(* select_origin and proxied make of a request.                            *)
LEMMA Updates ==
  ASSUME NEW r \in Request
  PROVE  /\ \A S \in SUBSET Configs, b \in BOOLEAN :
              [r EXCEPT !.seen = S, !.quiet = b] \in Request
         /\ \A l \in Configs \cup {NoConfig, Global} :
              [r EXCEPT !.phase = "select", !.limiter = l] \in Request
         /\ \A u \in Urls, k \in Keys, c \in Configs,
              S \in SUBSET Configs, b \in BOOLEAN :
              [r EXCEPT !.phase = "await", !.origin = u, !.key = k,
                        !.config = c, !.seen = S, !.quiet = b] \in Request
         /\ \A p \in {"enabled", "done"}, S \in SUBSET Configs,
              b \in BOOLEAN :
              [r EXCEPT !.phase = p, !.seen = S, !.quiet = b] \in Request
         /\ \A k \in Keys, c \in Configs, U \in SUBSET Urls,
              S \in SUBSET Configs, b \in BOOLEAN, o \in BOOLEAN :
              [r EXCEPT !.phase = "limit", !.key = k, !.config = c,
                        !.origins = U, !.seen = S, !.quiet = b,
                        !.stale = o] \in Request
<1>1. \A S \in SUBSET Configs, b \in BOOLEAN :
        [r EXCEPT !.seen = S, !.quiet = b] \in Request
  BY ZenonT(60) DEF Request
<1>2. \A l \in Configs \cup {NoConfig, Global} :
        [r EXCEPT !.phase = "select", !.limiter = l] \in Request
  BY ZenonT(60) DEF Request
<1>3. \A u \in Urls, k \in Keys, c \in Configs,
        S \in SUBSET Configs, b \in BOOLEAN :
        [r EXCEPT !.phase = "await", !.origin = u, !.key = k,
                  !.config = c, !.seen = S, !.quiet = b] \in Request
  BY ZenonT(60) DEF Request
<1>4. \A k \in Keys, c \in Configs, U \in SUBSET Urls,
        S \in SUBSET Configs, b \in BOOLEAN, o \in BOOLEAN :
        [r EXCEPT !.phase = "limit", !.key = k, !.config = c,
                  !.origins = U, !.seen = S, !.quiet = b,
                  !.stale = o] \in Request
  BY ZenonT(60) DEF Request
<1>5. \A p \in {"enabled", "done"}, S \in SUBSET Configs, b \in BOOLEAN :
        [r EXCEPT !.phase = p, !.seen = S, !.quiet = b] \in Request
  BY ZenonT(60) DEF Request, PassiveFields
<1> QED BY <1>1, <1>2, <1>3, <1>4, <1>5

(* A refusal keeps nothing of the request but its key and its history.     *)
LEMMA AnsweredFields ==
  \A r \in Request, s \in Statuses :
    /\ Answered(r, s).phase = "done" /\ Answered(r, s).status = s
    /\ Answered(r, s).key = r.key /\ Answered(r, s).seen = r.seen
    /\ Answered(r, s).stale = r.stale
    /\ Answered(r, s).limiter = NoConfig /\ Answered(r, s).judged = {}
BY DEF Answered, Idle

(* The configs in hand are configs, and whatever limiters and passive      *)
(* settings a handler can meet belong to one of them (watch_config).       *)
LEMMA SettingsAreLive ==
  ASSUME Inv, ReadyInv
  PROVE  /\ Live \subseteq Configs /\ config \in Live
         /\ RouterConfig \in Live
         /\ \A k \in Keys : route_ratelimiters[k] # NoConfig =>
              /\ route_ratelimiters[k] \in Live
              /\ k \in LimitedKeys[route_ratelimiters[k]]
         /\ \A f \in PassiveFields : passive[f] \in Live
<1> USE ControlPlaneAssumption DEF Live
<1>1. Live \subseteq Configs /\ config \in Live
  BY DEF Inv, TypeOK
<1>2. reload_pc \in Applying => new_config \in Live
  BY DEF Inv, Locals
<1>3. RouterConfig \in Live
  BY <1>1, <1>2 DEF RouterConfig, Applying
<1>4. \A k \in Keys : route_ratelimiters[k] # NoConfig =>
        /\ route_ratelimiters[k] \in Live
        /\ k \in LimitedKeys[route_ratelimiters[k]]
  <2>1. reload_pc \in Applying \/ ReloadIdle
    BY DEF Inv, TypeOK, ReloadPCs, Applying, ReloadIdle
  <2>2. CASE ReloadIdle \/ reload_pc \in {"router", "clear"}
    BY <1>1, <2>2 DEF ReadyInv, LimitersOf
  <2>3. CASE reload_pc = "limiters"
    BY <1>2, <2>3 DEF ReadyInv, Applying
  <2>4. CASE reload_pc \in PassiveFields \cup {"states", "config"}
    BY <1>2, <2>4 DEF ReadyInv, Applying, LimitersOf
  <2> QED BY <2>1, <2>2, <2>3, <2>4 DEF Applying
<1>5. \A f \in PassiveFields : passive[f] \in Live
  <2>1. CASE reload_pc \in Applying
    BY <1>1, <1>2, <2>1 DEF ReadyInv
  <2>2. CASE reload_pc \notin Applying
    <3>1. Stored(reload_pc) = {}
      BY <2>2 DEF Stored, Applying, PassiveFields
    <3> QED BY <1>1, <3>1 DEF ReadyInv
  <2> QED BY <2>1, <2>2
<1> QED BY <1>1, <1>3, <1>4, <1>5

(* The router's candidates are urls.                                       *)
LEMMA CandidatesAreUrls ==
  ASSUME TypeOK
  PROVE  candidates(router) \subseteq Urls
<1>1. router.config \in Configs /\ router.k8s \in [Pools -> SUBSET Urls]
  BY DEF TypeOK
<1> QED BY <1>1, ConfigTypes DEF candidates

(* Every field of a request in flight keeps its type, through any reads of *)
(* handle_request interleaved with any writes of reload and discovery.     *)
THEOREM RequestsTypeCorrect == RequestsSpec => []RequestsTypeOK
<1> USE ControlPlaneAssumption, RequestsAssumption
<1> DEFINE T == req \in [Handlers -> Request] /\ overtaken \in BOOLEAN
<1>1. RequestsInit => T
  <2> SUFFICES ASSUME RequestsInit PROVE T
    OBVIOUS
  <2>1. req \in [Handlers -> Request]
    BY IdleIsRequest DEF RequestsInit
  <2>2. overtaken \in BOOLEAN
    BY Zenon DEF RequestsInit
  <2> QED BY <2>1, <2>2
<1>2. Inv /\ Inv' /\ ReadyInv /\ T /\ [RequestsNext]_requestsVars => T'
  <2> SUFFICES ASSUME Inv, Inv', ReadyInv, T, [RequestsNext]_requestsVars
               PROVE  T'
    OBVIOUS
  <2>1. TypeOK /\ \A h \in Handlers : req[h] \in Request
    BY DEF Inv
  <2>2. CASE ControlStep
    <3>1. Live' \subseteq Configs
      BY DEF Inv, TypeOK, Live
    <3>2. ASSUME NEW h \in Handlers
          PROVE  [req[h] EXCEPT !.seen = @ \cup Live',
                                !.quiet = @ /\ new_config' = NoConfig]
                   \in Request
      <4> DEFINE S == req[h].seen \cup Live'
                 b == req[h].quiet /\ new_config' = NoConfig
      <4>1. S \subseteq Configs
        BY <2>1, <3>1 DEF Request
      <4>2. b \in BOOLEAN
        OBVIOUS
      <4> HIDE DEF S, b
      <4>3. [req[h] EXCEPT !.seen = S, !.quiet = b] \in Request
        BY <2>1, <4>1, <4>2, Updates
      <4> QED BY <4>3 DEF S, b
    <3>3. req' \in [Handlers -> Request]
      BY <2>1, <2>2, <3>2 DEF ControlStep
    <3>4. overtaken' \in BOOLEAN
      BY <2>2, Zenon DEF ControlStep
    <3> QED BY <3>3, <3>4
  <2>3. ASSUME NEW h \in Handlers, HandlerStep(h), UNCHANGED overtaken
        PROVE  T'
    <3> SUFFICES ASSUME TRUE PROVE req' \in [Handlers -> Request]
      BY <2>3
    <3>1. ASSUME NEW k \in Keys, match_route(h, k)
          PROVE  req' \in [Handlers -> Request]
      <4> DEFINE r == [Idle EXCEPT
              !.phase = "limit", !.key = k, !.config = router.config,
              !.origins = candidates(router),
              !.seen = Live, !.quiet = new_config = NoConfig,
              !.stale = overtaken]
      <4>1. /\ router.config \in Configs /\ candidates(router) \subseteq Urls
            /\ Live \subseteq Configs
        BY <2>1, CandidatesAreUrls, SettingsAreLive DEF TypeOK
      <4>2. (new_config = NoConfig) \in BOOLEAN /\ overtaken \in BOOLEAN
        OBVIOUS
      <4>3. r \in Request
        BY <4>1, <4>2, IdleIsRequest, Updates, ZenonT(60)
      <4>4. Answered(r, "not found") \in Request
        BY <4>3, IdleIsRequest DEF Statuses
      <4> QED BY <3>1, <4>3, <4>4 DEF match_route
    <3>2. CASE check_limit(h)
      <4> DEFINE r == [req[h] EXCEPT !.phase = "select",
                                     !.limiter = LimiterOf(req[h].key)]
      <4>1. LimiterOf(req[h].key) \in Configs \cup {NoConfig, Global}
        BY <2>1 DEF LimiterOf, TypeOK, Request
      <4>2. r \in Request
        BY <2>1, <4>1, Updates
      <4>3. Answered(r, "too many requests") \in Request
        BY <4>2, IdleIsRequest DEF Statuses
      <4> QED BY <3>2, <4>2, <4>3 DEF check_limit
    <3>3. CASE select_origin(h)
      <4>1. ASSUME NEW u \in req[h].origins
            PROVE  [Idle EXCEPT
                      !.phase = "await", !.origin = u,
                      !.key = req[h].key, !.config = req[h].config,
                      !.seen = req[h].seen, !.quiet = req[h].quiet]
                        \in Request
        <5>1. /\ u \in Urls /\ req[h].seen \in SUBSET Configs
              /\ req[h].key \in Keys /\ req[h].config \in Configs
              /\ req[h].quiet \in BOOLEAN
          BY <2>1 DEF Request
        <5> QED BY <5>1, IdleIsRequest, Updates
      <4>2. Answered(req[h], "bad gateway") \in Request
        BY <2>1, IdleIsRequest DEF Statuses
      <4> QED BY <3>3, <4>1, <4>2, ZenonT(40) DEF select_origin
    <3>4. CASE proxied(h)
      <4> DEFINE p == IF req[h].origin \in origin_states THEN "enabled"
                                                         ELSE "done"
      <4>1. /\ p \in {"enabled", "done"}
            /\ req[h].seen \in SUBSET Configs /\ req[h].quiet \in BOOLEAN
        BY <2>1 DEF Request
      <4> HIDE DEF p
      <4>2. [Idle EXCEPT !.phase = p, !.seen = req[h].seen,
                         !.quiet = req[h].quiet] \in Request
        BY <4>1, IdleIsRequest, Updates
      <4> QED BY <3>4, <4>2 DEF proxied, p
    <3>5. CASE client_leaves(h) \/ respond(h)
      BY <3>5, IdleIsRequest DEF client_leaves, respond
    <3>6. CASE load_passive(h)
      <4>1. req[h].phase \in PassiveFields /\ passive[req[h].phase] \in Configs
        BY <2>1, <3>6 DEF load_passive, PassiveFields, TypeOK
      <4> QED BY <2>1, <3>6, <4>1 DEF load_passive, Request, PassiveFields
    <3> QED BY <2>3, <3>1, <3>2, <3>3, <3>4, <3>5, <3>6 DEF HandlerStep
  <2>4. CASE UNCHANGED requestsVars
    BY <2>4 DEF requestsVars
  <2> QED BY <2>2, <2>3, <2>4 DEF RequestsNext
<1>3. Inv /\ T => RequestsTypeOK
  BY DEF Inv, RequestsTypeOK
<1> QED
  BY <1>1, <1>2, <1>3, RequestsOnlyRead, LocalsInvariant, ReadyInvariant, PTL
  DEF RequestsSpec

(* Unless discovery has overtaken a reload, the router is of the config    *)
(* that a reload under way applies, once swapped in, or of the one in      *)
(* force.                                                                  *)
RouterInv == ~overtaken => router.config = RouterConfig

(* No step of reload or discovery breaks RouterInv: only rebuild_router    *)
(* with an outdated config could, and that is what overtaken records.      *)
LEMMA RouterInvariant == RequestsSpec => []RouterInv
<1>1. RequestsInit => RouterInv
  BY DEF RequestsInit, Init, RouterInv, RouterConfig, from_config,
         PassiveFields
<1>2. Inv /\ RouterInv /\ [RequestsNext]_requestsVars => RouterInv'
  <2> SUFFICES ASSUME Inv, RouterInv, [RequestsNext]_requestsVars,
                      ~overtaken'
               PROVE  router'.config = RouterConfig'
    BY DEF RouterInv
  <2> USE DEF fileVars, reloadVars, clusterVars, discoveryVars, appState
  <2>1. CASE UNCHANGED << vars, overtaken >>
    BY <2>1 DEF RouterInv, RouterConfig, vars
  <2>2. CASE ControlStep
    <3>1. Next /\ (~overtaken \/ router' # router)
          /\ (swap_k8s_router => loaded = RouterConfig)
      BY <2>2 DEF ControlStep
    <3>2. router' = router => router.config = RouterConfig
      BY <3>1 DEF RouterInv
    <3>3. CASE Environment \/ blocking_send
      BY <3>2, <3>3
      DEF Environment, edit_file, apply_service, delete_service, next_error,
          blocking_send, RouterConfig
    <3>4. CASE watch \/ recv \/ debounce \/ drain \/ load
      BY <3>2, <3>4 DEF watch, recv, debounce, drain, load, ReloadGoto,
                        RouterConfig, PassiveFields
    <3>5. CASE swap_router
      BY <3>5 DEF swap_router, ReloadGoto, from_config, RouterConfig
    <3>6. CASE clear_ratelimiters \/ insert_ratelimiter
      BY <3>2, <3>6 DEF clear_ratelimiters, insert_ratelimiter, ReloadGoto,
                        RouterConfig
    <3>7. CASE add_origin_state
      BY <3>2, <3>7 DEF add_origin_state, ReloadGoto, RouterConfig,
                        PassiveFields
    <3>8. CASE store_passive
      BY <3>2, <3>8 DEF store_passive, ReloadGoto, RouterConfig,
                        PassiveFields
    <3>9. CASE swap_config
      BY <3>2, <3>9 DEF swap_config, ReloadGoto, RouterConfig, PassiveFields
    <3>10. CASE next_service \/ resume \/ load_config \/ add_k8s_state
      BY <3>2, <3>10 DEF next_service, resume, load_config, add_k8s_state,
                         RouterConfig
    <3>11. CASE swap_k8s_router
      <4>1. router'.config = loaded
        BY <3>11 DEF swap_k8s_router, from_config_with_k8s
      <4> QED BY <3>1, <3>11, <4>1 DEF swap_k8s_router, RouterConfig
    <3> QED
      BY <3>1, <3>3, <3>4, <3>5, <3>6, <3>7, <3>8, <3>9, <3>10, <3>11
      DEF Next, ReloadStep, RebuildStep
  <2> QED BY <2>1, <2>2 DEF RequestsNext, requestsVars
<1> QED
  BY <1>1, <1>2, RequestsOnlyRead, LocalsInvariant, PTL DEF RequestsSpec

(* With no reload being applied there is one config to be seen.            *)
LEMMA OneConfigInForce ==
  ASSUME Inv, ReadyInv, new_config = NoConfig
  PROVE  /\ Live = {config} /\ RouterConfig = config
         /\ route_ratelimiters = LimitersOf(config)
         /\ \A f \in PassiveFields : passive[f] = config
<1> USE ControlPlaneAssumption
<1>1. reload_pc \notin Applying
  BY DEF Inv, Locals
<1>2. ReloadIdle
  BY <1>1 DEF Inv, TypeOK, ReloadPCs, Applying, ReloadIdle
<1>3. Live = {config} /\ RouterConfig = config
  BY <1>1 DEF Inv, TypeOK, Live, RouterConfig, Applying
<1>4. Stored(reload_pc) = {}
  BY <1>1 DEF Stored, Applying, PassiveFields
<1> QED BY <1>2, <1>3, <1>4 DEF ReadyInv

(* A request as match_route and as check_limit leave it.                   *)
Routed(k) ==
  [Idle EXCEPT !.phase = "limit", !.key = k, !.config = router.config,
               !.origins = candidates(router),
               !.seen = Live, !.quiet = new_config = NoConfig,
               !.stale = overtaken]
Limited(h) ==
  [req[h] EXCEPT !.phase = "select", !.limiter = LimiterOf(req[h].key)]

(* What match_route leaves, as far as the invariant below is about it.     *)
LEMMA RoutedFields ==
  ASSUME Inv, ReadyInv, RequestsTypeOK, NEW k \in Keys
  PROVE  /\ Routed(k) \in Request /\ Routed(k).phase = "limit"
         /\ Routed(k).key = k /\ Routed(k).config = router.config
         /\ Routed(k).seen = Live /\ Routed(k).quiet = (new_config = NoConfig)
         /\ Routed(k).stale = overtaken /\ Routed(k).limiter = NoConfig
         /\ Routed(k).judged = {} /\ Routed(k).status = "none"
<1>1. /\ router.config \in Configs /\ candidates(router) \subseteq Urls
      /\ Live \subseteq Configs /\ overtaken \in BOOLEAN
  BY CandidatesAreUrls, SettingsAreLive DEF RequestsTypeOK, TypeOK
<1>2. (new_config = NoConfig) \in BOOLEAN
  BY Zenon
<1>3. Routed(k) \in Request
  BY <1>1, <1>2, IdleIsRequest, Updates, ZenonT(60) DEF Routed
<1> QED BY <1>3 DEF Routed, Idle

(* What check_limit leaves: only the limiter and the phase are new.        *)
LEMMA LimitedFields ==
  ASSUME RequestsTypeOK, NEW h \in Handlers
  PROVE  /\ Limited(h) \in Request /\ Limited(h).phase = "select"
         /\ Limited(h).limiter = LimiterOf(req[h].key)
         /\ Limited(h).key = req[h].key /\ Limited(h).config = req[h].config
         /\ Limited(h).seen = req[h].seen /\ Limited(h).quiet = req[h].quiet
         /\ Limited(h).stale = req[h].stale
         /\ Limited(h).judged = req[h].judged
         /\ Limited(h).status = req[h].status
<1>1. req[h] \in Request
  BY DEF RequestsTypeOK
<1>2. LimiterOf(req[h].key) \in Configs \cup {NoConfig, Global}
  BY <1>1 DEF LimiterOf, RequestsTypeOK, TypeOK, Request
<1>3. Limited(h) \in Request
  BY <1>1, <1>2, Updates DEF Limited
<1> QED BY <1>1, <1>3 DEF Limited, Request

(* The origins that request r may be sent to, and the one it was sent to,  *)
(* have their states or are owed them; the latter, under round robin, has. *)
Recordable(r) ==
  /\ r.phase \in {"limit", "select"} =>
       r.origins \subseteq origin_states \cup Owed
  /\ r.phase = "await" =>
       \/ r.origin \in origin_states
       \/ Weighted(r) /\ r.origin \in Owed

(* Each step of handle_request leaves its own request recordable: a router *)
(* is loaded with its debts, and selection takes one of its candidates.    *)
LEMMA HandlerStaysRecordable ==
  ASSUME Inv, ReadyInv, StatesInv, RequestsTypeOK, NEW h \in Handlers,
         HandlerStep(h), Recordable(req[h])
  PROVE  Recordable(req'[h])
<1>0. req \in [Handlers -> Request] /\ req[h] \in Request
  BY DEF RequestsTypeOK
<1>1. Recordable(Idle)
  BY DEF Idle, Recordable
<1>2. ASSUME NEW r \in Request, NEW s \in Statuses
      PROVE  Recordable(Answered(r, s))
  BY AnsweredFields DEF Recordable
<1>3. ASSUME NEW k \in Keys, match_route(h, k) PROVE Recordable(req'[h])
  <2>1. req'[h] = Routed(k) \/ req'[h] = Answered(Routed(k), "not found")
    BY <1>0, <1>3 DEF match_route, Routed
  <2>2. Routed(k) \in Request /\ Routed(k).phase = "limit"
    BY RoutedFields
  <2>3. Routed(k).origins = candidates(router)
    BY DEF Routed, Idle
  <2>4. Recordable(Routed(k))
    BY <2>2, <2>3, CandidatesAreOwed DEF Recordable
  <2> QED BY <1>2, <2>1, <2>2, <2>4 DEF Statuses
<1>4. CASE check_limit(h)
  <2>1. \/ req'[h] = Limited(h)
        \/ req'[h] = Answered(Limited(h), "too many requests")
    BY <1>0, <1>4 DEF check_limit, Limited
  <2>2. Limited(h) \in Request /\ Limited(h).phase = "select"
    BY LimitedFields
  <2>3. Limited(h).origins = req[h].origins /\ req[h].phase = "limit"
    BY <1>0, <1>4 DEF Limited, Request, check_limit
  <2>4. Recordable(Limited(h))
    BY <2>2, <2>3 DEF Recordable
  <2> QED BY <1>2, <2>1, <2>2, <2>4 DEF Statuses
<1>5. CASE select_origin(h)
  <2>1. CASE req'[h] = Answered(req[h], "bad gateway")
    BY <1>0, <1>2, <2>1 DEF Statuses
  <2>2. ASSUME NEW u \in req[h].origins,
               u \in origin_states \/ Weighted(req[h]),
               req'[h] = [Idle EXCEPT
                 !.phase = "await", !.origin = u,
                 !.key = req[h].key, !.config = req[h].config,
                 !.seen = req[h].seen, !.quiet = req[h].quiet]
        PROVE  Recordable(req'[h])
    <3>1. /\ req'[h].phase = "await" /\ req'[h].origin = u
          /\ req'[h].key = req[h].key /\ req'[h].config = req[h].config
      BY <2>2 DEF Idle
    <3>2. u \in origin_states \cup Owed
      BY <1>5 DEF select_origin, Recordable
    <3> QED BY <2>2, <3>1, <3>2 DEF Recordable, Weighted
  <2> QED BY <1>0, <1>5, <2>1, <2>2 DEF select_origin
<1>6. CASE proxied(h)
  <2>1. req'[h].phase \in {"enabled", "done"}
    BY <1>0, <1>6 DEF proxied, Idle
  <2> QED BY <2>1 DEF Recordable
<1>7. CASE client_leaves(h) \/ respond(h)
  BY <1>0, <1>1, <1>7 DEF client_leaves, respond
<1>8. CASE load_passive(h)
  <2>1. req'[h].phase \in {"failure_threshold", "success_threshold", "done"}
    BY <1>0, <1>8 DEF load_passive, Request
  <2> QED BY <2>1 DEF Recordable
<1> QED BY <1>3, <1>4, <1>5, <1>6, <1>7, <1>8 DEF HandlerStep

AllRecordable == \A h \in Handlers : Recordable(req[h])

(* The origin a handler awaits (handle_request) has its state and keeps    *)
(* it: reload and discovery remove none, and add what they owe the router  *)
(* they swapped in.  Without a state is only the origin that a weighted    *)
(* balancer selected before its state was added, until it is.              *)
THEOREM AnswersCanBeRecorded == RequestsSpec => []AnswersAreRecorded
<1>1. RequestsInit => AllRecordable
  BY DEF RequestsInit, AllRecordable, Recordable, Idle
<1>2. Inv /\ ReadyInv /\ StatesInv /\ RequestsTypeOK /\ AllRecordable
        /\ [RequestsNext]_requestsVars => AllRecordable'
  <2> SUFFICES ASSUME Inv, ReadyInv, StatesInv, RequestsTypeOK,
                      AllRecordable, [RequestsNext]_requestsVars,
                      NEW q \in Handlers
               PROVE  Recordable(req[q])'
    BY DEF AllRecordable
  <2>1. Recordable(req[q]) /\ req \in [Handlers -> Request]
    BY DEF AllRecordable, RequestsTypeOK
  <2>2. CASE ControlStep
    <3>1. /\ req'[q].phase = req[q].phase /\ req'[q].origin = req[q].origin
          /\ req'[q].origins = req[q].origins /\ req'[q].key = req[q].key
          /\ req'[q].config = req[q].config
      BY <2>1, <2>2 DEF ControlStep, Request
    <3>2. /\ origin_states \subseteq origin_states'
          /\ origin_states \cup Owed \subseteq (origin_states \cup Owed)'
      BY <2>2, StatesOnlyGrow, OwedIsPaid DEF ControlStep
    <3> QED BY <2>1, <3>1, <3>2 DEF Recordable, Weighted
  <2>3. ASSUME UNCHANGED vars, Recordable(req'[q]) PROVE Recordable(req[q])'
    BY <2>3 DEF Recordable, Weighted, Owed, vars, appState, reloadVars,
                discoveryVars
  <2>4. ASSUME UNCHANGED vars, NEW h \in Handlers, HandlerStep(h)
        PROVE  Recordable(req[q])'
    <3>1. CASE req'[q] = req[q]
      BY <2>1, <2>3, <2>4, <3>1
    <3>2. CASE req'[q] # req[q]
      <4>1. q = h
        BY <2>1, <2>4, <3>2 DEF HandlerStep, match_route, check_limit,
             select_origin, proxied, client_leaves, load_passive, respond
      <4>2. Recordable(req'[q])
        BY <2>1, <2>4, <4>1, HandlerStaysRecordable
      <4> QED BY <2>3, <2>4, <4>2
    <3> QED BY <3>1, <3>2
  <2>5. CASE UNCHANGED requestsVars
    BY <2>1, <2>3, <2>5 DEF requestsVars
  <2> QED BY <2>2, <2>4, <2>5 DEF RequestsNext
<1>3. AllRecordable => AnswersAreRecorded
  BY DEF AllRecordable, Recordable, AnswersAreRecorded
<1> QED
  BY <1>1, <1>2, <1>3, RequestsOnlyRead, LocalsInvariant, ReadyInvariant,
     StatesInvariant, RequestsTypeCorrect, PTL DEF RequestsSpec

(* What holds of a request r that is under way: it has seen every config   *)
(* in hand, so whatever it meets belongs to one it has seen; and while no  *)
(* reload has come, that is one config.                                    *)
Governed(r) ==
  r.phase # "idle" =>
    /\ Live \subseteq r.seen
    /\ r.limiter \in r.seen \cup {NoConfig, Global}
    /\ r.judged \subseteq r.seen
    /\ r.phase \in {"limit", "select"} => r.stale \/ r.config \in r.seen
    /\ r.phase # "done" => r.status = "none"

Refused(r) ==
  r.phase # "idle" =>
    /\ r.status = "not found" =>
         r.stale \/ \E c \in r.seen : r.key \notin RouteKeys[c]
    /\ r.status = "too many requests" =>
         HasGlobal \/ \E c \in r.seen : r.key \in LimitedKeys[c]

Quiet(r) ==
  r.phase # "idle" /\ r.quiet /\ r.status = "none" =>
    /\ new_config = NoConfig
    /\ r.seen = {config}
    /\ r.judged \subseteq {config}
    /\ r.phase \in {"limit", "select"} => r.stale \/ r.config = config
    /\ r.phase = "select" =>
         r.limiter = IF r.key \in LimitedKeys[config] THEN config
                     ELSE IF HasGlobal THEN Global ELSE NoConfig

Sound(r) == Governed(r) /\ Refused(r) /\ Quiet(r)

(* A refusal is sound if its reason is: the rest of the request is gone.   *)
LEMMA RefusalIsSound ==
  ASSUME NEW r \in Request, NEW s \in Statuses, s # "none",
         Live \subseteq r.seen,
         s = "not found" =>
           r.stale \/ \E c \in r.seen : r.key \notin RouteKeys[c],
         s = "too many requests" =>
           HasGlobal \/ \E c \in r.seen : r.key \in LimitedKeys[c]
  PROVE  Sound(Answered(r, s))
<1> DEFINE a == Answered(r, s)
<1>1. /\ a.phase = "done" /\ a.status = s /\ a.key = r.key /\ a.seen = r.seen
      /\ a.stale = r.stale /\ a.limiter = NoConfig /\ a.judged = {}
  BY AnsweredFields, ZenonT(40)
<1> HIDE DEF a
<1>2. Governed(a)
  BY <1>1 DEF Governed
<1>3. Refused(a)
  BY <1>1 DEF Refused
<1>4. Quiet(a)
  BY <1>1 DEF Quiet
<1> QED BY <1>2, <1>3, <1>4 DEF a, Sound

(* Each step of handle_request leaves its own request sound: the reads one *)
(* by one, whatever was written before.                                    *)
LEMMA HandlerStaysSound ==
  ASSUME Inv, ReadyInv, RouterInv, RequestsTypeOK, NEW h \in Handlers,
         HandlerStep(h), Sound(req[h])
  PROVE  Sound(req'[h])
<1> USE ControlPlaneAssumption, RequestsAssumption
<1>0. req \in [Handlers -> Request] /\ req[h] \in Request
  BY DEF RequestsTypeOK
<1>1. Sound(Idle)
  BY DEF Idle, Sound, Governed, Refused, Quiet
<1>2. ASSUME NEW k \in Keys, match_route(h, k) PROVE Sound(req'[h])
  <2>1. \/ /\ k \in RouteKeys[router.config]
           /\ req'[h] = Routed(k)
        \/ /\ k \notin RouteKeys[router.config]
           /\ req'[h] = Answered(Routed(k), "not found")
    BY <1>0, <1>2 DEF match_route, Routed
  <2>2. overtaken \/ router.config \in Live
    BY SettingsAreLive DEF RouterInv
  <2>3. new_config = NoConfig =>
          Live = {config} /\ (overtaken \/ router.config = config)
    BY OneConfigInForce DEF RouterInv
  <2>4. Sound(Routed(k))
    <3> DEFINE r == Routed(k)
    <3>1. /\ r.phase = "limit" /\ r.seen = Live /\ r.limiter = NoConfig
          /\ r.judged = {} /\ r.status = "none" /\ r.config = router.config
      BY RoutedFields
    <3>2. (r.quiet => new_config = NoConfig) /\ (overtaken => r.stale)
      BY RoutedFields
    <3> HIDE DEF r
    <3>3. Governed(r)
      BY <2>2, <3>1, <3>2 DEF Governed
    <3>4. Refused(r)
      BY <3>1 DEF Refused
    <3>5. Quiet(r)
      BY <2>3, <3>1, <3>2 DEF Quiet
    <3> QED BY <3>3, <3>4, <3>5 DEF r, Sound
  <2>5. k \notin RouteKeys[router.config] =>
          Sound(Answered(Routed(k), "not found"))
    <3> SUFFICES ASSUME k \notin RouteKeys[router.config]
                 PROVE  Sound(Answered(Routed(k), "not found"))
      OBVIOUS
    <3> DEFINE r == Routed(k)
    <3>1. r \in Request /\ r.seen = Live /\ r.key = k /\ (overtaken => r.stale)
      BY RoutedFields
    <3> HIDE DEF r
    <3>2. r.stale \/ \E c \in r.seen : r.key \notin RouteKeys[c]
      BY <2>2, <3>1
    <3>3. Sound(Answered(r, "not found"))
      BY <3>1, <3>2, RefusalIsSound DEF Statuses
    <3> QED BY <3>3 DEF r
  <2> QED BY <2>1, <2>4, <2>5
<1>3. CASE check_limit(h)
  <2>1. /\ req[h].phase = "limit"
        /\ \/ req'[h] = Limited(h)
           \/ /\ Limited(h).limiter # NoConfig
              /\ req'[h] = Answered(Limited(h), "too many requests")
    BY <1>0, <1>3 DEF check_limit, Limited
  <2> DEFINE k == req[h].key
             l == LimiterOf(req[h].key)
  <2>2. k \in Keys
    BY <1>0 DEF Request
  <2>3. /\ l \in Live \cup {NoConfig, Global}
        /\ l # NoConfig => HasGlobal \/ \E c \in Live : k \in LimitedKeys[c]
    BY <2>2, SettingsAreLive DEF LimiterOf
  <2>4. new_config = NoConfig =>
          l = IF k \in LimitedKeys[config] THEN config
              ELSE IF HasGlobal THEN Global ELSE NoConfig
    BY <2>2, OneConfigInForce DEF LimiterOf, LimitersOf, Inv, TypeOK
  <2> HIDE DEF l
  <2> DEFINE r == Limited(h)
  <2>5. /\ r \in Request /\ r.phase = "select" /\ r.limiter = l /\ r.key = k
        /\ r.config = req[h].config /\ r.seen = req[h].seen
        /\ r.judged = req[h].judged /\ r.status = req[h].status
    BY LimitedFields DEF l
  <2>6. r.quiet = req[h].quiet /\ r.stale = req[h].stale
    BY LimitedFields
  <2>7. Governed(req[h]) /\ Refused(req[h]) /\ Quiet(req[h])
    BY DEF Sound
  <2> HIDE DEF r, k
  <2>8. Live \subseteq r.seen
    BY <2>1, <2>5, <2>7 DEF Governed
  <2>9. Sound(r)
    <3>1. Governed(r)
      BY <2>1, <2>3, <2>5, <2>6, <2>7, <2>8 DEF Governed
    <3>2. Refused(r)
      BY <2>1, <2>5, <2>6, <2>7 DEF Refused, k
    <3>3. Quiet(r)
      BY <2>1, <2>4, <2>5, <2>6, <2>7 DEF Quiet
    <3> QED BY <3>1, <3>2, <3>3 DEF Sound
  <2>10. l # NoConfig => Sound(Answered(r, "too many requests"))
    BY <2>3, <2>5, <2>8, RefusalIsSound DEF Statuses
  <2> QED BY <2>1, <2>5, <2>9, <2>10 DEF r
<1>4. CASE select_origin(h)
  <2>1. CASE req'[h] = Answered(req[h], "bad gateway")
    <3>1. Live \subseteq req[h].seen
      BY <1>4 DEF select_origin, Sound, Governed
    <3>2. "bad gateway" \in Statuses \ {"none"}
      BY DEF Statuses
    <3>3. Sound(Answered(req[h], "bad gateway"))
      BY <1>0, <3>1, <3>2, RefusalIsSound
    <3> QED BY <2>1, <3>3
  <2>2. ASSUME NEW u \in req[h].origins,
               req'[h] = [Idle EXCEPT
                 !.phase = "await", !.origin = u,
                 !.key = req[h].key, !.config = req[h].config,
                 !.seen = req[h].seen, !.quiet = req[h].quiet]
        PROVE  Sound(req'[h])
    <3>1. /\ req'[h].phase = "await" /\ req'[h].status = "none"
          /\ req'[h].seen = req[h].seen /\ req'[h].quiet = req[h].quiet
          /\ req'[h].limiter = NoConfig /\ req'[h].judged = {}
      BY <2>2 DEF Idle
    <3>2. req[h].phase = "select"
      BY <1>4 DEF select_origin
    <3>3. Governed(req[h]) /\ Quiet(req[h])
      BY DEF Sound
    <3>4. Governed(req'[h])
      BY <3>1, <3>2, <3>3 DEF Governed
    <3>5. Refused(req'[h])
      BY <3>1 DEF Refused
    <3>6. Quiet(req'[h])
      BY <3>1, <3>2, <3>3 DEF Governed, Quiet
    <3> QED BY <3>4, <3>5, <3>6 DEF Sound
  <2> QED BY <1>0, <1>4, <2>1, <2>2 DEF select_origin
<1>5. CASE proxied(h)
  <2>1. /\ req'[h].phase \in {"enabled", "done"} /\ req'[h].status = "none"
        /\ req'[h].seen = req[h].seen /\ req'[h].quiet = req[h].quiet
        /\ req'[h].limiter = NoConfig /\ req'[h].judged = {}
    BY <1>0, <1>5 DEF proxied, Idle
  <2>2. req[h].phase = "await" /\ Governed(req[h]) /\ Quiet(req[h])
    BY <1>5 DEF proxied, Sound
  <2>3. Governed(req'[h])
    BY <2>1, <2>2 DEF Governed
  <2>4. Refused(req'[h])
    BY <2>1 DEF Refused
  <2>5. Quiet(req'[h])
    BY <2>1, <2>2 DEF Governed, Quiet
  <2> QED BY <2>3, <2>4, <2>5 DEF Sound
<1>6. CASE client_leaves(h) \/ respond(h)
  BY <1>0, <1>1, <1>6 DEF client_leaves, respond
<1>7. CASE load_passive(h)
  <2> DEFINE f == req[h].phase
  <2>1. f \in PassiveFields /\ f \notin {"idle", "limit", "select", "done"}
    BY <1>7 DEF load_passive, PassiveFields
  <2>2. /\ req'[h].judged = req[h].judged \cup {passive[f]}
        /\ req'[h].phase \in {"failure_threshold", "success_threshold", "done"}
        /\ req'[h].seen = req[h].seen /\ req'[h].quiet = req[h].quiet
        /\ req'[h].key = req[h].key /\ req'[h].stale = req[h].stale
        /\ req'[h].status = req[h].status
        /\ req'[h].limiter = req[h].limiter
    BY <1>0, <1>7 DEF load_passive, Request
  <2>3. passive[f] \in Live /\ (new_config = NoConfig => passive[f] = config)
    BY <2>1, SettingsAreLive, OneConfigInForce
  <2>4. Governed(req[h]) /\ Quiet(req[h])
    BY DEF Sound
  <2>5. req[h].status = "none" /\ Live \subseteq req[h].seen
    BY <2>1, <2>4 DEF Governed
  <2>6. Governed(req'[h])
    BY <2>1, <2>2, <2>3, <2>4, <2>5 DEF Governed
  <2>7. Refused(req'[h])
    BY <2>2, <2>5 DEF Refused
  <2>8. Quiet(req'[h])
    BY <2>1, <2>2, <2>3, <2>4, <2>5 DEF Quiet
  <2> QED BY <2>6, <2>7, <2>8 DEF Sound
<1> QED BY <1>2, <1>3, <1>4, <1>5, <1>6, <1>7 DEF HandlerStep

(* Steps of reload and discovery keep the requests under way sound: what   *)
(* they bring is put among the configs the request has seen, and a request *)
(* that has met no reload still sees the config of its beginning.          *)
LEMMA ControlKeepsSound ==
  ASSUME Inv, RequestsTypeOK, ControlStep, NEW h \in Handlers, Sound(req[h])
  PROVE  Sound(req[h])'
<1> USE ControlPlaneAssumption, RequestsAssumption
<1>1. req \in [Handlers -> Request] /\ req[h] \in Request
  BY DEF RequestsTypeOK
<1>2. CASE req[h].phase = "idle"
  <2>1. req'[h] = req[h]
    BY <1>1, <1>2 DEF ControlStep
  <2> QED BY <1>2, <2>1 DEF Sound, Governed, Refused, Quiet
<1>3. CASE req[h].phase # "idle"
  <2>1. /\ req'[h].phase = req[h].phase /\ req'[h].key = req[h].key
        /\ req'[h].config = req[h].config /\ req'[h].limiter = req[h].limiter
        /\ req'[h].judged = req[h].judged /\ req'[h].status = req[h].status
        /\ req'[h].seen = req[h].seen \cup Live'
    BY <1>1, <1>3 DEF ControlStep, Request
  <2>2. /\ req'[h].stale = req[h].stale
        /\ req'[h].quiet => req[h].quiet /\ new_config' = NoConfig
    BY <1>1, <1>3 DEF ControlStep, Request
  <2>3. Governed(req[h]) /\ Refused(req[h]) /\ Quiet(req[h])
    BY DEF Sound
  <2>4. new_config = NoConfig => config' = config
    BY ConfigStays DEF ControlStep
  <2>5. new_config' = NoConfig => Live' \subseteq {config'}
    BY DEF Live
  <2>6. Governed(req[h])'
    BY <1>3, <2>1, <2>2, <2>3 DEF Governed
  <2>7. Refused(req[h])'
    BY <1>3, <2>1, <2>2, <2>3 DEF Refused
  <2>8. Quiet(req[h])'
    BY <1>3, <2>1, <2>2, <2>3, <2>4, <2>5 DEF Quiet
  <2> QED BY <2>6, <2>7, <2>8 DEF Sound
<1> QED BY <1>2, <1>3

AllSound == \A h \in Handlers : Sound(req[h])

(* Every request under way is sound, in every reachable state.             *)
LEMMA RequestsAreSound == RequestsSpec => []AllSound
<1>1. RequestsInit => AllSound
  <2> SUFFICES ASSUME RequestsInit, NEW h \in Handlers PROVE Sound(req[h])
    BY DEF AllSound
  <2>1. req[h].phase = "idle"
    BY DEF RequestsInit, Idle
  <2> QED BY <2>1 DEF Sound, Governed, Refused, Quiet
<1>2. Inv /\ ReadyInv /\ RouterInv /\ RequestsTypeOK /\ AllSound
        /\ [RequestsNext]_requestsVars => AllSound'
  <2> SUFFICES ASSUME Inv, ReadyInv, RouterInv, RequestsTypeOK, AllSound,
                      [RequestsNext]_requestsVars, NEW q \in Handlers
               PROVE  Sound(req[q])'
    BY DEF AllSound
  <2>1. Sound(req[q])
    BY DEF AllSound
  <2>2. CASE ControlStep
    BY <2>1, <2>2, ControlKeepsSound
  <2>3. ASSUME UNCHANGED << config, new_config >>, Sound(req'[q])
        PROVE  Sound(req[q])'
    BY <2>3 DEF Sound, Governed, Refused, Quiet, Live
  <2>4. ASSUME UNCHANGED vars, NEW h \in Handlers, HandlerStep(h)
        PROVE  Sound(req[q])'
    <3>1. CASE req'[q] = req[q]
      BY <2>1, <2>3, <2>4, <3>1 DEF vars, appState, reloadVars
    <3>2. CASE req'[q] # req[q]
      <4>1. q = h
        BY <2>4, <3>2 DEF RequestsTypeOK, HandlerStep, match_route,
             check_limit, select_origin, proxied, client_leaves,
             load_passive, respond
      <4>2. Sound(req'[q])
        BY <2>1, <2>4, <4>1, HandlerStaysSound
      <4> QED BY <2>3, <2>4, <4>2, SMTT(30) DEF vars, appState, reloadVars
    <3> QED BY <3>1, <3>2
  <2>5. CASE UNCHANGED requestsVars
    BY <2>1, <2>3, <2>5 DEF requestsVars, vars, appState, reloadVars
  <2> QED BY <2>2, <2>4, <2>5 DEF RequestsNext
<1> QED
  BY <1>1, <1>2, RequestsOnlyRead, LocalsInvariant, ReadyInvariant,
     RouterInvariant, RequestsTypeCorrect, PTL DEF RequestsSpec

(* What routes, limits and judges a request (handle_request) belongs to a  *)
(* config in force or being applied while the request was under way,       *)
(* except a route that discovery has brought back.                         *)
THEOREM RequestsAreGoverned == RequestsSpec => []GovernedByLiveConfig
<1>1. AllSound => GovernedByLiveConfig
  BY DEF AllSound, Sound, Governed, GovernedByLiveConfig, Active, UsesRouter
<1> QED BY <1>1, RequestsAreSound, PTL

(* A request that no reload falls into is routed, limited and judged by    *)
(* one and the same config (handle_request, watch_config).                 *)
THEOREM QuietRequestsAreUniform == RequestsSpec => []QuietRequestsSeeOneConfig
<1>1. TypeOK /\ AllSound => QuietRequestsSeeOneConfig
  <2> SUFFICES ASSUME TypeOK, AllSound,
                      NEW h \in Handlers, req[h].phase # "idle",
                      req[h].quiet, req[h].status = "none"
               PROVE  /\ config \in Configs
                      /\ req[h].seen = {config}
                      /\ req[h].judged \subseteq {config}
                      /\ UsesRouter(h) =>
                           req[h].stale \/ req[h].config = config
                      /\ req[h].phase = "select" =>
                           req[h].limiter =
                             IF req[h].key \in LimitedKeys[config] THEN config
                             ELSE IF HasGlobal THEN Global ELSE NoConfig
    BY Zenon DEF QuietRequestsSeeOneConfig, Active
  <2>1. config \in Configs
    BY DEF TypeOK
  <2>2. Quiet(req[h])
    BY DEF AllSound, Sound
  <2> QED BY <2>1, <2>2 DEF Quiet, UsesRouter
<1> QED BY <1>1, RequestsAreSound, RequestsTypeCorrect, PTL DEF RequestsTypeOK

(* handle_request answers 404 and 429 only where a config that the request *)
(* lived under calls for it.                                               *)
THEOREM RefusalsHaveReason == RequestsSpec => []RefusalsAreJustified
<1>1. AllSound => RefusalsAreJustified
  BY DEF AllSound, Sound, Refused, RefusalsAreJustified, Active
<1> QED BY <1>1, RequestsAreSound, PTL
=============================================================================
