---------------------------- MODULE ControlPlane ----------------------------
(***************************************************************************)
(* How the state that requests read (src/src/state.rs, AppState) changes   *)
(* while the proxy runs.  Two tasks write it, without a lock in common:    *)
(*                                                                         *)
(*  - watch_config (src/src/config/reload.rs): a change of the file, told  *)
(*    by the notify thread through a bounded channel, is debounced, loaded *)
(*    and applied to the router, the route limiters, the origin states,    *)
(*    the passive thresholds and, last, the config;                        *)
(*  - run_k8s_discovery (src/src/health/discovery.rs): an applied Service  *)
(*    changes k8s_origins and rebuilds the router from the config it       *)
(*    loads.                                                               *)
(*                                                                         *)
(* Each access to an ArcSwap, a DashMap entry or an atomic is one action;  *)
(* the operator who edits the file and the cluster whose services change   *)
(* are the environment.  A config is a model value; what a request can     *)
(* tell of it are its origins, its pools, its limited routes and its       *)
(* passive settings.                                                       *)
(***************************************************************************)
EXTENDS Integers, Sequences

CONSTANTS
  Configs,        \* file contents that load and validate accept
  Invalid,        \* any other content: half written, unparsable, rejected
  InitialConfig,  \* what main loaded
  Edits,          \* contents the operator may write
  Keys,           \* route keys ("host:path")
  Pools,          \* pool names
  Urls,           \* origin urls
  StaticOrigins,  \* [Configs -> SUBSET Urls]: origins of its pools
  PoolNames,      \* [Configs -> SUBSET Pools]: pools of its routes
  LimitedKeys,    \* [Configs -> SUBSET Keys]: routes with a ratelimit table
  Services,       \* Kubernetes services
  Mappings,       \* [Services -> what service_to_origin can make of it]
  NoOrigin,       \* service_to_origin: None; also an absent service
  Deletable,      \* services the cluster may delete
  NoConfig,       \* no limiter / no config in hand
  ChannelSize,    \* mpsc::channel(16)
  MaxEvents,      \* bound: file events waiting in the notify thread
  MaxStream       \* bound: service events waiting in the watch stream

Contents == Configs \cup {Invalid}
Origins == Pools \X Urls

ASSUME ControlPlaneAssumption ==
  /\ Invalid \notin Configs /\ NoConfig \notin Configs
  /\ InitialConfig \in Configs
  /\ Edits \subseteq Contents
  /\ StaticOrigins \in [Configs -> SUBSET Urls]
  /\ PoolNames \in [Configs -> SUBSET Pools]
  /\ LimitedKeys \in [Configs -> SUBSET Keys]
  /\ NoOrigin \notin Origins
  /\ Mappings \in [Services -> SUBSET (Origins \cup {NoOrigin})]
  /\ Deletable \subseteq Services
  /\ ChannelSize \in Nat \ {0} /\ MaxEvents \in Nat /\ MaxStream \in Nat

VARIABLES
  file,           \* content of the config file
  watching,       \* watcher.watch has been called
  events,         \* modify/create events the notify thread has to send
  channel,        \* messages in the mpsc channel
  reload_pc,      \* where watch_config is
  new_config,     \* what it is applying
  reload_todo,    \* limiters or origin states its current loop has to add
  config, router, route_ratelimiters, origin_states, passive,
  cluster,        \* the services as the cluster has them
  stream,         \* applied objects not yet received
  k8s_origins,    \* [Pools -> SUBSET Urls]
  discovery_pc,   \* where run_k8s_discovery is
  loaded,         \* the config rebuild_router has loaded
  discovery_todo  \* origin states its loop has to add

fileVars == << file, watching, events, channel >>
reloadVars == << reload_pc, new_config, reload_todo >>
clusterVars == << cluster, stream >>
discoveryVars == << k8s_origins, discovery_pc, loaded, discovery_todo >>
appState == << config, router, route_ratelimiters, origin_states, passive >>
vars == << fileVars, reloadVars, clusterVars, discoveryVars, appState >>

PassiveFields == {"enabled", "failure_threshold", "success_threshold"}
ReloadPCs == {"watch", "recv", "debounce", "drain", "load", "router",
              "clear", "limiters", "states", "config"} \cup PassiveFields
DiscoveryPCs == {"next", "pause", "load", "swap", "states"}

-----------------------------------------------------------------------------
NoK8s == [p \in Pools |-> {}]

\* Router::from_config and Router::from_config_with_k8s
from_config(c) == [config |-> c, k8s |-> NoK8s]
from_config_with_k8s(c, k8s) == [config |-> c, k8s |-> k8s]

\* RouteEntry::candidates, over all routes
candidates(r) ==
  StaticOrigins[r.config] \cup UNION {r.k8s[p] : p \in PoolNames[r.config]}

\* The limiters that config c asks for, each marked with the config it is of.
LimitersOf(c) == [k \in Keys |-> IF k \in LimitedKeys[c] THEN c ELSE NoConfig]

TypeOK ==
  /\ file \in Contents
  /\ watching \in BOOLEAN
  /\ events \in 0 .. MaxEvents
  /\ channel \in 0 .. ChannelSize
  /\ reload_pc \in ReloadPCs
  /\ new_config \in Configs \cup {NoConfig}
  /\ reload_todo \in SUBSET (Keys \cup Urls)
  /\ config \in Configs
  /\ router \in [config : Configs, k8s : [Pools -> SUBSET Urls]]
  /\ route_ratelimiters \in [Keys -> Configs \cup {NoConfig}]
  /\ origin_states \in SUBSET Urls
  /\ passive \in [PassiveFields -> Configs]
  /\ cluster \in [Services -> Origins \cup {NoOrigin}]
  /\ stream \in Seq(Origins \cup {NoOrigin})
  /\ k8s_origins \in [Pools -> SUBSET Urls]
  /\ discovery_pc \in DiscoveryPCs
  /\ loaded \in Configs \cup {NoConfig}
  /\ discovery_todo \in SUBSET Urls

(* AppState::new of the config that main loaded and validated.  The tasks  *)
(* are spawned after it; the file may already have changed again.          *)
Init ==
  /\ file = InitialConfig
  /\ watching = FALSE
  /\ events = 0
  /\ channel = 0
  /\ reload_pc = "watch"
  /\ new_config = NoConfig
  /\ reload_todo = {}
  /\ config = InitialConfig
  /\ router = from_config(InitialConfig)
  /\ route_ratelimiters = LimitersOf(InitialConfig)
  /\ origin_states = StaticOrigins[InitialConfig]
  /\ passive = [f \in PassiveFields |-> InitialConfig]
  /\ cluster = [s \in Services |-> NoOrigin]
  /\ stream = << >>
  /\ k8s_origins = NoK8s
  /\ discovery_pc = "next"
  /\ loaded = NoConfig
  /\ discovery_todo = {}

-----------------------------------------------------------------------------
(* The operator writes the file.  A write in place shows as one edit per   *)
(* content the file goes through.  inotify reports it to a watcher only.   *)
edit_file(c) ==
  /\ c \in Edits
  /\ events < MaxEvents
  /\ file' = c
  /\ events' = IF watching THEN events + 1 ELSE events
  /\ UNCHANGED << watching, channel, reloadVars, clusterVars, discoveryVars,
                  appState >>

\* Names ending in _mutant are plausible bugs that no action uses; here, a
\* send that does not wait.
blocking_send_mutant ==
  /\ events > 0
  /\ events' = events - 1
  /\ channel' = channel + 1
  /\ UNCHANGED << file, watching, reloadVars, clusterVars, discoveryVars,
                  appState >>

(* The notify thread: blocking_send waits while the channel is full.       *)
blocking_send ==
  /\ events > 0
  /\ channel < ChannelSize
  /\ events' = events - 1
  /\ channel' = channel + 1
  /\ UNCHANGED << file, watching, reloadVars, clusterVars, discoveryVars,
                  appState >>

-----------------------------------------------------------------------------
ReloadGoto(from, to) ==
  /\ reload_pc = from
  /\ reload_pc' = to

watch ==
  /\ ReloadGoto("watch", "recv")
  /\ watching' = TRUE
  /\ UNCHANGED << file, events, channel, new_config, reload_todo,
                  clusterVars, discoveryVars, appState >>

recv ==
  /\ ReloadGoto("recv", "debounce")
  /\ channel > 0
  /\ channel' = channel - 1
  /\ UNCHANGED << file, watching, events, new_config, reload_todo,
                  clusterVars, discoveryVars, appState >>

(* The 500 ms sleep is over.                                               *)
debounce ==
  /\ ReloadGoto("debounce", "drain")
  /\ UNCHANGED << fileVars, new_config, reload_todo, clusterVars,
                  discoveryVars, appState >>

(* while rx.try_recv().is_ok() {}                                          *)
drain ==
  /\ \/ /\ channel > 0
        /\ ReloadGoto("drain", "drain")
        /\ channel' = channel - 1
     \/ /\ channel = 0
        /\ ReloadGoto("drain", "load")
        /\ channel' = channel
  /\ UNCHANGED << file, watching, events, new_config, reload_todo,
                  clusterVars, discoveryVars, appState >>

(* ProxyConfig::load and validate: the new config, or keep the current one *)
load ==
  /\ \/ /\ file \in Configs
        /\ ReloadGoto("load", "router")
        /\ new_config' = file
     \/ /\ file \notin Configs
        /\ ReloadGoto("load", "recv")
        /\ new_config' = new_config
  /\ UNCHANGED << fileVars, reload_todo, clusterVars, discoveryVars,
                  appState >>

(* state.router.swap: k8s origins are not in a router made by from_config. *)
swap_router ==
  /\ ReloadGoto("router", "clear")
  /\ router' = from_config(new_config)
  /\ UNCHANGED << fileVars, new_config, reload_todo, clusterVars,
                  discoveryVars, config, route_ratelimiters, origin_states,
                  passive >>

\* Forgets to clear: limiters of routes that are gone, or are no longer
\* limited, stay.
clear_ratelimiters_mutant ==
  /\ ReloadGoto("clear", "limiters")
  /\ reload_todo' = LimitedKeys[new_config]
  /\ UNCHANGED << fileVars, new_config, clusterVars, discoveryVars, appState >>

(* route_ratelimiters.clear().  It goes shard by shard; a request finds    *)
(* each limiter either there or gone, as it does around one step.          *)
clear_ratelimiters ==
  /\ ReloadGoto("clear", "limiters")
  /\ route_ratelimiters' = [k \in Keys |-> NoConfig]
  /\ reload_todo' = LimitedKeys[new_config]
  /\ UNCHANGED << fileVars, new_config, clusterVars, discoveryVars, config,
                  router, origin_states, passive >>

insert_ratelimiter ==
  /\ \/ \E k \in reload_todo :
          /\ ReloadGoto("limiters", "limiters")
          /\ route_ratelimiters' = [route_ratelimiters EXCEPT ![k] = new_config]
          /\ reload_todo' = reload_todo \ {k}
     \/ /\ reload_todo = {}
        /\ ReloadGoto("limiters", "states")
        /\ reload_todo' = StaticOrigins[new_config]
        /\ UNCHANGED route_ratelimiters
  /\ UNCHANGED << fileVars, new_config, clusterVars, discoveryVars, config,
                  router, origin_states, passive >>

\* Also removes the states of origins that the new config does not have.
add_origin_state_mutant ==
  /\ ReloadGoto("states", "enabled")
  /\ origin_states' = StaticOrigins[new_config]
  /\ reload_todo' = {}
  /\ UNCHANGED << fileVars, new_config, clusterVars, discoveryVars, config,
                  router, route_ratelimiters, passive >>

(* origin_states.entry(url).or_default(): present states are kept.         *)
add_origin_state ==
  /\ \/ \E u \in reload_todo :
          /\ ReloadGoto("states", "states")
          /\ origin_states' = origin_states \cup {u}
          /\ reload_todo' = reload_todo \ {u}
     \/ /\ reload_todo = {}
        /\ ReloadGoto("states", "enabled")
        /\ UNCHANGED << origin_states, reload_todo >>
  /\ UNCHANGED << fileVars, new_config, clusterVars, discoveryVars, config,
                  router, route_ratelimiters, passive >>

(* The three stores of the passive settings.                               *)
store_passive ==
  /\ \/ ReloadGoto("enabled", "failure_threshold")
     \/ ReloadGoto("failure_threshold", "success_threshold")
     \/ ReloadGoto("success_threshold", "config")
  /\ passive' = [passive EXCEPT ![reload_pc] = new_config]
  /\ UNCHANGED << fileVars, new_config, reload_todo, clusterVars,
                  discoveryVars, config, router, route_ratelimiters,
                  origin_states >>

\* Drops what was queued meanwhile: an edit made during the reload is lost.
swap_config_mutant ==
  /\ ReloadGoto("config", "recv")
  /\ config' = new_config
  /\ new_config' = NoConfig
  /\ channel' = 0
  /\ UNCHANGED << file, watching, events, reload_todo, clusterVars,
                  discoveryVars, router, route_ratelimiters, origin_states,
                  passive >>

swap_config ==
  /\ ReloadGoto("config", "recv")
  /\ config' = new_config
  /\ new_config' = NoConfig
  /\ UNCHANGED << fileVars, reload_todo, clusterVars, discoveryVars, router,
                  route_ratelimiters, origin_states, passive >>

ReloadStep ==
  \/ watch \/ recv \/ debounce \/ drain \/ load
  \/ swap_router \/ clear_ratelimiters \/ insert_ratelimiter
  \/ add_origin_state \/ store_passive \/ swap_config

-----------------------------------------------------------------------------
(* The cluster creates or changes a service ...                            *)
apply_service(s) ==
  /\ Len(stream) < MaxStream
  /\ \E m \in Mappings[s] :
       /\ cluster' = [cluster EXCEPT ![s] = m]
       /\ stream' = Append(stream, m)
  /\ UNCHANGED << fileVars, reloadVars, discoveryVars, appState >>

(* ... or deletes one, which applied_objects() does not pass on.           *)
delete_service(s) ==
  /\ s \in Deletable
  /\ cluster[s] # NoOrigin
  /\ cluster' = [cluster EXCEPT ![s] = NoOrigin]
  /\ UNCHANGED << stream, fileVars, reloadVars, discoveryVars, appState >>

DiscoveryGoto(from, to) ==
  /\ discovery_pc = from
  /\ discovery_pc' = to

\* Leaves the old url of the service behind.
next_service_mutant ==
  /\ stream # << >>
  /\ stream' = Tail(stream)
  /\ \/ /\ Head(stream) # NoOrigin
        /\ DiscoveryGoto("next", "load")
        /\ k8s_origins' = [k8s_origins EXCEPT
             ![Head(stream)[1]] = IF @ = {} THEN {Head(stream)[2]} ELSE @]
     \/ /\ Head(stream) = NoOrigin
        /\ DiscoveryGoto("next", "next")
        /\ UNCHANGED k8s_origins
  /\ UNCHANGED << cluster, loaded, discovery_todo, fileVars, reloadVars,
                  appState >>

(* stream.next() yields a service: its pool's entry is cleared and gets    *)
(* the one url.  A service without an origin is ignored.                   *)
next_service ==
  /\ stream # << >>
  /\ stream' = Tail(stream)
  /\ \/ /\ Head(stream) # NoOrigin
        /\ DiscoveryGoto("next", "load")
        /\ k8s_origins' = [k8s_origins EXCEPT
             ![Head(stream)[1]] = {Head(stream)[2]}]
     \/ /\ Head(stream) = NoOrigin
        /\ DiscoveryGoto("next", "next")
        /\ UNCHANGED k8s_origins
  /\ UNCHANGED << cluster, loaded, discovery_todo, fileVars, reloadVars,
                  appState >>

(* The stream yields an error: wait 5 s.  The watcher then goes on where   *)
(* it was, or lists all services again, in any order.                      *)
Listings ==
  LET present == {s \in Services : cluster[s] # NoOrigin}
  IN  {q \in UNION {[1 .. n -> present] : n \in 0 .. MaxStream} :
         \A s \in present : \E i \in DOMAIN q :
           q[i] = s /\ \A j \in DOMAIN q : q[j] = s => j = i}

next_error ==
  /\ DiscoveryGoto("next", "pause")
  /\ \/ UNCHANGED stream
     \/ \E q \in Listings : stream' = [i \in DOMAIN q |-> cluster[q[i]]]
  /\ UNCHANGED << cluster, k8s_origins, loaded, discovery_todo, fileVars,
                  reloadVars, appState >>

resume ==
  /\ DiscoveryGoto("pause", "next")
  /\ UNCHANGED << k8s_origins, loaded, discovery_todo, clusterVars, fileVars,
                  reloadVars, appState >>

(* rebuild_router: state.config.load() ...                                 *)
load_config ==
  /\ DiscoveryGoto("load", "swap")
  /\ loaded' = config
  /\ UNCHANGED << k8s_origins, discovery_todo, clusterVars, fileVars,
                  reloadVars, appState >>

(* ... state.router.swap ...                                               *)
swap_k8s_router ==
  /\ DiscoveryGoto("swap", "states")
  /\ router' = from_config_with_k8s(loaded, k8s_origins)
  /\ loaded' = NoConfig
  /\ discovery_todo' = UNION {k8s_origins[p] : p \in Pools}
  /\ UNCHANGED << k8s_origins, clusterVars, fileVars, reloadVars, config,
                  route_ratelimiters, origin_states, passive >>

\* Adds the state of the last url only.
add_k8s_state_mutant ==
  /\ DiscoveryGoto("states", "next")
  /\ discovery_todo' = {}
  /\ \E u \in discovery_todo : origin_states' = origin_states \cup {u}
  /\ UNCHANGED << k8s_origins, loaded, clusterVars, fileVars, reloadVars,
                  config, router, route_ratelimiters, passive >>

(* ... and the loop over k8s_origins with origin_states.entry().or_default *)
add_k8s_state ==
  /\ \/ \E u \in discovery_todo :
          /\ DiscoveryGoto("states", "states")
          /\ origin_states' = origin_states \cup {u}
          /\ discovery_todo' = discovery_todo \ {u}
     \/ /\ discovery_todo = {}
        /\ DiscoveryGoto("states", "next")
        /\ UNCHANGED << origin_states, discovery_todo >>
  /\ UNCHANGED << k8s_origins, loaded, clusterVars, fileVars, reloadVars,
                  config, router, route_ratelimiters, passive >>

RebuildStep == load_config \/ swap_k8s_router \/ add_k8s_state

Environment ==
  \/ \E c \in Edits : edit_file(c)
  \/ \E s \in Services : apply_service(s) \/ delete_service(s)
  \/ Services # {} /\ next_error

Next ==
  \/ Environment
  \/ blocking_send
  \/ ReloadStep
  \/ next_service \/ resume \/ RebuildStep

Spec == Init /\ [][Next]_vars

(* The tasks and the notify thread run on and timers fire; nothing is      *)
(* assumed of the operator, the cluster and the watch stream's errors.     *)
FairSpec ==
  /\ Spec
  /\ WF_vars(blocking_send)
  /\ WF_vars(ReloadStep)
  /\ WF_vars(next_service \/ resume \/ RebuildStep)

-----------------------------------------------------------------------------
ReloadIdle == reload_pc \in {"watch", "recv", "debounce", "drain", "load"}
DiscoveryIdle == discovery_pc \in {"next", "pause"}

(* "Swap the config last (everything else is ready)": between two reloads  *)
(* the limiters, the passive settings and the states of the static origins *)
(* are those of the config in force, whatever discovery does meanwhile.    *)
ConfigReady ==
  ReloadIdle =>
    /\ route_ratelimiters = LimitersOf(config)
    /\ passive = [f \in PassiveFields |-> config]
    /\ StaticOrigins[config] \subseteq origin_states

(* Every candidate of the router in force has its OriginState, or the task *)
(* that will add it has not finished: no interleaving of a reload with a   *)
(* discovery leaves a candidate that balancers skip for ever.              *)
CandidatesHaveState ==
  ReloadIdle /\ DiscoveryIdle => candidates(router) \subseteq origin_states

(* Between two reloads the router routes what the config in force says.    *)
(* README.md: "file watcher swaps config atomically via arcswap".          *)
RouterFollowsConfig == ReloadIdle /\ DiscoveryIdle => router.config = config

(* The operator has stopped: no step changes the file or adds an event.    *)
EditsCease == <>[][file' = file /\ events' <= events]_vars

(* The last edit seen by the watcher takes effect: when edits cease with a *)
(* valid content written under watch, it becomes the config, through any   *)
(* debouncing, full channel, half-written content or reload under way.     *)
EditsTakeEffect ==
  \A c \in Configs :
    EditsCease /\ <>[](file = c) /\ <>(watching /\ file # c)
      => <>[](config = c)

(* Once watch errors cease, and as long as no reload is applied, a service *)
(* that keeps its origin, alone in its pool, ends up and stays among the   *)
(* candidates of the router, whatever it was before, through relists and   *)
(* invalid files.                                                          *)
ServicesGetRouted ==
  \A s \in Services : \A m \in Mappings[s] \ {NoOrigin} :
    (/\ [](new_config = NoConfig)
     /\ <>[](discovery_pc # "pause")
     /\ <>[](cluster[s] = m))
    => <>[](m[2] \in candidates(router))

-----------------------------------------------------------------------------
(* discovery.rs: "Remove old entry for this service, then add new one."    *)
(* With nothing left to receive, the entry of a pool holds the urls of the *)
(* services that are in that pool, no more and no fewer.                   *)
EntriesFollowServices ==
  discovery_pc = "next" /\ stream = << >> =>
    \A p \in Pools :
      k8s_origins[p] = {u \in Urls : \E s \in Services : cluster[s] = <<p, u>>}

(* README.md: "services annotated with `upstreamer/pool` map to origin     *)
(* urls automatically."  With both tasks at rest and nothing left to       *)
(* receive, what discovery has collected is among the candidates.          *)
ServicesAreCandidates ==
  reload_pc = "recv" /\ discovery_pc = "next" /\ stream = << >> =>
    \A p \in PoolNames[config] : k8s_origins[p] \subseteq candidates(router)
=============================================================================
