------------------------------ MODULE Requests ------------------------------
(***************************************************************************)
(* Requests (src/src/server.rs, handle_request) under way while reload and *)
(* discovery, as ControlPlane has them, change the state they read.  A     *)
(* handler takes one thing after another from that state: the router, the  *)
(* route's limiter, the states of the origins and, once the origin has     *)
(* answered, the origin's state again and three passive settings.  Each is *)
(* one step, so that writes may come between.                              *)
(*                                                                         *)
(* A request is known by the key of the route it matches where a config    *)
(* has that route.  Verdicts of limiters and health flags are free:        *)
(* RateLimiter, HealthChecks and Balancer are about them.                  *)
(***************************************************************************)
EXTENDS ControlPlane

CONSTANTS
  Handlers,    \* requests that may be under way at once
  RouteKeys,   \* [Configs -> SUBSET Keys]: routes of each config
  WeightedKeys,\* [Configs -> SUBSET Keys]: routes whose lb_algorithm is
               \* weighted_latency or weighted_metrics, not round_robin
  PassiveOn,   \* configs with health.passive.enabled
  Global,      \* mark of the global limiter
  HasGlobal,   \* whether the config of the start has a global limit
  NoUrl        \* no origin selected

ASSUME RequestsAssumption ==
  /\ Keys # {}
  /\ RouteKeys \in [Configs -> SUBSET Keys]
  /\ \A c \in Configs : LimitedKeys[c] \subseteq RouteKeys[c]
  /\ WeightedKeys \in [Configs -> SUBSET Keys]
  /\ PassiveOn \subseteq Configs
  /\ HasGlobal \in BOOLEAN
  /\ Global \notin Configs \cup {NoConfig}

VARIABLES
  req,       \* the request of each handler
  overtaken  \* history: discovery has put a router in the place of one that
             \* a reload had made from a newer config

requestsVars == << vars, req, overtaken >>

Statuses == {"none", "not found", "too many requests", "bad gateway"}

(* A field is set from where the handler learns it to where it needs it    *)
(* last, and otherwise as in Idle.                                         *)
Request ==
  [phase : {"idle", "limit", "select", "await", "done"} \cup PassiveFields,
   key : Keys,                                \* route it matches
   config : Configs,                          \* config of the loaded router
   origins : SUBSET Urls,                     \* its candidates
   limiter : Configs \cup {NoConfig, Global}, \* that it was checked by
   origin : Urls \cup {NoUrl},                \* selected
   judged : SUBSET Configs,                   \* passive settings it has read
   status : Statuses,                         \* the proxy's own answer
   seen : SUBSET Configs,                     \* history: configs in force or
                                              \* being applied meanwhile
   quiet : BOOLEAN,                           \* history: no reload meanwhile
   stale : BOOLEAN]                           \* history: router was overtaken

RequestsTypeOK ==
  /\ TypeOK
  /\ req \in [Handlers -> Request]
  /\ overtaken \in BOOLEAN

Live == {config, new_config} \ {NoConfig}

\* A handler without a request; its key means nothing.
Idle ==
  [phase |-> "idle", key |-> CHOOSE k \in Keys : TRUE,
   config |-> InitialConfig, origins |-> {}, limiter |-> NoConfig,
   origin |-> NoUrl, judged |-> {}, status |-> "none",
   seen |-> {}, quiet |-> TRUE, stale |-> FALSE]

RequestsInit ==
  /\ Init
  /\ req = [h \in Handlers |-> Idle]
  /\ overtaken = FALSE

-----------------------------------------------------------------------------
\* Names ending in _mutant are plausible bugs that no action uses.

\* not_found, rate_limited and bad_gateway.
Answered(r, status) ==
  [Idle EXCEPT !.phase = "done", !.status = status,
               !.key = r.key, !.seen = r.seen, !.stale = r.stale]

\* Matches against the routes of the start.
match_route_mutant(h, k) ==
  LET r == [Idle EXCEPT
              !.phase = "limit", !.key = k, !.config = router.config,
              !.origins = candidates(router),
              !.seen = Live, !.quiet = new_config = NoConfig,
              !.stale = overtaken]
  IN  /\ req[h].phase = "idle"
      /\ req' = [req EXCEPT ![h] =
           IF k \in RouteKeys[InitialConfig] THEN r
                                             ELSE Answered(r, "not found")]

(* The router is loaded once; a request that matches none of its routes is *)
(* answered 404.                                                           *)
match_route(h, k) ==
  LET r == [Idle EXCEPT
              !.phase = "limit", !.key = k, !.config = router.config,
              !.origins = candidates(router),
              !.seen = Live, !.quiet = new_config = NoConfig,
              !.stale = overtaken]
  IN  /\ req[h].phase = "idle"
      /\ req' = [req EXCEPT ![h] =
           IF k \in RouteKeys[router.config] THEN r
                                             ELSE Answered(r, "not found")]

\* Falls back on the global limiter as soon as there is one.
LimiterOf_mutant(k) == IF HasGlobal THEN Global ELSE route_ratelimiters[k]

LimiterOf(k) ==
  IF route_ratelimiters[k] # NoConfig \/ ~HasGlobal
    THEN route_ratelimiters[k]
    ELSE Global

(* The limiter of the route is looked up in the map as it is now, and      *)
(* asked while the entry is locked; failing that, the global one.          *)
check_limit(h) ==
  LET r == [req[h] EXCEPT !.phase = "select",
                          !.limiter = LimiterOf(req[h].key)]
  IN  /\ req[h].phase = "limit"
      /\ \/ req' = [req EXCEPT ![h] = r]
         \/ /\ r.limiter # NoConfig
            /\ req' = [req EXCEPT ![h] = Answered(r, "too many requests")]

Weighted(r) == r.key \in WeightedKeys[r.config]

(* A candidate of the loaded router, or 502.  Round robin passes over one  *)
(* that has no state yet; for the weighted balancers it has a weight all   *)
(* the same.                                                               *)
select_origin(h) ==
  /\ req[h].phase = "select"
  /\ \/ \E u \in req[h].origins :
          /\ u \in origin_states \/ Weighted(req[h])
          /\ req' = [req EXCEPT ![h] = [Idle EXCEPT
               !.phase = "await", !.origin = u,
               !.key = req[h].key, !.config = req[h].config,
               !.seen = req[h].seen, !.quiet = req[h].quiet]]
     \/ req' = [req EXCEPT ![h] = Answered(req[h], "bad gateway")]

(* proxy_request returns, with an answer or an error.  Without a state the *)
(* outcome is not recorded.                                                *)
proxied(h) ==
  /\ req[h].phase = "await"
  /\ req' = [req EXCEPT ![h] = [Idle EXCEPT
       !.phase = IF req[h].origin \in origin_states THEN "enabled" ELSE "done",
       !.seen = req[h].seen, !.quiet = req[h].quiet]]

(* The client closes the connection: the handler is dropped at its await.  *)
client_leaves(h) ==
  /\ req[h].phase = "await"
  /\ req' = [req EXCEPT ![h] = Idle]

\* Takes the thresholds of the start.
load_passive_mutant(h) ==
  /\ req[h].phase = "enabled"
  /\ req' = [req EXCEPT ![h].phase = "done",
                        ![h].judged = {passive["enabled"], InitialConfig}]

(* passive_enabled is read, and if it is set both thresholds.              *)
load_passive(h) ==
  LET f == req[h].phase
      Read(next) == req' = [req EXCEPT
        ![h].phase = next, ![h].judged = @ \cup {passive[f]}]
  IN  \/ /\ f = "enabled"
         /\ Read(IF passive[f] \in PassiveOn THEN "failure_threshold"
                                             ELSE "done")
      \/ f = "failure_threshold" /\ Read("success_threshold")
      \/ f = "success_threshold" /\ Read("done")

(* The answer is sent; after an error of proxy_request the connection is   *)
(* closed without one.                                                     *)
respond(h) ==
  /\ req[h].phase = "done"
  /\ req' = [req EXCEPT ![h] = Idle]

HandlerStep(h) ==
  \/ \E k \in Keys : match_route(h, k)
  \/ check_limit(h) \/ select_origin(h) \/ proxied(h) \/ client_leaves(h)
  \/ load_passive(h) \/ respond(h)

(* The config the router should be of: that of the reload under way once   *)
(* it has swapped its router in, else the one in force.                    *)
RouterConfig ==
  IF reload_pc \in {"clear", "limiters", "states", "config"} \cup PassiveFields
    THEN new_config ELSE config

(* Reload, discovery or their environment take a step.                     *)
ControlStep ==
  /\ Next
  /\ overtaken' = \/ swap_k8s_router /\ loaded # RouterConfig
                  \/ overtaken /\ router' = router
  /\ req' = [h \in Handlers |->
       IF req[h].phase = "idle" THEN req[h]
       ELSE [req[h] EXCEPT !.seen = @ \cup Live',
                           !.quiet = @ /\ new_config' = NoConfig]]

RequestsNext ==
  \/ ControlStep
  \/ UNCHANGED << vars, overtaken >> /\ \E h \in Handlers : HandlerStep(h)

RequestsSpec == RequestsInit /\ [][RequestsNext]_requestsVars

-----------------------------------------------------------------------------
Active == {h \in Handlers : req[h].phase # "idle"}

\* The handler works with the router it has loaded.
UsesRouter(h) == req[h].phase \in {"limit", "select"}

(* Whatever a request was routed, limited and judged by belongs to a       *)
(* config that was in force or being applied while the request was under   *)
(* way, however long it waited and however many reloads it lived through;  *)
(* the route only, where discovery has overtaken a reload, may be older.   *)
GovernedByLiveConfig ==
  \A h \in Active :
    /\ req[h].limiter \in req[h].seen \cup {NoConfig, Global}
    /\ req[h].judged \subseteq req[h].seen
    /\ UsesRouter(h) => req[h].stale \/ req[h].config \in req[h].seen

(* A request during which no reload is applied sees one config: that one   *)
(* routes it, and has it limited by the route's own limiter if the route   *)
(* has one, by the global limiter otherwise, never by neither.             *)
QuietRequestsSeeOneConfig ==
  \A h \in Active : req[h].quiet /\ req[h].status = "none" =>
    \E c \in Configs :
      /\ req[h].seen = {c}
      /\ req[h].judged \subseteq {c}
      /\ UsesRouter(h) => req[h].stale \/ req[h].config = c
      /\ req[h].phase = "select" =>
           req[h].limiter = IF req[h].key \in LimitedKeys[c] THEN c
                            ELSE IF HasGlobal THEN Global ELSE NoConfig

(* The origin states that the reload or the discovery under way has still  *)
(* to add for the router it has swapped in.                                *)
Owed ==
  discovery_todo \cup
    CASE reload_pc \in {"clear", "limiters"} -> StaticOrigins[new_config]
      [] reload_pc = "states" -> reload_todo
      [] OTHER -> {}

(* The outcome of a forwarded request can be recorded: its origin has a    *)
(* state, which no reload or discovery takes away meanwhile, even when the *)
(* origin is no candidate any more (handle_request looks it up again after *)
(* the await).  Only a weighted balancer may send a request to an origin   *)
(* without one, and then the task that brought the origin has not finished *)
(* and will still add it: what answers later than that is recorded too.    *)
AnswersAreRecorded ==
  \A h \in Handlers : req[h].phase = "await" =>
    \/ req[h].origin \in origin_states
    \/ Weighted(req[h]) /\ req[h].origin \in Owed

(* A request is told 404 only if a config it lived under lacks the route,  *)
(* and 429 only if one of them limits the route or a global limit exists.  *)
RefusalsAreJustified ==
  \A h \in Active :
    /\ req[h].status = "not found" =>
         req[h].stale \/ \E c \in req[h].seen : req[h].key \notin RouteKeys[c]
    /\ req[h].status = "too many requests" =>
         HasGlobal \/ \E c \in req[h].seen : req[h].key \in LimitedKeys[c]
=============================================================================
