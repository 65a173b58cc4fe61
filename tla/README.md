# A TLA+ model of upstreamer

upstreamer is an HTTP reverse proxy: it matches a request to a route by host
and path, checks the client's rate limit, selects a healthy origin, forwards
the request and records how it went. Its configuration is reloaded while it
runs, and Kubernetes services join its pools. Nearly everything the tasks share
is lock-free: `ArcSwap` pointers, `DashMap` entries, relaxed atomics. What can
go wrong is therefore mostly a matter of interleaving, and that is what the
modules here are about.

Paths such as `reload.rs` are those under `src/src/`; the map from every
definition to its lines is in `PROJECT.json`.

## The system

| part | state it keeps | operations | used by |
|---|---|---|---|
| origin record (`balance/mod.rs`) | average latency, two streak counters, totals, `healthy` flag, each an atomic | `record_latency`, `record_success/failure(_with_threshold)`, `increment_requests` | request handlers, active checker (writers); balancers, health endpoint (readers) |
| balancers (`balance/round_robin.rs`, `weighted.rs`) | round robin: a counter | `select_origin` | request handlers |
| rate limiter (`middleware/ratelimit.rs`) | a bucket per client address | `check`, `cleanup_stale` | request handlers; cleanup task of `main.rs` |
| router (`route.rs`) | routes with patterns, key, candidates | `from_config`, `from_config_with_k8s`, `match_route` | handlers; built at startup, by reload and by discovery |
| config (`config/parser.rs`) | none | `load`, `validate` | `main.rs`, reload |
| application state (`state.rs`) | config, router, origin states, limiters, passive settings | `new` | everything |
| reload (`config/reload.rs`) | channel of 16 events | `watch_config` | writes the application state |
| discovery (`health/discovery.rs`) | urls per pool | `run_k8s_discovery`, `rebuild_router` | writes router and origin states |
| active checker (`health/checker.rs`) | targets fixed at startup | `run_active_checks` | records probes |
| health server, metrics, error pages, CLI, logging | none that others read | rendering and I/O | - |

What is hard about it:

- *Interleaving.* An outcome is recorded in three to seven atomic accesses, by
  any number of handlers and a prober at once. A balancer looks at one flag
  after another while they change.
- *Two writers.* Reload and discovery both rebuild the router, each from what
  it loaded earlier, and write five shared objects one after another.
- *Delivery.* File events pass through a blocking callback, a bounded channel
  and a debounce that throws messages away; service events lack deletions, and
  errors make the watcher list everything again.
- *Requests live long.* A handler reads the router, a limiter, origin states
  and passive settings at different moments, with an await without a timeout in
  between at which it may be dropped; reloads do not wait for it.
- *Recovery.* An unhealthy origin gets no requests; only a probe that is
  recorded under the right key brings it back.
- *Boundaries.* Counters wrap, buckets are evicted by idle time, weights may be
  zero, patterns may overlap in a short host.

What makes each part correct: streaks and flag follow the outcomes; no latency
sample is lost; a limiter is a token bucket whatever is evicted; after a reload
everything belongs to one config; every candidate can be selected; a selection
is justified by flags that were really so; a route is limited by its own limit;
what governs a request comes from configs it lived under; bad origins leave the
rotation and good ones return.
The hazards, each at its line with the properties aimed at it, are in
`PROJECT.json`.

## The modules

| module | models |
|---|---|
| `OriginState` | one origin's record; one action per atomic access; handlers and probers as `Recorders` |
| `OriginStateProofs` | its theorems |
| `TokenBucket` | the abstract promise of the limiter: one eternal bucket per client |
| `RateLimiter` | lazy refill, creation on first use, sweep of the cleanup task, with an explicit clock; refines `TokenBucket` |
| `RateLimiterProofs` | its theorems, the refinement among them |
| `ControlPlane` | composes the two writers of `AppState`: notify thread, channel, `watch_config`, `run_k8s_discovery`; operator and cluster are the environment |
| `ControlPlaneProofs` | its theorems |
| `Requests` | extends `ControlPlane` by requests in flight: `handle_request`, one step per read of the shared state |
| `RequestsProofs` | its theorems |
| `HealthChecks` | composes the active checker, round robin, the recording of outcomes and reloads: how origins leave the rotation and return |
| `HealthChecksProofs` | its theorems |
| `Balancer` | `select_origin` of the three algorithms, one candidate per step, under changing flags |
| `BalancerProofs` | its theorems, what the cumulative search computes among them |
| `Routing` | `validate`, `from_config`, route keys, limiter map, `match_route` and `match_glob` on strings, the limit a request meets |
| `RoutingProofs` | its theorems, that `match_glob` is globbing among them |
| `Induction` | induction over natural numbers, in a form the provers can use |
| `MC*` | values of the constants for TLC |

Definitions carry the names of the functions they model. Names ending in
`_mutant` are plausible bugs, used by no action: each shows that a property can
fail.

### OriginState

`pc[r]` is the next atomic access of recorder `r`. `increment_requests` is a
handler whose `proxy_request` has returned (any outcome, any latency); from
there `load_latency`, `cas_latency`/`retry_latency` are `record_latency`, and
`add_success`, `reset_failures`, `mark_healthy` or `add_failure`,
`reset_successes`, `add_total_failure`, `mark_unhealthy` are the two recording
functions. `probe_done` is a probe; it records no latency. The threshold is
chosen when recording starts, among those in use: handlers take the passive
settings as they are or the defaults 5 and 2 when passive tracking is off, the
checker its own. `compare_exchange_weak` may fail for no reason. The atomics
are relaxed; each property relates accesses that the code makes in program
order, and the model takes the accesses of all recorders in one order (see
"Not modelled").

`crossed` is a history variable: the last outcome was counted while one of the
other kind was between its `fetch_add` and its store to `healthy`.

### RateLimiter

Time advances in ticks of `1/Unit` second, and tokens are counted in units of
`1/Unit`, so `elapsed * rate` is exact. `check` is one step: the entry holds
the shard's lock. A sweep visits clients one by one, in any order, with checks
between. `Lag` bounds how late the cleanup task may be; without a bound nothing
could be said about evictions. tokio's interval catches up on missed ticks, as
`start_cleanup` does. The limiter is a route's: `clear_ratelimiters` and
`insert_ratelimiter` are the reload that throws it away with all its buckets
and puts a new one in place. Between the two, requests of the route are not
checked by it.

### ControlPlane

A config is a model value with its static origins, pool names and limited
routes; a router is the config and the discovered urls it was built from; a
limiter is marked with the config that made it. `load` stands for `load` and
`validate`: content that is half written, unparsable or invalid is `Invalid`.
Channel size, waiting events and waiting service events are bounded by
`ChannelSize`, `MaxEvents`, `MaxStream`. `service_to_origin` is a choice from
`Mappings`, `NoOrigin` being `None`. The cluster changes and deletes services
at any time; errors of the stream are followed by nothing or by a list of all
services in any order. Discovery is as if configured from the start, before the
first service event.

### Requests

A request goes through the phases of `handle_request`: `match_route` (the
router is loaded once), `check_limit` (the limiter is looked up under the
route's key in the map as it is now), `select_origin`, the await, `proxied` (the
origin's state is looked up again), `load_passive` (up to three separate
loads), `respond`. `client_leaves` drops it at the await. Verdicts of the
limiter and of the balancer are free choices here, the latter within what the
algorithm of the route allows: round robin passes over a candidate that has no
state, the weighted balancers (`WeightedKeys`) give it a weight. History fields
say which configs were in force or being applied during the request (`seen`), whether a
reload came (`quiet`), and whether its router was one that discovery had put in
the place of a newer one (`stale`, see `lost_update`). Handlers write nothing
that reload or discovery read, which `RequestsOnlyRead` proves.

### HealthChecks

Origins are `up`, `picky` (requests are answered, the health path is not with a
2xx), `erring` or `hanging`. Recording an outcome and selecting an origin are
one step each, their interleavings being the subject of `OriginState` and
`Balancer`. The checker is `run_active_checks` with targets and thresholds of
the startup config; `new_interval` and `probe_panics` are its two panics (an
interval of 0, a health path that makes no uri), after which nobody probes. A
url is its text without trailing slashes and the number of these: `base` trims
them, the keys of `origin_states` have them. With passive tracking off, the
handler records with the thresholds of `record_success` and `record_failure`.

### Balancer

A call scans candidates in steps; `wasUp` and `wasDown` are history variables
that collect the origins that were usable or unusable at some moment of it. One
call is followed: others share nothing with it but the round-robin counter,
which `other_call` moves at any time. Weights are multiples of
`Scale / (latency + 1)`, and the random number is any point of the total. Empty candidate lists, which the code refuses early,
do not occur: `RoutedIsServable` shows that validation excludes them.

### Routing

Strings are sequences of characters, options sequences of length at most one.
`match_glob`, the key and the limiter map are translated; `Glob` is the
reference that `match_glob` is compared with. `Char` is the alphabet, and the
assumption of the module is the shape that serde gives a file: any routes, with
any host pattern, path prefix, pools and limit, valid or not.

## What is checked

| run | instance | result |
|---|---|---|
| `origin_state` | two handlers, one prober, thresholds 2, counters mod 6, totals up to 3, samples 0 and 20 | `TypeOK`, `StreakExclusion`, `UnhealthyIsEarned`, `FlagAgreesUnlessCrossed`, `EwmaBounded`, `LatencySampleApplied` hold |
| `origin_state_live` | the same without latency, streaks mod 4, no bound on outcomes | `PersistentOutcomeDecides` holds |
| `rate_limiter` | two clients, burst 2, rate 1/2, idle limit 4, interval 2, lag 1, one reload, 12 ticks | `TypeOK`, `RateRespected`, `IdleBucketsEvicted` hold, `TokenBucket` is implemented |
| `requests` | one request at a time, two configs that differ in routes, limits, algorithms and origins, a service that moves between two pools and disappears, channel of 1 | `RequestsTypeOK`, `ConfigReady`, `CandidatesHaveState`, `GovernedByLiveConfig`, `QuietRequestsSeeOneConfig`, `AnswersAreRecorded`, `RefusalsAreJustified` hold |
| `control_plane_live` | two configs and invalid content, one service that changes its url, loses it and is deleted | `EditsTakeEffect`, `ServicesGetRouted` hold |
| `lost_update` | one edit, one service | `RouterFollowsConfig` fails |
| `siblings` | two services in one pool | `EntriesFollowServices` fails |
| `reload_drops_k8s` | one edit, one service | `ServicesAreCandidates` fails |
| `balancer` | all three algorithms, three origins, four candidates (one origin twice), weights 2, 2, 0, counter mod 5 | `TypeOK`, `PickIsJustified`, `NoneIsJustified`, `FasterWeighsMore` hold |
| `routing` | all patterns over `a`, `b`, `*` and hosts over `a`, `b` up to length 3; pairs of routes over 4 host patterns (one with a port), 2 path prefixes (one that looks like a port), 3 limits; files with each mistake | `RoutedByGlob`, `LimiterIsOwn`, `RoutedIsServable` hold |
| `health_checks` | two handlers, thresholds 1 and 2, six setups: a path url with a root url, an origin replaced by a reload and back, no checker, with and without passive tracking, and checkers that die | `TypeOK`, `StrandedStays`, `GoodOriginReturns`, `BadOriginLeaves`, `ErringOriginLeaves` hold |
| `probe_keys` | a path url and a root url | `ProbedOriginsRecover` fails |

Why the bounds are enough. A recorder's steps interact through a few fields, so
two recorders meet every pairwise race and the third adds a delayed store from
an earlier outcome; thresholds of 2 distinguish one outcome from a streak; small
counters make the wrap reachable. Twelve ticks cover creation, use, idleness,
eviction and re-creation of a bucket with a sweep under way. In the control
plane one reload and one rebuild under way already give every order of their
writes; the channel fills up; configs differ in routes, limited routes and
origins, so that leftovers show. Handlers do not influence each other nor the
writers, so one of them meets every order of its reads and their writes; the
proofs are for any number. One reload of a limiter (`MaxReloads`) suffices to
meet it before, during and after use; the theorems have any number. Streaks in
`HealthChecks` are counted up to the largest threshold, beyond which nothing
depends on them. The round-robin counter modulo 5 over 4
candidates wraps out of step. Matching only asks which characters are equal and
which are stars, and length 3 has every arrangement of a star with text before
and after it.

Deadlock is checked everywhere but in `origin_state` (totals are bounded) and
`routing` (a program that has refused its config stops).

### What the failing runs show

- `probe_keys`: `Url` renders `http://host:port` with a slash at the end, and
  that is the key of its state; the checker looks it up without. Every probe of
  such an origin is thrown away, and once five requests in a row have failed the
  origin stays out of the rotation for good. `StrandedStays` is the general
  fact: an unhealthy origin that no recorded probe reaches never returns, and
  the same happens to origins that a reload or discovery adds, and to all after
  the checker's task has panicked.
- `lost_update`: discovery loads the config, a reload completes, discovery swaps
  in a router of the old config. The theorem `RouterIsReloaded` shows that it
  takes discovery for that.
- `siblings`: urls are kept per pool and not per service, so a service's event
  removes its siblings. For the same reason a service that moves to another
  pool, or is deleted, leaves its url behind.
- `reload_drops_k8s`: a reload rebuilds the router without discovered origins.

### Provisos

Some properties hold only under a condition that the repository's documentation
does not mention. The condition is part of the property:

- `FlagAgreesUnlessCrossed`: a recorder decides on its own count, and its store
  to `healthy` can come after that of a later streak. Then the flag is wrong
  until the next outcome; for an origin that round robin skips, there may be
  none. `PersistentOutcomeDecides` shows that continued outcomes repair it.
- `GovernedByLiveConfig`, `RefusalsAreJustified`: where discovery has overtaken
  a reload, the route may be of an older config. `QuietRequestsSeeOneConfig`
  asks that no reload comes: else a request may be routed by one config and
  checked by the global limiter or by none, since `clear` comes before `insert`.
- `RateRespected`: each reload, of whatever change, gives every client of every
  limited route another full burst; requests that meet the gap between `clear`
  and `insert` are not counted by the limiter at all.
- `GoodOriginReturns`, `BadOriginLeaves`: the origin is probed, and uploads to
  it do not keep breaking off: an error of the client's body counts as a
  failure of the origin. Without probes a hanging origin stays healthy, since
  its requests never end.
- `AnswersAreRecorded`: reload and discovery swap the router before they add
  the states of its origins. In that window a weighted balancer may send a
  request to an origin without a state, and if the origin answers before the
  state is added, the outcome is recorded nowhere. The property says that this
  is the only way to lose one: under round robin the state is always there, and
  under the weighted algorithms it is there or the reload or the discovery
  under way has still to add it (`Owed`).
- `ErringOriginLeaves` is about passive tracking switched on. It asks that
  requests keep being forwarded, clients wait for the erring origin's answers
  and reloads cease, each of which restarts the round. Here code and
  documentation disagree: `src/README.md` line 101 says of
  `health.passive.enabled` "enable passive tracking", but in `server.rs` (line
  150, and the `else` at line 172) the switch only chooses between the
  configured thresholds and the fixed ones of `record_failure` (5) and
  `record_success` (2). With tracking off, five failures in a row still take an
  origin out of the rotation, and without probes it does not come back. The
  model does what the code does, in the setups `Replaced` and
  `Unprobed(FALSE)` of `MCHealthChecks`; no property claims either reading for
  the switch off.
- `FasterWeighsMore` is about weighted latency. Under weighted metrics the
  pressure is the constant 0, so every weight is 1000 times the configured one
  and latency is never looked at, although `README.md` line 18 says "falls back
  to latency-weighted in v1".
- `EditsTakeEffect`: the edit was made under watch. One made between the load in
  `main.rs` and `watcher.watch` is never read.
- `ConfigReady`: no reload is under way. During one, a request may be routed by
  the new config and limited by the global limiter or not at all (`clear` comes
  before `insert`), and judged by the old thresholds.
- `FullBeforeEvicted` (`RateRespected`, `ImplementsTokenBucket`): with
  `burst > 300 * rate`, which validation accepts, idling for 300 s buys a full
  bucket.
- `RoutedByGlob`: a pattern with two stars is compared literally; with one star,
  prefix and suffix may overlap in a short host (`a*a` matches `a`).
- `LimiterIsOwn`: `match_host = "*"` and an absent `match_host` share a limiter
  key but are no duplicates to `validate`. `WellFormed` is a second proviso,
  which the proof brought up: the key joins host and path with a `:`, so that
  host `a` with path `8:/x` has the key of host `a:8` with path `/x`. No request
  path begins like the former, but its limiter takes the place of the latter's,
  and `validate` does not ask for a leading slash.
- `UnhealthyIsEarned` is proved for a `total_failures` that has not reached the
  end of its 64 bits (`TotalHasRoom`); once it wraps, the count that shows
  a flag to be earned is gone. The run stays below it.

### Fairness

`OriginState!FairSpec`: a recorder that has started goes on, since there is no
await between its accesses. Nothing is assumed about outcomes arriving or about
an exchange winning its race; the property itself asks that outcomes continue.
`ControlPlane!FairSpec`: the notify thread and the two tasks take their enabled
steps (tokio schedules ready tasks, timers fire). Nothing is assumed about the
operator, the cluster or stream errors; where they must stop, the property says
so (`EditsCease`, no endless pauses). `HealthChecks!FairSpec`: the checker's
interval ticks and its probes end, by an answer or by their timeout, and a
request to an origin that does not hang returns. Nothing is assumed of clients,
origins, their changes or reloads.

## What is proved

All proofs are for every value of the constants, under the `ASSUME` of the
module that declares them.

- `OriginStateProofs`: `TypeCorrect`; `StreaksExclude`, inductive given the
  types; `EwmaStaysBounded`, strengthened by the bound on the values handlers
  hold between load and exchange (an old copy could otherwise bring back a
  larger average); `NoSampleLost`; `FlagFollowsStreak` from `FlagInv`: unless
  outcomes have crossed, recorders under way are all of one kind, and as soon as
  a streak is at its threshold the flag agrees or one of them will set it. With
  samples below 2^64/10 ns the bound also means that `sample + 9 * old` does not
  overflow. `UnhealthyWasEarned` from `EarnedInv`, which counts the recorders
  between their two increments: the failures recorded are the total and those
  recorders, and no streak is longer (`FailuresGrow`).
- `RateLimiterProofs`: `ClocksInvariant` and `LimiterTypeCorrect` (no timestamp
  in the future is needed for elapsed times to be natural numbers);
  `RefinesTokenBucket` under `FullBeforeEvicted`, that is
  `rate * max_idle >= burst`: the level of a client is its refilled bucket, or a
  full one when it has none; `check`, `Tick` and a reload map to steps of
  `TokenBucket`, a sweep to a stutter because a stale bucket is full (`StaleIsFull`);
  `RateIsRespected` from the invariant `Budget` (granted plus level never
  exceeds a burst per limiter plus rate times time); `IdleClientsLeave` from the invariant
  `Timing` on when the last sweep was due.
- `ControlPlaneProofs`: `LocalsInvariant` and `ControlPlaneTypeCorrect` (what a
  task holds at each point); `CandidatesGetState` from `StatesInv`: a router
  that lacks states was swapped in by a task that still has them to add, and
  the config that discovery loads is covered because the config is swapped
  last; `ConfigIsReady`; `RouterIsReloaded`, for no services.
- `RequestsProofs`: a behaviour of `Requests` is one of `ControlPlane`
  (`RequestsOnlyRead`), so all of the above holds of it. `RequestsTypeCorrect`;
  `AnswersCanBeRecorded` from `AllRecordable`: the candidates a request has
  loaded have their states or are owed them by the task that swapped the router
  in (`CandidatesAreOwed`, from `StatesInv`), states are only ever added, and
  what is owed is added before it is forgotten (`OwedIsPaid`); and from one
  inductive invariant `AllSound`, `RequestsAreGoverned`,
  `QuietRequestsAreUniform` and `RefusalsHaveReason`. Of a single request it
  says that every config in hand is among those it has seen, that whatever it
  has taken belongs to one of them, and that before the first reload there is
  one. Each read is sound because limiters, passive settings and, unless
  overtaken, the router are always of a config in hand (`SettingsAreLive`,
  `RouterInvariant`).
- `HealthChecksProofs`: `HealthChecksTypeCorrect` (streaks are bounded by the
  largest threshold, the prober's index is one of a target, the pick of round
  robin is a candidate of the route) and `StrandedForEver`. A flag is written
  only for the origin of a waiting request or for the trimmed url of a target;
  the pick of round robin is a healthy candidate, so no new request waits for a
  stranded origin, and the targets never change.
- `BalancerProofs`: `SelectsByWeight`, what the cumulative search of
  `weighted_random_select` can return for any weights; `BalancerTypeCorrect`;
  `PicksAreJustified` and `GivingUpIsJustified` from one inductive invariant on
  what a call has found so far: candidates already passed are in `wasDown`, or
  weigh nothing, and those with a weight are in `wasUp`. Round robin comes
  round to every candidate from wherever the counter stands (`TurnIsFull`).
  `FasterIsPreferred` from what a latency makes of a weight.
- `RoutingProofs`: the invariant is `Served`, that all tables come from one
  valid file and the last answer is the one they give. `LimitersAreOwn`: keys,
  character by character, are different for well-formed routes that say
  different things (`KeysDiffer`), so that the last route inserted under a key
  is the only one. `RoutedRequestsAreServable`: pools that are not empty, one
  after the other, are not empty (`FlattenedIsFull`), and every entry of the
  limiter map is the limit of a valid route. `GlobIsPrefixAndSuffix`, for all
  strings: up to the star a pattern reaches only what it spells (`BeforeStar`),
  from there on everything that begins and ends as it does (`AfterStar`).
  `RequestsAreRoutedByGlob` follows, since the first match is the least index
  of equal sets.
- `Induction`: `UpTo` is induction for a set of numbers instead of a predicate.
  The library's induction theorems take an operator, which the provers cannot
  instantiate; `UpTo` takes a set, and is proved from the library's theorem
  that a well-founded relation has minimal elements. The recursive functions
  inside `Cumulative`, `FlattenSeq` and `Glob` are shown to exist and to have
  their properties that way.

Only model-checked: the liveness properties (`PersistentOutcomeDecides`,
`EditsTakeEffect`, `ServicesGetRouted`, `GoodOriginReturns`, `BadOriginLeaves`,
`ErringOriginLeaves`), which rest on fairness. Every invariant and every action
property that a run finds to hold is also a theorem.

## Not modelled

- Memory orderings weaker than an interleaving of the accesses: relaxed stores
  to different atomics may become visible out of order. Each read-modify-write
  is still atomic, so `LatencySampleApplied` and the counters are not affected.
- f64 rounding, in the limiter and in the weights. `weighted_random_select`
  falls back to the last index when rounding leaves the random point at the
  total.
- TOML and serde, TLS, HTTP framing, header copying, body streaming, metrics,
  logging, command line.
- The health endpoint and the self-metrics thread: they read, field by field,
  and nothing in the proxy depends on what they report.
- Error pages: a map filled at startup that decides only the body of the
  proxy's own answers.
- Exit of the process when a server returns (`main.rs`, `select!`), for example
  after an error of `accept` (`server.rs` line 28): no state outlives it. `main`
  then returns `Ok`, so the exit status is 0.
- Settings that a reload does not touch by design (global limiter, listen
  address) and by omission (active checks, error pages, Kubernetes settings).
- `observation_window` is parsed and used nowhere, and `README.md` gives `false`
  as the default of `enabled` for both health checks where `parser.rs` has
  `true`; there is no behaviour to model in either.

## Plan

The parts that carry state are modelled, and the safety properties are proved.
What is left is to prove more of what the failing runs leave open: that without
reloads discovered services stay candidates, that with one service per pool
entries follow services, and that a probed origin whose key is its trimmed url
is never stranded.
