---------------------------- MODULE HealthChecks ----------------------------
(***************************************************************************)
(* How origins leave the rotation and come back: the active checker        *)
(* (src/src/health/checker.rs, run_active_checks), the request handlers    *)
(* (src/src/server.rs) that select by round robin among healthy origins    *)
(* and record what became of the request, and reloads that change the      *)
(* route's candidates.  Recording an outcome and selecting an origin are   *)
(* one step each: OriginState and Balancer have their interleavings.       *)
(*                                                                         *)
(* Of a url's text only its trailing slashes matter: origin_states and the *)
(* router use Url::to_string(), the checker trims the slashes off.         *)
(***************************************************************************)
EXTENDS Integers, Sequences

CONSTANTS
  Urls,      \* [host, slashes]: a url is its text up to the trailing
             \* slashes, and how many of them there are
  Setups,    \* the settings and files the proxy may be run with
  Handlers,  \* requests that may be under way at once
  healthy_threshold, unhealthy_threshold,  \* health.active
  success_threshold, failure_threshold,    \* health.passive
  default_success, default_failure         \* 2 and 5 in the code

\* "picky": requests are answered, the health path is not answered with 2xx.
\* "erring": refused, reset or 5xx.  "hanging": no answer comes.
Modes == {"up", "picky", "erring", "hanging"}

\* routes: candidate lists of the files to come, the first one's included.
\* interval_ok, path_ok: interval is not 0, url and health path make a uri;
\* ProxyConfig::validate asks for neither.  modes: what origins do meanwhile.
SetupType ==
  [targets : Seq([url : Urls, path_ok : BOOLEAN]), routes : SUBSET Seq(Urls),
   active : BOOLEAN, interval_ok : BOOLEAN, passive : BOOLEAN,
   modes : SUBSET Modes]

Thresholds ==
  {healthy_threshold, unhealthy_threshold, success_threshold,
   failure_threshold, default_success, default_failure}

Urls_of(t) == [i \in DOMAIN t |-> t[i].url]

ASSUME HealthChecksAssumption ==
  /\ \A u \in Urls : u = [host |-> u.host, slashes |-> u.slashes]
  /\ \A u \in Urls : u.slashes \in Nat /\ u.host # ""
  /\ Thresholds \subseteq Nat
  /\ \A s \in Setups :
       /\ s \in SetupType
       /\ Urls_of(s.targets) \in s.routes /\ << >> \notin s.routes
       /\ "up" \in s.modes

VARIABLES
  setup,       \* which of them this is; main read it
  mode,        \* what each origin does
  candidates,  \* of the route, in the router in force
  counter,     \* of its RoundRobinBalancer
  origin_states,          \* urls that have a state
  healthy, consecutive_successes, consecutive_failures,
  origin,      \* whose answer each handler awaits, or NoUrl, or Dropped
  checker,     \* the checker's task, as in Checkers
  next_target  \* index of the target it probes next

Checkers == {"off", "spawned", "wait", "probe", "dead"}

record == << healthy, consecutive_successes, consecutive_failures >>
vars == << setup, mode, candidates, counter, origin_states, record, origin,
           checker, next_target >>

Range(s) == {s[i] : i \in DOMAIN s}

\* Streaks are counted up to the largest threshold; more makes no difference.
MaxStreak == CHOOSE m \in Thresholds : \A t \in Thresholds : t <= m

\* A handler that awaits nothing: it returned, or was dropped at its await.
NoUrl == [host |-> "", slashes |-> 0]
Dropped == [host |-> "", slashes |-> 1]
Waits(h) == origin[h] \notin {NoUrl, Dropped}

TypeOK ==
  /\ setup \in Setups
  /\ mode \in [Urls -> Modes]
  /\ candidates \in setup.routes
  /\ counter \in 0 .. Len(candidates) - 1
  /\ origin_states \subseteq Urls
  /\ healthy \in [Urls -> BOOLEAN]
  /\ consecutive_successes \in [Urls -> 0 .. MaxStreak]
  /\ consecutive_failures \in [Urls -> 0 .. MaxStreak]
  /\ origin \in [Handlers -> Urls \cup {NoUrl, Dropped}]
  /\ checker \in Checkers
  /\ next_target \in 1 .. Len(setup.targets)

(* AppState::new and the spawns of main: a state for each origin of the    *)
(* config, whose origins are the checker's targets for good.               *)
Init ==
  /\ setup \in Setups
  /\ mode = [u \in Urls |-> "up"]
  /\ candidates = Urls_of(setup.targets)
  /\ counter = 0
  /\ origin_states = Range(candidates)
  /\ healthy = [u \in Urls |-> TRUE]
  /\ consecutive_successes = [u \in Urls |-> 0]
  /\ consecutive_failures = [u \in Urls |-> 0]
  /\ origin = [h \in Handlers |-> NoUrl]
  /\ checker = IF setup.active THEN "spawned" ELSE "off"
  /\ next_target = 1

-----------------------------------------------------------------------------
\* Definitions whose names end in _mutant are plausible bugs that no action
\* uses: they show that each property can be violated.

Longer(n) == IF n < MaxStreak THEN n + 1 ELSE n

record_success_with_threshold(u, threshold) ==
  /\ consecutive_successes' =
       [consecutive_successes EXCEPT ![u] = Longer(@)]
  /\ consecutive_failures' = [consecutive_failures EXCEPT ![u] = 0]
  /\ healthy' = [healthy EXCEPT
       ![u] = @ \/ consecutive_successes[u] + 1 >= threshold]

record_failure_with_threshold(u, threshold) ==
  /\ consecutive_failures' = [consecutive_failures EXCEPT ![u] = Longer(@)]
  /\ consecutive_successes' = [consecutive_successes EXCEPT ![u] = 0]
  /\ healthy' = [healthy EXCEPT
       ![u] = @ /\ consecutive_failures[u] + 1 < threshold]

-----------------------------------------------------------------------------
(* An origin goes down, hangs or comes back.                               *)
change_mode(u) ==
  /\ u \in origin_states
  /\ \E m \in setup.modes \ {mode[u]} : mode' = [mode EXCEPT ![u] = m]
  /\ UNCHANGED << setup, candidates, counter, origin_states, record,
                  origin, checker, next_target >>

\* Also removes the states of origins that are no longer in the config.
reload_mutant(route) ==
  /\ candidates' = route
  /\ counter' = 0
  /\ origin_states' = Range(route)
  /\ UNCHANGED << setup, mode, record, origin, checker, next_target >>

(* A reload: a router with other candidates and a new balancer, and states *)
(* for those that have none.  The checker is not told, and the states of   *)
(* origins that are gone stay as they are.                                 *)
reload(route) ==
  /\ candidates' = route
  /\ counter' = 0
  /\ origin_states' = origin_states \cup Range(route)
  /\ UNCHANGED << setup, mode, record, origin, checker, next_target >>

-----------------------------------------------------------------------------
(* select_origin: the first healthy candidate from the counter on.         *)
Scan == [i \in 1 .. Len(candidates) |->
           candidates[((counter + i - 1) % Len(candidates)) + 1]]

\* Rather an unhealthy origin than none.
Available_mutant == {i \in DOMAIN Scan : Scan[i] \in origin_states}

Available == {i \in DOMAIN Scan :
                Scan[i] \in origin_states /\ healthy[Scan[i]]}

(* A request arrives and is forwarded, or answered 502 when no candidate   *)
(* is healthy.                                                             *)
handle_request(h) ==
  /\ ~Waits(h)
  /\ counter' = (counter + 1) % Len(candidates)
  /\ \/ \E i \in Available :
          /\ \A j \in Available : i <= j
          /\ origin' = [origin EXCEPT ![h] = Scan[i]]
     \/ Available = {} /\ UNCHANGED origin
  /\ UNCHANGED << setup, mode, candidates, origin_states, record, checker,
                  next_target >>

Finish(h) == origin' = [origin EXCEPT ![h] = NoUrl]

\* An error of proxy_request is returned before it is recorded.
record_outcome_mutant(u, ok) ==
  IF ok
    THEN record_success_with_threshold(u,
           IF setup.passive THEN success_threshold ELSE default_success)
    ELSE UNCHANGED record

(* With passive tracking off, record_success and record_failure use their  *)
(* own thresholds.                                                         *)
record_outcome(u, ok) ==
  IF ok
    THEN record_success_with_threshold(u,
           IF setup.passive THEN success_threshold ELSE default_success)
    ELSE record_failure_with_threshold(u,
           IF setup.passive THEN failure_threshold ELSE default_failure)

(* proxy_request returns: anything below 500 is a success.  There is no    *)
(* timeout: with an origin that hangs it does not return.                  *)
proxied(h) ==
  /\ Waits(h)
  /\ mode[origin[h]] # "hanging"
  /\ record_outcome(origin[h], mode[origin[h]] \in {"up", "picky"})
  /\ Finish(h)
  /\ UNCHANGED << setup, mode, candidates, counter, origin_states, checker,
                  next_target >>

(* The client breaks its upload off; the error of collect_body, too, is    *)
(* recorded as a failure of the origin.                                    *)
upload_fails(h) ==
  /\ Waits(h)
  /\ record_outcome(origin[h], FALSE)
  /\ Finish(h)
  /\ UNCHANGED << setup, mode, candidates, counter, origin_states, checker,
                  next_target >>

(* The client closes the connection: serve_connection drops the handler at *)
(* its await, and nothing is recorded.                                     *)
client_leaves(h) ==
  /\ Waits(h)
  /\ origin' = [origin EXCEPT ![h] = Dropped]
  /\ UNCHANGED << setup, mode, candidates, counter, origin_states, record,
                  checker, next_target >>

-----------------------------------------------------------------------------
(* The task begins: tokio's interval panics on a period of 0.              *)
new_interval ==
  /\ checker = "spawned"
  /\ checker' = IF setup.interval_ok THEN "wait" ELSE "dead"
  /\ UNCHANGED << setup, mode, candidates, counter, origin_states, record,
                  origin, next_target >>

tick ==
  /\ checker = "wait"
  /\ checker' = "probe"
  /\ UNCHANGED << setup, mode, candidates, counter, origin_states, record,
                  origin, next_target >>

\* base: o.url.as_str().trim_end_matches('/')
base(u) == [u EXCEPT !.slashes = 0]

\* Does not start over after the last target.
Advance_mutant == checker' = checker /\ next_target' = next_target + 1

\* On to the next target, after the last one to the next tick.
Advance ==
  IF next_target < Len(setup.targets)
    THEN checker' = checker /\ next_target' = next_target + 1
    ELSE checker' = "wait" /\ next_target' = 1

\* A probe that times out is not recorded.
probe_mutant ==
  LET target == setup.targets[next_target]
      key == base(target.url)
  IN  /\ checker = "probe" /\ target.path_ok
      /\ IF key \in origin_states /\ mode[target.url] # "hanging"
           THEN IF mode[target.url] = "up"
                  THEN record_success_with_threshold(key, healthy_threshold)
                  ELSE record_failure_with_threshold(key, unhealthy_threshold)
           ELSE UNCHANGED record
      /\ Advance
      /\ UNCHANGED << setup, mode, candidates, counter, origin_states,
                      origin >>

(* One probe, up to its answer or its timeout: 2xx is a success, anything  *)
(* else a failure.  It is recorded if the trimmed url is a key.            *)
probe ==
  LET target == setup.targets[next_target]
      key == base(target.url)
  IN  /\ checker = "probe" /\ target.path_ok
      /\ IF key \in origin_states
           THEN IF mode[target.url] = "up"
                  THEN record_success_with_threshold(key, healthy_threshold)
                  ELSE record_failure_with_threshold(key, unhealthy_threshold)
           ELSE UNCHANGED record
      /\ Advance
      /\ UNCHANGED << setup, mode, candidates, counter, origin_states,
                      origin >>

(* The url and the health path make no uri: expect() ends the task.        *)
probe_panics ==
  /\ checker = "probe" /\ ~setup.targets[next_target].path_ok
  /\ checker' = "dead"
  /\ UNCHANGED << setup, mode, candidates, counter, origin_states, record,
                  origin, next_target >>

run_active_checks == new_interval \/ tick \/ probe \/ probe_panics

Environment ==
  \/ \E u \in Urls : change_mode(u)
  \/ \E route \in setup.routes : reload(route)
  \/ \E h \in Handlers :
       handle_request(h) \/ upload_fails(h) \/ client_leaves(h)

Next ==
  \/ Environment
  \/ \E h \in Handlers : proxied(h)
  \/ run_active_checks

Spec == Init /\ [][Next]_vars

(* The checker's timers fire, and an origin that does not hang answers.    *)
(* Nothing is assumed of clients, origins and the operator.                *)
FairSpec ==
  /\ Spec
  /\ WF_vars(run_active_checks)
  /\ \A h \in Handlers : WF_vars(proxied(h))

-----------------------------------------------------------------------------
Targeted(u) == \E i \in DOMAIN setup.targets : setup.targets[i].url = u

(* The origins whose probes count: the checker runs and does not panic,    *)
(* had the origin in its config and finds its state.                       *)
Probed(u) ==
  /\ setup.active /\ setup.interval_ok
  /\ \A i \in DOMAIN setup.targets : setup.targets[i].path_ok
  /\ Targeted(u) /\ base(u) = u

UploadFails(u) == \E h \in Handlers : origin[h] = u /\ upload_fails(h)

(* An origin that is probed and stays up ends up healthy for good,         *)
(* whatever it went through before, as long as uploads to it do not keep   *)
(* breaking off: no request is needed, and neither other origins that hang *)
(* nor its removal from the config by a reload and its return matter.      *)
GoodOriginReturns ==
  \A u \in Urls :
    (/\ Probed(u)
     /\ <>[](mode[u] = "up") /\ <>[][~UploadFails(u)]_vars)
    => <>[]healthy[u]

(* An origin that is probed and stays down or hangs ends up unhealthy,     *)
(* although requests to it may never return: the probe has a timeout.      *)
BadOriginLeaves ==
  \A u \in Urls :
    (Probed(u) /\ <>[](mode[u] \in {"erring", "hanging"})) => <>[]~healthy[u]

Forwards == \E h \in Handlers : ~Waits(h) /\ Waits(h)'
LeavesFrom(u) == \E h \in Handlers : origin[h] = u /\ origin'[h] = Dropped
Reloads == \E route \in setup.routes : reload(route)

(* With passive tracking on, an erring candidate leaves the rotation by    *)
(* the requests it fails alone, probed or not, when requests keep being    *)
(* forwarded, its clients wait and reloads cease: round robin does not     *)
(* pass it over while it is healthy, though others hang.                   *)
ErringOriginLeaves ==
  \A u \in Urls :
    (/\ setup.passive
     /\ <>[](mode[u] = "erring" /\ u \in Range(candidates))
     /\ []<><<Forwards>>_vars
     /\ <>[][~Reloads]_vars
     /\ <>[][~LeavesFrom(u)]_vars)
    => <>[]~healthy[u]

-----------------------------------------------------------------------------
(* No request awaits the origin, and no probe will be recorded for it.     *)
Unattended(u) ==
  /\ \A h \in Handlers : origin[h] # u
  /\ \/ checker \in {"off", "dead"}
     \/ \A i \in DOMAIN setup.targets : base(setup.targets[i].url) # u

(* An unhealthy origin that nobody attends to stays unhealthy for ever,    *)
(* whatever becomes of it: the balancer passes it over, so no request can  *)
(* bring the successes that would bring requests back (round_robin.rs,     *)
(* checker.rs line 63), and a reload that adds it again keeps its record.  *)
StrandedStays ==
  [][\A u \in Urls : ~healthy[u] /\ Unattended(u)
                         => (~healthy[u] /\ Unattended(u))']_vars

-----------------------------------------------------------------------------
(* README.md: "active and passive health checking - periodic probes and    *)
(* in-band failure tracking", and of healthy_threshold "consecutive        *)
(* successes to mark healthy".  An origin of the config that stays up      *)
(* while active checks run ends up healthy.                                *)
ProbedOriginsRecover ==
  \A u \in Urls :
    (/\ setup.active /\ setup.interval_ok /\ Targeted(u)
     /\ <>[](mode[u] = "up") /\ <>[][~UploadFails(u)]_vars)
    => <>[]healthy[u]
=============================================================================
