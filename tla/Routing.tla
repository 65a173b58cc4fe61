------------------------------ MODULE Routing ------------------------------
(***************************************************************************)
(* From a configuration to the route and the rate limit of a request:      *)
(* ProxyConfig::validate, Router::from_config, the limiter map of          *)
(* AppState::new, Router::match_route, and the limit that handle_request   *)
(* looks up under the route's key.                                         *)
(*                                                                         *)
(* Strings are sequences of characters, because matching and key building  *)
(* are what the properties are about.  An Option is a sequence of length   *)
(* 0 or 1.  A limiter stands for its rate and burst (see RateLimiter).     *)
(***************************************************************************)
EXTENDS Integers, Sequences, SequencesExt, FiniteSets

CONSTANTS
  Char,     \* characters, as strings of length 1
  Configs,  \* configuration files main may load
  Hosts,    \* Host headers, << >> when there is none
  Paths     \* request paths

Text == Seq(Char)
Option(S) == {x \in Seq(S) : Len(x) <= 1}
Limit == [rate : Nat, burst : Nat]
Route == [match_host : Option(Text), match_path : Option(Text),
          pools : Seq(Seq([scheme : STRING])), ratelimit : Option(Limit)]

\* What serde can have made of a file, whether validate accepts it or not.
ASSUME RoutingAssumption ==
  /\ {"*", ":", "/"} \subseteq Char
  /\ Configs \subseteq [routes : Seq(Route), ratelimit : Option(Limit),
                        error_pages : Option(STRING)]
  /\ Hosts \subseteq Text /\ Paths \subseteq Text

VARIABLES
  phase,               \* "start", "serving" or "exited"
  config,              \* AppState::config, as an Option
  router,              \* the RouteEntry sequence
  route_ratelimiters,  \* [key -> limit]
  answer               \* the last request and how it was handled, an Option

vars == << phase, config, router, route_ratelimiters, answer >>

None == << >>
Some(x) == << x >>

Init ==
  /\ phase = "start"
  /\ config = None
  /\ router = << >>
  /\ route_ratelimiters = << >>
  /\ answer = None

-----------------------------------------------------------------------------
ValidLimit(limit) == limit # None => limit[1].rate > 0 /\ limit[1].burst > 0

\* Names ending in _mutant are plausible bugs that no action uses; here, a
\* pool without origins gets through.
ValidRoute_mutant(route) ==
  /\ Len(route.pools) > 0
  /\ \A p \in DOMAIN route.pools : \A o \in DOMAIN route.pools[p] :
       route.pools[p][o].scheme = "http"
  /\ ValidLimit(route.ratelimit)

ValidRoute(route) ==
  /\ Len(route.pools) > 0
  /\ \A p \in DOMAIN route.pools :
       /\ Len(route.pools[p]) > 0
       /\ \A o \in DOMAIN route.pools[p] : route.pools[p][o].scheme = "http"
  /\ ValidLimit(route.ratelimit)

\* Duplicates are found by comparing the Options as they are written.
Duplicate(r, s) == r.match_host = s.match_host /\ r.match_path = s.match_path

validate(c) ==
  /\ \A i \in DOMAIN c.routes :
       /\ ValidRoute(c.routes[i])
       /\ \A j \in 1 .. i - 1 : ~Duplicate(c.routes[i], c.routes[j])
  /\ ValidLimit(c.ratelimit)
  /\ c.error_pages # Some("missing directory")

\* The key leaves the host out.
route_key_mutant(route) ==
  << ":" >> \o (IF route.match_path = None THEN << "*" >> ELSE route.match_path[1])

\* format!("{}:{}"), with "*" for None.
route_key(route) ==
  (IF route.match_host = None THEN << "*" >> ELSE route.match_host[1])
  \o << ":" >>
  \o (IF route.match_path = None THEN << "*" >> ELSE route.match_path[1])

from_config(c) ==
  [i \in DOMAIN c.routes |->
     [match_host |-> c.routes[i].match_host,
      match_path |-> c.routes[i].match_path,
      key        |-> route_key(c.routes[i]),
      candidates |-> FlattenSeq(c.routes[i].pools)]]

\* Inserted in the order of the routes: of two with the same key, the last
\* stays.
RouteLimiters(c) ==
  LET limited == {i \in DOMAIN c.routes : c.routes[i].ratelimit # None}
      last(k) == CHOOSE i \in limited :
                   /\ route_key(c.routes[i]) = k
                   /\ \A j \in limited : route_key(c.routes[j]) = k => j <= i
  IN  [k \in {route_key(c.routes[i]) : i \in limited} |->
         c.routes[last(k)].ratelimit[1]]

(* main loads a file and validates it, and either builds AppState ...      *)
start(c) ==
  /\ phase = "start"
  /\ validate(c)
  /\ phase' = "serving"
  /\ config' = Some(c)
  /\ router' = from_config(c)
  /\ route_ratelimiters' = RouteLimiters(c)
  /\ UNCHANGED answer

(* ... or ends with the error.                                             *)
refuse(c) ==
  /\ phase = "start"
  /\ ~validate(c)
  /\ phase' = "exited"
  /\ UNCHANGED << config, router, route_ratelimiters, answer >>

-----------------------------------------------------------------------------
Stars(pattern) == {i \in DOMAIN pattern : pattern[i] = "*"}

\* The part after the star is forgotten.
match_glob_mutant(value, pattern) ==
  IF Cardinality(Stars(pattern)) = 1
    THEN \E i \in Stars(pattern) : IsPrefix(SubSeq(pattern, 1, i - 1), value)
    ELSE value = pattern

\* split('*') gives two parts only for a pattern with one star; any other
\* pattern is compared as it stands.  "*" alone has two empty parts.
match_glob(value, pattern) ==
  IF Cardinality(Stars(pattern)) = 1
    THEN \E i \in Stars(pattern) :
           /\ IsPrefix(SubSeq(pattern, 1, i - 1), value)
           /\ IsSuffix(SubSeq(pattern, i + 1, Len(pattern)), value)
    ELSE value = pattern

Matches(route, host, path) ==
  /\ route.match_host # None => match_glob(host, route.match_host[1])
  /\ route.match_path # None => IsPrefix(route.match_path[1], path)

\* The index of the first route that matches, 0 for none.
match_route(host, path) ==
  SelectInSeq(router, LAMBDA route : Matches(route, host, path))

\* The limiter of the route's key, or else the global one, or else none.
LimitOf(route) ==
  IF route.key \in DOMAIN route_ratelimiters
    THEN Some(route_ratelimiters[route.key])
    ELSE config[1].ratelimit

(* handle_request up to the choice of an origin.                           *)
handle_request(host, path) ==
  LET r == match_route(host, path)
  IN  /\ phase = "serving"
      /\ answer' = Some([host  |-> host,
                         path  |-> path,
                         route |-> r,
                         limit |-> IF r = 0 THEN None ELSE LimitOf(router[r])])
      /\ UNCHANGED << phase, config, router, route_ratelimiters >>

Next ==
  \/ \E c \in Configs : start(c) \/ refuse(c)
  \/ \E host \in Hosts, path \in Paths : handle_request(host, path)

Spec == Init /\ [][Next]_vars

-----------------------------------------------------------------------------
\* What "*" means in a glob: any characters, or none.  reach[j] has the
\* lengths of the beginnings of value that the first j characters match.
Glob(value, pattern) ==
  LET reach[j \in 0 .. Len(pattern)] ==
        IF j = 0 THEN {0}
        ELSE IF pattern[j] = "*"
          THEN {i \in 0 .. Len(value) : \E k \in reach[j - 1] : k <= i}
          ELSE {i \in 1 .. Len(value) :
                  i - 1 \in reach[j - 1] /\ value[i] = pattern[j]}
  IN  Len(value) \in reach[Len(pattern)]

DocumentedMatch(route, host, path) ==
  /\ route.match_host # None => Glob(host, route.match_host[1])
  /\ route.match_path # None => IsPrefix(route.match_path[1], path)

DocumentedRoute(host, path) ==
  SelectInSeq(config[1].routes,
              LAMBDA route : DocumentedMatch(route, host, path))

\* One star at most, and a host long enough for what stands around it.
WithinGlobLimits(route, host) ==
  route.match_host # None =>
    \/ Stars(route.match_host[1]) = {}
    \/ /\ Cardinality(Stars(route.match_host[1])) = 1
       /\ Len(host) >= Len(route.match_host[1]) - 1

(* README.md: match_host is "host matching (supports `*` glob)".  For      *)
(* patterns with one star and hosts not shorter than the pattern's         *)
(* letters, prefix-and-suffix matching is globbing: the request goes to    *)
(* the first route whose glob and path prefix match, or to not_found.      *)
RoutedByGlob ==
  (/\ answer # None
   /\ \A i \in DOMAIN router : WithinGlobLimits(router[i], answer[1].host))
  => answer[1].route = DocumentedRoute(answer[1].host, answer[1].path)

\* What a route says, with "*" for what it leaves out.
WrittenOut(route) ==
  << IF route.match_host = None THEN << "*" >> ELSE route.match_host[1],
     IF route.match_path = None THEN << "*" >> ELSE route.match_path[1] >>

\* A host name has no slash, and a path prefix that could match begins with
\* one.  validate asks for neither.
WellFormed(route) ==
  /\ \A i \in DOMAIN WrittenOut(route)[1] : WrittenOut(route)[1][i] # "/"
  /\ \/ Len(WrittenOut(route)[2]) = 0 \/ WrittenOut(route)[2][1] = "/"
     \/ WrittenOut(route)[2] = << "*" >>

(* A route that has a ratelimit is held to that one, a route without to    *)
(* the global one: no route is limited by what another one configures,     *)
(* unless one of them writes out the "*" that the other leaves out, which  *)
(* validate does not see as a duplicate.  route_key joins host and path    *)
(* into one string with a ":", which a host has before its port; no other  *)
(* two routes come to the same as long as hosts have no slash and path     *)
(* prefixes begin with one ("a" and "8:/x" make the key of "a:8" and "/x", *)
(* and the limiter of a route no request can match would be in force).     *)
LimiterIsOwn ==
  (/\ answer # None /\ answer[1].route > 0
   /\ \A i \in DOMAIN config[1].routes : WellFormed(config[1].routes[i])
   /\ \A i, j \in DOMAIN config[1].routes :
        i # j => WrittenOut(config[1].routes[i]) # WrittenOut(config[1].routes[j]))
  => LET own == config[1].routes[answer[1].route].ratelimit
     IN  answer[1].limit = IF own # None THEN own ELSE config[1].ratelimit

(* What the balancers and the rate limiter take for granted: a request     *)
(* that is routed has candidates to choose from, all of them http, and a   *)
(* limiter whose rate and burst are positive.                              *)
RoutedIsServable ==
  answer # None /\ answer[1].route > 0 =>
    LET candidates == router[answer[1].route].candidates
    IN  /\ Len(candidates) > 0
        /\ \A i \in DOMAIN candidates : candidates[i].scheme = "http"
        /\ ValidLimit(answer[1].limit)
=============================================================================
