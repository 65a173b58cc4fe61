---------------------------- MODULE RateLimiter ----------------------------
(***************************************************************************)
(* src/src/middleware/ratelimit.rs: token buckets refilled lazily, created *)
(* on a client's first request and evicted by the background task of       *)
(* src/src/bin/upstreamer/main.rs, which visits every limiter each         *)
(* Interval and drops the buckets idle for more than MaxIdle.  The limiter *)
(* is a route's: each reload of src/src/config/reload.rs throws it away    *)
(* and puts a new one in its place, here with an unchanged rate and burst. *)
(*                                                                         *)
(* Time is counted in ticks of 1/Unit second.  A tick adds `rate` units of *)
(* 1/Unit token to a bucket, so elapsed * refill_rate is exact: what the   *)
(* code's f64 rounds off is not modelled.  DashMap::entry holds the lock   *)
(* of the client's shard, so check is one step; retain visits the shards   *)
(* one after another, so a sweep is one step per client.                   *)
(***************************************************************************)
EXTENDS Integers

CONSTANTS
  Ips,         \* client addresses
  Unit,        \* ticks in one second, units in one token
  Rate,        \* rate: u32
  Burst,       \* burst: u32
  MaxIdle,     \* 300 s in the code
  Interval,    \* 60 s in the code
  Lag,         \* a sweep is over at most this long after it was due
  MaxReloads,  \* bound on the reloads
  MaxTime      \* bound on the clock

ASSUME RateLimiterAssumption ==
  /\ Unit \in Nat \ {0}
  /\ Rate \in Nat \ {0}
  /\ Burst \in Nat \ {0}
  /\ MaxIdle \in Nat
  /\ Interval \in Nat \ {0}
  /\ Lag \in Nat
  /\ MaxReloads \in Nat
  /\ MaxTime \in Nat

VARIABLES
  now,        \* Instant::now()
  installed,  \* route_ratelimiters holds the limiter
  buckets,    \* the bucket of each client, or NoBucket
  sweep,      \* clients whose shard the running sweep has still to visit
  due,        \* when the cleanup task's interval ticks next
  reply,      \* answers given at this instant: <<ip, verdict>>
  granted,    \* history: requests admitted per client
  reloads     \* history: limiters thrown away

vars == << now, installed, buckets, sweep, due, reply, granted, reloads >>

max_tokens == Burst * Unit

NoBucket == [tokens |-> -1, last_refill |-> -1, last_used |-> -1]

Buckets == [tokens : 0 .. max_tokens, last_refill : Nat, last_used : Nat]

TypeOK ==
  /\ now \in Nat
  /\ installed \in BOOLEAN
  /\ buckets \in [Ips -> Buckets \cup {NoBucket}]
  /\ sweep \in SUBSET Ips
  /\ due \in Nat
  /\ reply \subseteq Ips \X {"allowed", "limited"}
  /\ granted \in [Ips -> Nat]
  /\ reloads \in Nat

\* RateLimiter::new; the first tick of a tokio interval is immediate.
Init ==
  /\ now = 0
  /\ installed = TRUE
  /\ buckets = [ip \in Ips |-> NoBucket]
  /\ sweep = {}
  /\ due = 0
  /\ reply = {}
  /\ granted = [ip \in Ips |-> 0]
  /\ reloads = 0

-----------------------------------------------------------------------------
\* TokenBucket::new
New == [tokens |-> max_tokens, last_refill |-> now, last_used |-> now]

\* Names ending in _mutant are plausible bugs that no action uses; here, a
\* refill without the min.
Refilled_mutant(tokens, elapsed) == tokens + Rate * elapsed

\* (tokens + elapsed * refill_rate).min(max_tokens)
Refilled(tokens, elapsed) ==
  IF tokens + Rate * elapsed <= max_tokens
    THEN tokens + Rate * elapsed
    ELSE max_tokens

Refill(b) == Refilled(b.tokens, now - b.last_refill)

\* The bucket as check finds it or makes it.
Entry(ip) == IF buckets[ip] = NoBucket THEN New ELSE buckets[ip]

\* last_refill stays: the same elapsed time is credited again.
Touched_mutant(b, tokens) ==
  [tokens |-> tokens, last_refill |-> b.last_refill, last_used |-> now]

\* What try_consume leaves, whether it took a token or not.
Touched(b, tokens) ==
  [tokens |-> tokens, last_refill |-> now, last_used |-> now]

(* check: refill, then take a whole token or refuse.                       *)
check(ip) ==
  /\ installed
  /\ \/ /\ Refill(Entry(ip)) >= Unit
        /\ buckets' = [buckets EXCEPT
             ![ip] = Touched(Entry(ip), Refill(Entry(ip)) - Unit)]
        /\ reply' = reply \cup {<<ip, "allowed">>}
        /\ granted' = [granted EXCEPT ![ip] = @ + 1]
     \/ /\ Refill(Entry(ip)) < Unit
        /\ buckets' = [buckets EXCEPT
             ![ip] = Touched(Entry(ip), Refill(Entry(ip)))]
        /\ reply' = reply \cup {<<ip, "limited">>}
        /\ granted' = granted
  /\ UNCHANGED << now, installed, sweep, due, reloads >>

\* The wrong constant: evicts after one interval.
is_stale_mutant(b) == now - b.last_used > Interval

is_stale(b) == now - b.last_used > MaxIdle

\* MissedTickBehavior::Delay: every late tick postpones the following ones.
start_cleanup_mutant ==
  /\ sweep = {} /\ now >= due
  /\ sweep' = IF installed THEN Ips ELSE {}
  /\ due' = now + Interval
  /\ UNCHANGED << now, installed, buckets, reply, granted, reloads >>

(* The cleanup task's interval ticks.  A late tick does not postpone the   *)
(* following ones (MissedTickBehavior::Burst).                             *)
start_cleanup ==
  /\ sweep = {} /\ now >= due
  /\ sweep' = IF installed THEN Ips ELSE {}
  /\ due' = due + Interval
  /\ UNCHANGED << now, installed, buckets, reply, granted, reloads >>

(* retain comes to the client's shard.                                     *)
cleanup_stale(ip) ==
  /\ ip \in sweep
  /\ sweep' = sweep \ {ip}
  /\ buckets' = IF buckets[ip] # NoBucket /\ is_stale(buckets[ip])
                  THEN [buckets EXCEPT ![ip] = NoBucket]
                  ELSE buckets
  /\ UNCHANGED << now, installed, due, reply, granted, reloads >>

(* A reload clears route_ratelimiters, all buckets with it, whether or not *)
(* the route's limit is another one now.  It waits for a sweep under way:  *)
(* the iterator of the cleanup task holds the shard.  Until the new        *)
(* limiter is there, requests of the route are not checked here.           *)
clear_ratelimiters ==
  /\ reloads < MaxReloads
  /\ installed /\ sweep = {}
  /\ installed' = FALSE
  /\ buckets' = [ip \in Ips |-> NoBucket]
  /\ reloads' = reloads + 1
  /\ UNCHANGED << now, sweep, due, reply, granted >>

insert_ratelimiter ==
  /\ ~installed
  /\ installed' = TRUE
  /\ UNCHANGED << now, buckets, sweep, due, reply, granted, reloads >>

(* When the running sweep was due, or the next one is.                     *)
Owed == IF sweep = {} THEN due ELSE due - Interval

Tick ==
  /\ now < MaxTime
  /\ now < Owed + Lag
  /\ now' = now + 1
  /\ reply' = {}
  /\ UNCHANGED << installed, buckets, sweep, due, granted, reloads >>

Next ==
  \/ Tick
  \/ start_cleanup
  \/ clear_ratelimiters
  \/ insert_ratelimiter
  \/ \E ip \in Ips : check(ip) \/ cleanup_stale(ip)

Spec == Init /\ [][Next]_vars

-----------------------------------------------------------------------------
(* The units at a client's disposal: those of its bucket once refilled, a  *)
(* full bucket when it has none.                                           *)
Level(ip) == Refill(Entry(ip))

Abstract == INSTANCE TokenBucket
  WITH Cap <- max_tokens, level <- [ip \in Ips |-> Level(ip)]

(* An idle bucket is full before it may be evicted: rate * 300 >= burst.   *)
(* ProxyConfig::validate does not ask for it.                              *)
FullBeforeEvicted == Rate * MaxIdle >= max_tokens

(* Lazy refill, creation on first use and eviction together behave as one  *)
(* ideal bucket per client, and only a reload fills it.                    *)
ImplementsTokenBucket == Abstract!Spec

(* Never more requests of a client admitted by check than one burst, one   *)
(* more for each reload that replaced the limiter, and what the rate has   *)
(* added since the start.                                                  *)
RateRespected ==
  \A ip \in Ips :
    granted[ip] * Unit <= (reloads + 1) * max_tokens + Rate * now

(* The map does not keep idle clients: no bucket stays unused for longer   *)
(* than max_idle plus one cleanup interval (plus the cleanup task's lag).  *)
IdleBucketsEvicted ==
  \A ip \in Ips : buckets[ip] # NoBucket
    => now - buckets[ip].last_used <= MaxIdle + Interval + Lag
=============================================================================
