------------------------- MODULE RateLimiterProofs -------------------------
(***************************************************************************)
(* Theorems about RateLimiter, for any clients, rate, burst and timing.    *)
(* What depends on eviction assumes FullBeforeEvicted.                     *)
(***************************************************************************)
EXTENDS RateLimiter, TLAPS

(* The products the proofs meet, as facts about naturals.                  *)
LEMMA Products ==
  /\ max_tokens \in Nat
  /\ \A n \in Nat : Rate * n \in Nat
  /\ \A n \in Nat : Rate * (n + 1) = Rate * n + Rate
  /\ \A m, n \in Nat : m <= n => Rate * m <= Rate * n
  /\ \A n \in Nat : n * Unit \in Nat /\ (n + 1) * Unit = n * Unit + Unit
  /\ \A n, m \in Nat : n * m \in Nat /\ (n + 1) * m = n * m + m
BY RateLimiterAssumption DEF max_tokens

(* The refill of try_consume stays within the bucket, adds nothing in no   *)
(* time, and credits an interval tick by tick or all at once alike.        *)
LEMMA RefilledFacts ==
  ASSUME NEW t \in 0 .. max_tokens, NEW e \in Nat
  PROVE  /\ Refilled(t, e) \in 0 .. max_tokens
         /\ Refilled(t, 0) = t
         /\ Refilled(max_tokens, e) = max_tokens
         /\ Refilled(t, e + 1) = Refilled(Refilled(t, e), 1)
         /\ Refilled(t, e + 1) <= Refilled(t, e) + Rate
<1> DEFINE R == Rate * e
<1>1. R \in Nat /\ Rate * (e + 1) = R + Rate /\ Rate * 0 = 0 /\ Rate * 1 = Rate
  BY Products, RateLimiterAssumption
<1> HIDE DEF R
<1>2. Rate * e = R
  BY DEF R
<1> QED BY <1>1, <1>2, Products, RateLimiterAssumption DEF Refilled

(* With FullBeforeEvicted, a bucket idle beyond max_idle is full.          *)
LEMMA StaleIsFull ==
  ASSUME FullBeforeEvicted, NEW t \in 0 .. max_tokens, NEW e \in Nat,
         e > MaxIdle
  PROVE  Refilled(t, e) = max_tokens
<1> DEFINE R == Rate * e
<1>1. R \in Nat /\ R >= max_tokens /\ max_tokens \in Nat
  BY Products, RateLimiterAssumption DEF FullBeforeEvicted
<1> HIDE DEF R
<1>2. Refilled(t, e) = IF t + R <= max_tokens THEN t + R ELSE max_tokens
  BY DEF Refilled, R
<1> QED BY <1>1, <1>2

(* NoBucket is not a bucket.                                               *)
LEMMA NoBucketApart == NoBucket \notin Buckets
BY Products DEF NoBucket, Buckets

(* Buckets in use were last refilled when last used, and not in the future.*)
Clocks ==
  \A ip \in Ips : buckets[ip] # NoBucket =>
    /\ buckets[ip].last_refill = buckets[ip].last_used
    /\ buckets[ip].last_used <= now

(* What check finds is a bucket, last touched in the past.                 *)
LEMMA EntryIsBucket ==
  ASSUME TypeOK, Clocks, NEW ip \in Ips
  PROVE  /\ Entry(ip) \in Buckets
         /\ Entry(ip).tokens \in 0 .. max_tokens
         /\ now - Entry(ip).last_refill \in Nat
         /\ Level(ip) \in 0 .. max_tokens
<1>1. CASE buckets[ip] = NoBucket
  <2>1. Entry(ip) = New /\ New.tokens = max_tokens /\ New.last_refill = now
    BY <1>1 DEF Entry, New
  <2>2. New \in Buckets
    BY Products DEF TypeOK, New, Buckets
  <2> QED BY <2>1, <2>2, Products, RefilledFacts DEF Level, Refill, TypeOK
<1>2. CASE buckets[ip] # NoBucket
  <2>1. Entry(ip) = buckets[ip] /\ buckets[ip] \in Buckets
    BY <1>2 DEF TypeOK, Entry
  <2>2. now - buckets[ip].last_refill \in Nat
    BY <1>2, <2>1 DEF TypeOK, Clocks, Buckets
  <2>3. buckets[ip].tokens \in 0 .. max_tokens
    BY <2>1 DEF Buckets
  <2> QED BY <2>1, <2>2, <2>3, RefilledFacts DEF Level, Refill
<1> QED BY <1>1, <1>2

(* The inductive invariant behind the theorems below.                      *)
Inv == TypeOK /\ Clocks

(* Clocks and types hold in every reachable state: a bucket's tokens stay  *)
(* within 0 .. burst, whatever checks, sweeps and time do (try_consume).   *)
LEMMA ClocksInvariant == Spec => []Inv
<1>1. Init => Inv
  BY DEF Init, Inv, TypeOK, Clocks
<1>2. Inv /\ [Next]_vars => Inv'
  <2> SUFFICES ASSUME Inv, [Next]_vars PROVE Inv'
    OBVIOUS
  <2> USE RateLimiterAssumption DEF Inv
  <2>1. ASSUME NEW ip \in Ips, check(ip) PROVE Inv'
    <3>1. PICK t \in 0 .. max_tokens :
            buckets' = [buckets EXCEPT ![ip] = Touched(Entry(ip), t)]
      <4>1. Refill(Entry(ip)) \in 0 .. max_tokens
        BY EntryIsBucket DEF Level
      <4> QED BY <2>1, <4>1, Products DEF check
    <3>2. Touched(Entry(ip), t) \in Buckets
      BY DEF Touched, Buckets, TypeOK
    <3>3. /\ now' = now /\ sweep' = sweep /\ due' = due
          /\ reply' \subseteq Ips \X {"allowed", "limited"}
          /\ granted' \in [Ips -> Nat]
          /\ installed' = installed /\ reloads' = reloads
      BY <2>1 DEF check, TypeOK
    <3>4. TypeOK'
      BY <3>1, <3>2, <3>3 DEF TypeOK
    <3>5. Clocks'
      BY <3>1, <3>3 DEF TypeOK, Clocks, Touched
    <3> QED BY <3>4, <3>5
  <2>2. ASSUME NEW ip \in Ips, cleanup_stale(ip) PROVE Inv'
    BY <2>2 DEF cleanup_stale, TypeOK, Clocks
  <2>3. CASE start_cleanup
    BY <2>3 DEF start_cleanup, TypeOK, Clocks
  <2>4. CASE Tick
    <3>1. TypeOK'
      BY <2>4 DEF Tick, TypeOK
    <3>2. ASSUME NEW ip \in Ips, buckets[ip] # NoBucket
          PROVE  buckets[ip].last_used <= now + 1
      <4>1. buckets[ip] \in Buckets
        BY <3>2 DEF TypeOK
      <4> QED BY <3>2, <4>1 DEF TypeOK, Clocks, Buckets
    <3> QED BY <2>4, <3>1, <3>2 DEF Tick, Clocks
  <2>5. CASE clear_ratelimiters
    <3>1. \A ip \in Ips : buckets'[ip] = NoBucket
      BY <2>5 DEF clear_ratelimiters
    <3>2. buckets' \in [Ips -> Buckets \cup {NoBucket}]
      BY <2>5 DEF clear_ratelimiters
    <3>3. installed' \in BOOLEAN
      BY <2>5, Zenon DEF clear_ratelimiters
    <3>4. reloads' \in Nat /\ UNCHANGED << now, sweep, due, reply, granted >>
      BY <2>5 DEF clear_ratelimiters, TypeOK
    <3>5. TypeOK'
      BY <3>2, <3>3, <3>4, Zenon DEF TypeOK
    <3> QED BY <3>1, <3>5 DEF Clocks
  <2>6. CASE insert_ratelimiter
    BY <2>6 DEF insert_ratelimiter, TypeOK, Clocks
  <2>7. CASE UNCHANGED vars
    BY <2>7 DEF vars, TypeOK, Clocks
  <2> QED BY <2>1, <2>2, <2>3, <2>4, <2>5, <2>6, <2>7 DEF Next
<1> QED BY <1>1, <1>2, PTL DEF Spec

(* The limiter's state keeps its types; in particular no bucket ever holds *)
(* more than burst tokens or fewer than none.                              *)
THEOREM LimiterTypeCorrect == Spec => []TypeOK
<1>1. Inv => TypeOK
  BY DEF Inv
<1> QED
  BY <1>1, ClocksInvariant, PTL

(* How each step moves a client's Level: check takes a token or leaves it, *)
(* a sweep leaves it when an evicted bucket is full, a tick refills it.    *)
LEMMA LevelOfCheck ==
  ASSUME Inv, NEW ip \in Ips, check(ip), NEW q \in Ips
  PROVE  Level(q)' = IF q = ip /\ Level(ip) >= Unit THEN Level(ip) - Unit
                                                     ELSE Level(q)
<1> USE RateLimiterAssumption DEF Inv
<1>1. CASE q = ip
  <2>1. Level(ip) \in 0 .. max_tokens /\ max_tokens \in Nat
    BY EntryIsBucket, Products
  <2> DEFINE t == IF Level(ip) >= Unit THEN Level(ip) - Unit ELSE Level(ip)
  <2>2. t \in 0 .. max_tokens
    BY <2>1
  <2>3. buckets'[ip] = Touched(Entry(ip), t) /\ now' = now
    BY <2>1 DEF check, TypeOK, Level
  <2> HIDE DEF t
  <2>4. Touched(Entry(ip), t) \in Buckets
    BY <2>2 DEF Touched, Buckets, TypeOK
  <2>5. Level(ip)' = Refilled(t, now - now)
    <3>1. Entry(ip)' = Touched(Entry(ip), t)
      BY <2>3, <2>4, NoBucketApart DEF Entry
    <3> QED BY <2>3, <3>1 DEF Level, Refill, Touched
  <2>6. Level(ip)' = t
    BY <2>2, <2>5, RefilledFacts DEF TypeOK
  <2> QED BY <1>1, <2>6 DEF t
<1>2. CASE q # ip
  BY <1>2 DEF check, Level, Entry, New, Refill, TypeOK
<1> QED BY <1>1, <1>2

LEMMA LevelOfSweep ==
  ASSUME Inv, FullBeforeEvicted, NEW ip \in Ips, cleanup_stale(ip),
         NEW q \in Ips
  PROVE  Level(q)' = Level(q)
<1> USE RateLimiterAssumption DEF Inv
<1>1. CASE q = ip /\ buckets[ip] # NoBucket /\ is_stale(buckets[ip])
  <2>1. Entry(ip) = buckets[ip] /\ now - Entry(ip).last_refill > MaxIdle
    BY <1>1 DEF Entry, is_stale, Clocks
  <2>2. Level(ip) = max_tokens
    BY <2>1, EntryIsBucket, StaleIsFull DEF Level, Refill
  <2>3. Entry(ip)' = New /\ now' = now
    BY <1>1 DEF cleanup_stale, Entry, New, TypeOK
  <2>4. Level(ip)' = Refilled(max_tokens, now - now)
    BY <2>3 DEF Level, Refill, New
  <2>5. Level(ip)' = max_tokens
    BY <2>4, RefilledFacts, Products DEF TypeOK
  <2> QED BY <1>1, <2>2, <2>5
<1>2. CASE ~(q = ip /\ buckets[ip] # NoBucket /\ is_stale(buckets[ip]))
  BY <1>2 DEF cleanup_stale, Level, Entry, New, Refill, TypeOK
<1> QED BY <1>1, <1>2

LEMMA LevelOfTick ==
  ASSUME Inv, Tick, NEW q \in Ips
  PROVE  /\ Level(q)' = Refilled(Level(q), 1)
         /\ Level(q)' \in Nat
         /\ Level(q)' <= Level(q) + Rate
<1> USE RateLimiterAssumption DEF Inv
<1>1. now' = now + 1 /\ buckets' = buckets /\ now \in Nat
  BY DEF Tick, TypeOK
<1>2. CASE buckets[q] = NoBucket
  <2>1. Level(q) = Refilled(max_tokens, now - now)
    BY <1>2 DEF Level, Refill, Entry, New
  <2>2. Level(q)' = Refilled(max_tokens, (now + 1) - (now + 1))
    BY <1>1, <1>2 DEF Level, Refill, Entry, New
  <2>3. max_tokens \in 0 .. max_tokens
    BY Products
  <2>4. Level(q) = max_tokens /\ Level(q)' = max_tokens
    BY <1>1, <2>1, <2>2, <2>3, RefilledFacts
  <2>5. Refilled(max_tokens, 1) = max_tokens
    BY <2>3, RefilledFacts
  <2> QED BY <2>4, <2>5, Products
<1>3. CASE buckets[q] # NoBucket
  <2> DEFINE t == Entry(q).tokens
             e == now - Entry(q).last_refill
  <2>1. t \in 0 .. max_tokens /\ e \in Nat
    BY EntryIsBucket
  <2>2. Level(q) = Refilled(t, e)
    BY DEF Level, Refill
  <2>3. Entry(q).last_refill \in Nat
    BY EntryIsBucket DEF Buckets
  <2>4. Level(q)' = Refilled(t, e + 1)
    <3>1. Entry(q)' = Entry(q) /\ now' - Entry(q).last_refill = e + 1
      BY <1>1, <1>3, <2>3 DEF Entry
    <3> QED BY <3>1 DEF Level, Refill
  <2> HIDE DEF t, e
  <2> QED BY <2>1, <2>2, <2>4, RefilledFacts, Products
<1> QED BY <1>2, <1>3

(* A reload fills every bucket: the new limiter has none.                  *)
LEMMA LevelOfReload ==
  ASSUME Inv, clear_ratelimiters, NEW q \in Ips
  PROVE  Level(q)' = max_tokens
<1>1. Entry(q)' = New' /\ now' = now /\ now \in Nat
  BY DEF clear_ratelimiters, Entry, Inv, TypeOK
<1>2. Level(q)' = Refilled(max_tokens, now - now)
  BY <1>1 DEF Level, Refill, New
<1> QED BY <1>1, <1>2, RefilledFacts, Products

(* When an idle bucket is full before it may be evicted, the limiter       *)
(* implements one ideal token bucket per client, filled only by reloads:   *)
(* lazy refill and eviction cannot be told from it by any sequence of      *)
(* answers of check.                                                       *)
THEOREM RefinesTokenBucket ==
  ASSUME FullBeforeEvicted
  PROVE  Spec => ImplementsTokenBucket
<1> USE RateLimiterAssumption
<1>1. Init => Abstract!Init
  <2> SUFFICES ASSUME Init PROVE Abstract!Init
    OBVIOUS
  <2>1. ASSUME NEW ip \in Ips PROVE Level(ip) = max_tokens
    <3>1. Level(ip) = Refilled(max_tokens, 0)
      BY DEF Init, Level, Refill, Entry, New
    <3> QED BY <3>1, RefilledFacts, Products
  <2> QED BY <2>1 DEF Init, Abstract!Init
<1>2. Inv /\ [Next]_vars
        => [Abstract!Next]_<< [ip \in Ips |-> Level(ip)], reply, reloads >>
  <2> SUFFICES ASSUME Inv, [Next]_vars
               PROVE  \/ Abstract!Next
                      \/ UNCHANGED << [ip \in Ips |-> Level(ip)], reply,
                                      reloads >>
    OBVIOUS
  <2>1. ASSUME NEW ip \in Ips, check(ip) PROVE Abstract!Next
    <3>1. \A q \in Ips : Level(q)' =
            IF q = ip /\ Level(ip) >= Unit THEN Level(ip) - Unit ELSE Level(q)
      BY <2>1, LevelOfCheck
    <3>2. Level(ip) \in Nat
      BY EntryIsBucket, Products DEF Inv
    <3>3. CASE Level(ip) >= Unit
      <4>1. reply' = reply \cup {<<ip, "allowed">>} /\ reloads' = reloads
        BY <2>1, <3>2, <3>3 DEF check, Level
      <4>2. [q \in Ips |-> Level(q)]' =
              [[q \in Ips |-> Level(q)] EXCEPT ![ip] = @ - Unit]
        BY <3>1, <3>3
      <4>3. Abstract!Check(ip)
        BY <3>3, <4>1, <4>2 DEF Abstract!Check
      <4> QED BY <4>3 DEF Abstract!Next
    <3>4. CASE Level(ip) < Unit
      <4>1. reply' = reply \cup {<<ip, "limited">>} /\ reloads' = reloads
        BY <2>1, <3>2, <3>4 DEF check, Level
      <4>2. [q \in Ips |-> Level(q)]' = [q \in Ips |-> Level(q)]
        BY <3>1, <3>2, <3>4
      <4>3. Abstract!Check(ip)
        BY <3>4, <4>1, <4>2 DEF Abstract!Check
      <4> QED BY <4>3 DEF Abstract!Next
    <3> QED BY <3>2, <3>3, <3>4
  <2>2. ASSUME NEW ip \in Ips, cleanup_stale(ip)
        PROVE  UNCHANGED << [q \in Ips |-> Level(q)], reply, reloads >>
    <3>1. \A q \in Ips : Level(q)' = Level(q)
      BY <2>2, LevelOfSweep
    <3> QED BY <2>2, <3>1 DEF cleanup_stale
  <2>3. CASE Tick
    <3>1. \A q \in Ips : Level(q)' = Refilled(Level(q), 1)
      BY <2>3, LevelOfTick
    <3>2. Abstract!Tick
      BY <2>3, <3>1 DEF Tick, Abstract!Tick, Abstract!Refilled, Refilled
    <3> QED BY <3>2 DEF Abstract!Next
  <2>4. CASE start_cleanup
    BY <2>4 DEF start_cleanup, Level, Refill, Entry, New
  <2>5. CASE clear_ratelimiters
    <3>1. \A q \in Ips : Level(q)' = max_tokens
      BY <2>5, LevelOfReload
    <3>2. Abstract!Reload
      BY <2>5, <3>1 DEF clear_ratelimiters, Abstract!Reload
    <3> QED BY <3>2 DEF Abstract!Next
  <2>6. CASE insert_ratelimiter
    BY <2>6 DEF insert_ratelimiter, Level, Refill, Entry, New
  <2>7. CASE UNCHANGED vars
    BY <2>7 DEF vars, Level, Refill, Entry, New
  <2> QED BY <2>1, <2>2, <2>3, <2>4, <2>5, <2>6, <2>7 DEF Next
<1> QED
  BY <1>1, <1>2, ClocksInvariant, PTL
  DEF Spec, ImplementsTokenBucket, Abstract!Spec

(* The units all the limiters so far could hand out.                       *)
Supply == (reloads + 1) * max_tokens + Rate * now

(* What has been granted and what is still at hand never exceed one burst  *)
(* per limiter plus what the rate has added.                               *)
Budget ==
  \A ip \in Ips : granted[ip] * Unit + Level(ip) <= Supply

(* How the supply grows: with time and with reloads.                       *)
LEMMA SupplyFacts ==
  ASSUME Inv
  PROVE  /\ Supply \in Nat
         /\ UNCHANGED << now, reloads >> => Supply' = Supply
         /\ Tick => Supply' = Supply + Rate
         /\ clear_ratelimiters => Supply' = Supply + max_tokens
<1> DEFINE B == (reloads + 1) * max_tokens
           N == Rate * now
<1>1. now \in Nat /\ reloads \in Nat /\ reloads + 1 \in Nat
  BY DEF Inv, TypeOK
<1>2. B \in Nat /\ N \in Nat /\ max_tokens \in Nat /\ Rate \in Nat
  BY <1>1, Products, RateLimiterAssumption
<1>3. ((reloads + 1) + 1) * max_tokens = B + max_tokens
  BY <1>1, Products
<1>4. Rate * (now + 1) = N + Rate
  BY <1>1, Products
<1>5. Supply = B + N
  BY DEF Supply
<1>6. UNCHANGED << now, reloads >> => Supply' = Supply
  BY DEF Supply
<1>7. Tick => Supply' = B + Rate * (now + 1)
  BY DEF Supply, Tick
<1>8. clear_ratelimiters => Supply' = ((reloads + 1) + 1) * max_tokens + N
  BY DEF Supply, clear_ratelimiters
<1> HIDE DEF B, N
<1> QED BY <1>2, <1>3, <1>4, <1>5, <1>6, <1>7, <1>8

(* With FullBeforeEvicted, no client ever gets more requests through check *)
(* than its burst, once more for each reload, plus rate times the time     *)
(* since the start.                                                        *)
THEOREM RateIsRespected ==
  ASSUME FullBeforeEvicted
  PROVE  Spec => []RateRespected
<1> USE RateLimiterAssumption
<1>1. Init => Budget
  <2> SUFFICES ASSUME Init, NEW ip \in Ips
               PROVE  granted[ip] * Unit + Level(ip) <= Supply
    BY DEF Budget
  <2>1. Level(ip) = Refilled(max_tokens, 0)
    BY DEF Init, Level, Refill, Entry, New
  <2>2. Level(ip) = max_tokens
    BY <2>1, RefilledFacts, Products
  <2>3. granted[ip] * Unit = 0 /\ Supply = max_tokens /\ max_tokens \in Nat
    BY Products DEF Init, Supply
  <2> QED BY <2>2, <2>3
<1>2. Inv /\ Budget /\ [Next]_vars => Budget'
  <2> SUFFICES ASSUME Inv, Budget, [Next]_vars, NEW q \in Ips
               PROVE  (granted[q] * Unit + Level(q) <= Supply)'
    BY DEF Budget
  <2> DEFINE G == granted[q] * Unit
  <2>1. G \in Nat /\ max_tokens \in Nat /\ Level(q) \in Nat /\ Supply \in Nat
    BY EntryIsBucket, Products, SupplyFacts DEF Inv, TypeOK
  <2>2. G + Level(q) <= Supply
    BY DEF Budget
  <2>3. ASSUME NEW ip \in Ips, check(ip)
        PROVE  (granted[q] * Unit + Level(q) <= Supply)'
    <3>1. Level(q)' = IF q = ip /\ Level(ip) >= Unit THEN Level(ip) - Unit
                                                      ELSE Level(q)
      BY <2>3, LevelOfCheck
    <3>2. Supply' = Supply
      BY <2>3, SupplyFacts DEF check
    <3>3. CASE q = ip /\ Level(ip) >= Unit
      <4>1. granted'[q] = granted[q] + 1
        BY <2>1, <2>3, <3>3 DEF check, Level, Inv, TypeOK
      <4>2. granted'[q] * Unit = G + Unit
        BY <4>1, Products DEF Inv, TypeOK
      <4> HIDE DEF G
      <4>3. Level(q)' = Level(q) - Unit
        BY <3>1, <3>3
      <4> QED BY <2>1, <2>2, <3>2, <4>2, <4>3
    <3>4. CASE ~(q = ip /\ Level(ip) >= Unit)
      <4>1. granted'[q] = granted[q]
        BY <2>1, <2>3, <3>4 DEF check, Level, Inv, TypeOK
      <4> QED BY <2>2, <3>1, <3>2, <3>4, <4>1
    <3> QED BY <3>3, <3>4
  <2>4. ASSUME NEW ip \in Ips, cleanup_stale(ip)
        PROVE  (granted[q] * Unit + Level(q) <= Supply)'
    <3>1. Level(q)' = Level(q)
      BY <2>4, LevelOfSweep
    <3>2. granted' = granted /\ Supply' = Supply
      BY <2>4, SupplyFacts DEF cleanup_stale
    <3> QED BY <2>2, <3>1, <3>2
  <2>5. ASSUME Tick
        PROVE  (granted[q] * Unit + Level(q) <= Supply)'
    <3>1. Level(q)' \in Nat /\ Level(q)' <= Level(q) + Rate
      BY <2>5, LevelOfTick
    <3>2. granted' = granted /\ Supply' = Supply + Rate
      BY <2>5, SupplyFacts DEF Tick
    <3>3. granted'[q] * Unit = G
      BY <3>2
    <3> HIDE DEF G
    <3> QED BY <2>1, <2>2, <3>1, <3>2, <3>3
  <2>6. ASSUME clear_ratelimiters
        PROVE  (granted[q] * Unit + Level(q) <= Supply)'
    <3>1. Level(q)' = max_tokens
      BY <2>6, LevelOfReload
    <3>2. granted' = granted /\ Supply' = Supply + max_tokens
      BY <2>6, SupplyFacts DEF clear_ratelimiters
    <3>3. granted'[q] * Unit = G
      BY <3>2
    <3> HIDE DEF G
    <3> QED BY <2>1, <2>2, <3>1, <3>2, <3>3
  <2>7. CASE UNCHANGED << now, reloads, buckets, granted >>
    <3>1. Supply' = Supply
      BY <2>7, SupplyFacts
    <3>2. Level(q)' = Level(q) /\ granted'[q] = granted[q]
      BY <2>7 DEF Level, Refill, Entry, New
    <3> QED BY <2>2, <3>1, <3>2
  <2> QED BY <2>3, <2>4, <2>5, <2>6, <2>7
          DEF Next, start_cleanup, insert_ratelimiter, vars
<1>3. Inv /\ Budget => RateRespected
  <2> SUFFICES ASSUME Inv, Budget, NEW ip \in Ips
               PROVE  granted[ip] * Unit <= Supply
    BY DEF RateRespected, Supply
  <2>1. Level(ip) \in Nat
    BY EntryIsBucket, Products DEF Inv
  <2> DEFINE G == granted[ip] * Unit
  <2>2. G \in Nat /\ Supply \in Nat
    BY Products, SupplyFacts DEF Inv, TypeOK
  <2>3. G + Level(ip) <= Supply
    BY DEF Budget
  <2> HIDE DEF G
  <2>4. G <= Supply
    BY <2>1, <2>2, <2>3
  <2> QED BY <2>4 DEF G
<1> QED
  BY <1>1, <1>2, <1>3, ClocksInvariant, PTL DEF Spec

(* The timing of the cleanup task: it is never more than Lag behind, and a *)
(* bucket the last sweep left was used at most MaxIdle before that sweep   *)
(* was due; one the running sweep has yet to visit, one interval earlier.  *)
(* A limiter that is not in the map, and so is not swept, has no buckets.  *)
Timing ==
  /\ ~installed => \A ip \in Ips : buckets[ip] = NoBucket
  /\ now <= Owed + Lag
  /\ due - Interval <= now
  /\ \A ip \in Ips : buckets[ip] # NoBucket =>
       IF ip \in sweep
         THEN due - 2 * Interval <= buckets[ip].last_used + MaxIdle
         ELSE due - Interval <= buckets[ip].last_used + MaxIdle

(* Idle clients leave the map in time, for any number of clients and any   *)
(* interleaving of checks with the sweeps of cleanup_stale.                *)
THEOREM IdleClientsLeave == Spec => []IdleBucketsEvicted
<1> USE RateLimiterAssumption
<1>1. Init => Timing
  BY DEF Init, Timing, Owed
<1>2. Inv /\ Timing /\ [Next]_vars => Timing'
  <2> SUFFICES ASSUME Inv, Timing, [Next]_vars PROVE Timing'
    OBVIOUS
  <2>0. now \in Nat /\ due \in Nat /\ sweep \subseteq Ips
    BY DEF Inv, TypeOK
  <2>1. \A ip \in Ips : buckets[ip] # NoBucket
          => buckets[ip].last_used \in Nat
    BY DEF Inv, TypeOK, Buckets
  <2>2. ASSUME NEW ip \in Ips, check(ip) PROVE Timing'
    <3>1. /\ now' = now /\ sweep' = sweep /\ due' = due /\ installed'
          /\ buckets'[ip].last_used = now
          /\ \A q \in Ips : q # ip => buckets'[q] = buckets[q]
      BY <2>2 DEF check, Touched, Inv, TypeOK
    <3> QED BY <2>0, <2>1, <3>1 DEF Timing, Owed
  <2>3. ASSUME NEW ip \in Ips, cleanup_stale(ip) PROVE Timing'
    <3>0. ~installed' => \A q \in Ips : buckets'[q] = NoBucket
      BY <2>3 DEF cleanup_stale, Timing
    <3>1. /\ now' = now /\ sweep' = sweep \ {ip} /\ due' = due
          /\ \A q \in Ips : q # ip => buckets'[q] = buckets[q]
          /\ buckets'[ip] # NoBucket =>
               /\ buckets'[ip] = buckets[ip]
               /\ now - buckets[ip].last_used <= MaxIdle
      BY <2>0, <2>1, <2>3 DEF cleanup_stale, is_stale, Inv, TypeOK
    <3>2. ip \in sweep
      BY <2>3 DEF cleanup_stale
    <3>3. (now <= Owed + Lag)' /\ (due - Interval <= now)'
      BY <2>0, <3>1, <3>2 DEF Timing, Owed
    <3>4. ASSUME NEW q \in Ips, buckets'[q] # NoBucket
          PROVE  IF q \in sweep'
                   THEN due' - 2 * Interval <= buckets'[q].last_used + MaxIdle
                   ELSE due' - Interval <= buckets'[q].last_used + MaxIdle
      BY <2>0, <2>1, <3>1, <3>4 DEF Timing
    <3> QED BY <3>0, <3>3, <3>4 DEF Timing
  <2>4. CASE start_cleanup
    <3>0. sweep' = IF installed THEN Ips ELSE {}
      BY <2>4 DEF start_cleanup
    <3>1. /\ now' = now /\ due' = due + Interval /\ buckets' = buckets
          /\ installed' = installed /\ now >= due /\ sweep = {}
      BY <2>4 DEF start_cleanup
    <3>2. CASE installed
      BY <2>0, <2>1, <3>0, <3>1, <3>2 DEF Timing, Owed
    <3>3. CASE ~installed
      BY <2>0, <3>0, <3>1, <3>3 DEF Timing, Owed
    <3> QED BY <3>2, <3>3
  <2>5. CASE Tick
    BY <2>0, <2>1, <2>5 DEF Tick, Timing, Owed
  <2>6. CASE clear_ratelimiters
    <3>1. \A ip \in Ips : buckets'[ip] = NoBucket
      BY <2>6 DEF clear_ratelimiters
    <3>2. now' = now /\ due' = due /\ sweep' = sweep
      BY <2>6 DEF clear_ratelimiters
    <3> QED BY <3>1, <3>2 DEF Timing, Owed
  <2>7. CASE insert_ratelimiter
    <3>1. installed' /\ UNCHANGED << now, due, sweep, buckets >>
      BY <2>7 DEF insert_ratelimiter
    <3> QED BY <3>1 DEF Timing, Owed
  <2>8. CASE UNCHANGED vars
    BY <2>8 DEF vars, Timing, Owed
  <2> QED BY <2>2, <2>3, <2>4, <2>5, <2>6, <2>7, <2>8 DEF Next
<1>3. Inv /\ Timing => IdleBucketsEvicted
  <2> SUFFICES ASSUME Inv, Timing, NEW ip \in Ips, buckets[ip] # NoBucket
               PROVE  now - buckets[ip].last_used <= MaxIdle + Interval + Lag
    BY DEF IdleBucketsEvicted
  <2>1. now \in Nat /\ due \in Nat /\ buckets[ip].last_used \in Nat
    BY DEF Inv, TypeOK, Buckets
  <2> QED BY <2>1 DEF Timing, Owed
<1> QED
  BY <1>1, <1>2, <1>3, ClocksInvariant, PTL DEF Spec

=============================================================================
