------------------------ MODULE HealthChecksProofs ------------------------
(***************************************************************************)
(* Theorems about HealthChecks, for any urls, setups, handlers and         *)
(* thresholds.                                                             *)
(***************************************************************************)
EXTENDS HealthChecks, TLAPS

(* Recording an outcome of one origin touches no other origin's flag.      *)
LEMMA OthersKeepFlag ==
  ASSUME healthy \in [Urls -> BOOLEAN], NEW v, NEW t, NEW u \in Urls, u # v,
         \/ record_success_with_threshold(v, t)
         \/ record_failure_with_threshold(v, t)
  PROVE  healthy'[u] = healthy[u]
BY DEF record_success_with_threshold, record_failure_with_threshold

(* Recording an outcome leaves a flag for each url.                        *)
LEMMA FlagsStayFlags ==
  ASSUME healthy \in [Urls -> BOOLEAN], NEW v, NEW t,
         \/ record_success_with_threshold(v, t)
         \/ record_failure_with_threshold(v, t)
  PROVE  healthy' \in [Urls -> BOOLEAN]
<1>1. CASE record_success_with_threshold(v, t)
  <2> DEFINE b == healthy[v] \/ consecutive_successes[v] + 1 >= t
  <2>1. b \in BOOLEAN
    OBVIOUS
  <2>2. healthy' = [healthy EXCEPT ![v] = b]
    BY <1>1, Zenon DEF record_success_with_threshold
  <2> HIDE DEF b
  <2> QED BY <2>1, <2>2
<1>2. CASE record_failure_with_threshold(v, t)
  <2> DEFINE b == healthy[v] /\ consecutive_failures[v] + 1 < t
  <2>1. b \in BOOLEAN
    OBVIOUS
  <2>2. healthy' = [healthy EXCEPT ![v] = b]
    BY <1>2, Zenon DEF record_failure_with_threshold
  <2> HIDE DEF b
  <2> QED BY <2>1, <2>2
<1> QED BY <1>1, <1>2

(* What becomes of a request is recorded for its origin alone, whether     *)
(* passive tracking is on or off.                                          *)
LEMMA OutcomeIsRecorded ==
  ASSUME NEW v, NEW ok, record_outcome(v, ok)
  PROVE  \E t : \/ record_success_with_threshold(v, t)
                \/ record_failure_with_threshold(v, t)
BY Zenon DEF record_outcome

(* Streaks are counted up to a number, which is the largest threshold.     *)
LEMMA MaxStreakIsNat == MaxStreak \in Nat
<1>1. /\ healthy_threshold \in Nat /\ unhealthy_threshold \in Nat
      /\ success_threshold \in Nat /\ failure_threshold \in Nat
      /\ default_success \in Nat /\ default_failure \in Nat
  BY HealthChecksAssumption DEF Thresholds
<1>2. \E m \in Thresholds : \A t \in Thresholds : t <= m
  BY <1>1 DEF Thresholds
<1>3. MaxStreak \in Thresholds
  BY <1>2, Zenon DEF MaxStreak
<1> QED BY <1>3, HealthChecksAssumption

(* Recording an outcome keeps the streaks in their range.                  *)
LEMMA StreaksStayStreaks ==
  ASSUME consecutive_successes \in [Urls -> 0 .. MaxStreak],
         consecutive_failures \in [Urls -> 0 .. MaxStreak], NEW v, NEW t,
         \/ record_success_with_threshold(v, t)
         \/ record_failure_with_threshold(v, t)
  PROVE  /\ consecutive_successes' \in [Urls -> 0 .. MaxStreak]
         /\ consecutive_failures' \in [Urls -> 0 .. MaxStreak]
<1>1. /\ 0 \in 0 .. MaxStreak
      /\ \A n \in 0 .. MaxStreak : Longer(n) \in 0 .. MaxStreak
  BY MaxStreakIsNat DEF Longer
<1> QED BY <1>1
        DEF record_success_with_threshold, record_failure_with_threshold

(* Routes of the files are not empty and name urls.                        *)
LEMMA RoutesAreServable ==
  ASSUME NEW s \in Setups, NEW route \in s.routes
  PROVE  /\ route \in Seq(Urls) /\ route # << >>
         /\ Len(route) \in Nat /\ Len(route) > 0
         /\ Range(route) \subseteq Urls
<1>1. route \in Seq(Urls) /\ route # << >>
  BY HealthChecksAssumption DEF SetupType
<1> QED BY <1>1 DEF Range

(* There is a first target, since there is a first candidate.              *)
LEMMA TargetsExist ==
  ASSUME NEW s \in Setups
  PROVE  /\ s.targets \in Seq([url : Urls, path_ok : BOOLEAN])
         /\ Len(s.targets) \in Nat /\ Len(s.targets) > 0
<1>1. s.targets \in Seq([url : Urls, path_ok : BOOLEAN])
  BY HealthChecksAssumption DEF SetupType
<1>2. Urls_of(s.targets) # << >>
  BY HealthChecksAssumption
<1>3. CASE Len(s.targets) = 0
  BY <1>1, <1>2, <1>3 DEF Urls_of
<1> QED BY <1>1, <1>3

(* select_origin only considers candidates, and picks healthy ones.        *)
LEMMA PicksAreHealthy ==
  ASSUME TypeOK, NEW i \in Available
  PROVE  Scan[i] \in Urls /\ healthy[Scan[i]]
<1> DEFINE n == Len(candidates)
<1>1. n \in Nat /\ n > 0 /\ candidates \in [1 .. n -> Urls]
  BY RoutesAreServable DEF TypeOK
<1>2. counter \in Nat
  BY <1>1 DEF TypeOK
<1>3. i \in 1 .. n /\ healthy[Scan[i]]
  BY DEF Available, Scan
<1>4. ((counter + i - 1) % n) + 1 \in 1 .. n
  BY <1>1, <1>2, <1>3
<1> QED BY <1>1, <1>3, <1>4 DEF Scan

(* Every reachable state is well typed, for any setups: the counter points *)
(* at a candidate of the router in force although reloads change their     *)
(* number, and the checker's index stays within its startup targets.       *)
THEOREM HealthChecksTypeCorrect == Spec => []TypeOK
<1>1. Init => TypeOK
  <2> SUFFICES ASSUME Init PROVE TypeOK
    OBVIOUS
  <2>1. setup \in Setups /\ candidates \in setup.routes
    BY HealthChecksAssumption DEF Init
  <2>2. /\ Len(candidates) \in Nat /\ Len(candidates) > 0
        /\ Range(candidates) \subseteq Urls
    BY <2>1, RoutesAreServable
  <2>3. counter \in 0 .. Len(candidates) - 1
    BY <2>2 DEF Init
  <2>4. next_target \in 1 .. Len(setup.targets)
    BY <2>1, TargetsExist DEF Init
  <2>5. /\ consecutive_successes \in [Urls -> 0 .. MaxStreak]
        /\ consecutive_failures \in [Urls -> 0 .. MaxStreak]
    BY MaxStreakIsNat DEF Init
  <2>6. mode \in [Urls -> Modes] /\ checker \in Checkers
    BY DEF Init, Modes, Checkers
  <2>7. healthy \in [Urls -> BOOLEAN]
        /\ origin \in [Handlers -> Urls \cup {NoUrl, Dropped}]
        /\ origin_states \subseteq Urls
    BY <2>2 DEF Init
  <2> QED BY <2>1, <2>3, <2>4, <2>5, <2>6, <2>7 DEF TypeOK
<1>2. TypeOK /\ [Next]_vars => TypeOK'
  <2> SUFFICES ASSUME TypeOK, [Next]_vars PROVE TypeOK'
    OBVIOUS
  <2>0. /\ setup \in Setups /\ candidates \in setup.routes
        /\ Len(candidates) \in Nat /\ Len(candidates) > 0
    BY RoutesAreServable DEF TypeOK
  <2>1. ASSUME NEW u \in Urls, change_mode(u) PROVE TypeOK'
    <3>1. setup.modes \subseteq Modes
      BY <2>0, HealthChecksAssumption DEF SetupType
    <3> QED BY <2>1, <3>1 DEF TypeOK, change_mode, record
  <2>2. ASSUME NEW route \in setup.routes, reload(route) PROVE TypeOK'
    <3>1. /\ Len(route) \in Nat /\ Len(route) > 0
          /\ Range(route) \subseteq Urls
      BY <2>0, RoutesAreServable
    <3> QED BY <2>2, <3>1 DEF TypeOK, reload, record
  <2>3. ASSUME NEW h \in Handlers, handle_request(h) PROVE TypeOK'
    <3>1. counter' \in 0 .. Len(candidates) - 1
      <4> DEFINE n == Len(candidates)
      <4>1. n \in Nat /\ n > 0 /\ counter \in Nat
        BY <2>0 DEF TypeOK
      <4>2. counter' = (counter + 1) % n
        BY <2>3 DEF handle_request
      <4> HIDE DEF n
      <4>3. counter' \in 0 .. n - 1
        BY <4>1, <4>2
      <4> QED BY <4>3 DEF n
    <3>2. origin' \in [Handlers -> Urls \cup {NoUrl, Dropped}]
      BY <2>3, PicksAreHealthy DEF TypeOK, handle_request
    <3> QED BY <2>3, <3>1, <3>2 DEF TypeOK, handle_request, record
  <2>4. ASSUME NEW h \in Handlers, proxied(h) \/ upload_fails(h)
        PROVE  TypeOK'
    <3>1. PICK ok : record_outcome(origin[h], ok)
      BY <2>4, Zenon DEF proxied, upload_fails
    <3>2. /\ healthy' \in [Urls -> BOOLEAN]
          /\ consecutive_successes' \in [Urls -> 0 .. MaxStreak]
          /\ consecutive_failures' \in [Urls -> 0 .. MaxStreak]
      BY <3>1, OutcomeIsRecorded, FlagsStayFlags, StreaksStayStreaks DEF TypeOK
    <3> QED BY <2>4, <3>2 DEF TypeOK, proxied, upload_fails, Finish
  <2>5. ASSUME NEW h \in Handlers, client_leaves(h) PROVE TypeOK'
    BY <2>5 DEF TypeOK, client_leaves, record
  <2>6. CASE new_interval \/ tick \/ probe_panics
    BY <2>6 DEF TypeOK, Checkers, new_interval, tick, probe_panics, record
  <2>7. CASE probe
    <3>1. /\ healthy' \in [Urls -> BOOLEAN]
          /\ consecutive_successes' \in [Urls -> 0 .. MaxStreak]
          /\ consecutive_failures' \in [Urls -> 0 .. MaxStreak]
      BY <2>7, FlagsStayFlags, StreaksStayStreaks DEF TypeOK, probe, record
    <3>2. Len(setup.targets) \in Nat /\ Len(setup.targets) > 0
      BY <2>0, TargetsExist
    <3>3. /\ setup' = setup /\ next_target' \in 1 .. Len(setup.targets)
          /\ checker' \in Checkers
      BY <2>7, <3>2 DEF probe, Advance, TypeOK, Checkers
    <3> QED BY <2>7, <3>1, <3>3 DEF TypeOK, probe
  <2>8. CASE UNCHANGED vars
    BY <2>8 DEF TypeOK, vars, record
  <2> QED
    BY <2>1, <2>2, <2>3, <2>4, <2>5, <2>6, <2>7, <2>8
    DEF Next, Environment, run_active_checks
<1> QED BY <1>1, <1>2, PTL DEF Spec

(* An unhealthy origin that no request awaits and no recorded probe can    *)
(* reach stays unhealthy for ever, in every setup: round robin forwards to *)
(* healthy origins only, the checker looks up its startup targets by their *)
(* trimmed urls only, and neither reload nor anything else writes a flag.  *)
THEOREM StrandedForEver == Spec => StrandedStays
<1> DEFINE Stranded(u) == ~healthy[u] /\ Unattended(u)
<1>1. TypeOK /\ [Next]_vars
        => [\A u \in Urls : Stranded(u) => Stranded(u)']_vars
  <2> SUFFICES ASSUME TypeOK, Next, NEW u \in Urls, ~healthy[u],
                      Unattended(u)
               PROVE  ~healthy'[u] /\ Unattended(u)'
    BY DEF vars
  <2>1. \A h \in Handlers : origin[h] # u
    BY DEF Unattended
  <2>2. ASSUME UNCHANGED << setup, origin, checker, healthy >>
        PROVE  ~healthy'[u] /\ Unattended(u)'
    BY <2>2 DEF Unattended
  <2>3. ASSUME NEW v \in Urls, change_mode(v)
        PROVE  ~healthy'[u] /\ Unattended(u)'
    BY <2>2, <2>3 DEF change_mode, record
  <2>4. ASSUME NEW route \in setup.routes, reload(route)
        PROVE  ~healthy'[u] /\ Unattended(u)'
    BY <2>2, <2>4 DEF reload, record
  <2>5. ASSUME NEW h \in Handlers, handle_request(h)
        PROVE  ~healthy'[u] /\ Unattended(u)'
    <3>1. \A g \in Handlers : origin'[g] # u
      BY <2>1, <2>5, PicksAreHealthy DEF handle_request, TypeOK
    <3>2. UNCHANGED << setup, checker, healthy >>
      BY <2>5 DEF handle_request, record
    <3> QED BY <3>1, <3>2 DEF Unattended
  <2>6. ASSUME NEW h \in Handlers, proxied(h) \/ upload_fails(h)
        PROVE  ~healthy'[u] /\ Unattended(u)'
    <3>1. PICK ok : record_outcome(origin[h], ok)
      BY <2>6, Zenon DEF proxied, upload_fails
    <3>2. healthy'[u] = healthy[u]
      BY <2>1, <3>1, OutcomeIsRecorded, OthersKeepFlag DEF TypeOK
    <3>3. /\ UNCHANGED << setup, checker >>
          /\ origin' = [origin EXCEPT ![h] = NoUrl]
      BY <2>6 DEF proxied, upload_fails, Finish
    <3>4. \A g \in Handlers : origin'[g] # u
      BY <2>1, <3>3, HealthChecksAssumption DEF TypeOK, NoUrl
    <3> QED BY <3>2, <3>3, <3>4 DEF Unattended
  <2>7. ASSUME NEW h \in Handlers, client_leaves(h)
        PROVE  ~healthy'[u] /\ Unattended(u)'
    <3>1. /\ UNCHANGED << setup, checker, healthy >>
          /\ origin' = [origin EXCEPT ![h] = Dropped]
      BY <2>7 DEF client_leaves, record
    <3>2. \A g \in Handlers : origin'[g] # u
      BY <2>1, <3>1, HealthChecksAssumption DEF TypeOK, Dropped
    <3> QED BY <3>1, <3>2 DEF Unattended
  <2>8. CASE new_interval \/ tick \/ probe_panics
    BY <2>8 DEF Unattended, new_interval, tick, probe_panics, record
  <2>9. CASE probe
    <3> DEFINE key == base(setup.targets[next_target].url)
    <3>1. setup.targets \in Seq([url : Urls, path_ok : BOOLEAN])
      BY HealthChecksAssumption DEF SetupType, TypeOK
    <3>2. \A i \in DOMAIN setup.targets : base(setup.targets[i].url) # u
      BY <2>9 DEF Unattended, probe
    <3>3. key # u
      BY <3>1, <3>2 DEF TypeOK
    <3> HIDE DEF key
    <3>4. healthy'[u] = healthy[u]
      <4>1. \/ healthy' = healthy
            \/ \E t : \/ record_success_with_threshold(key, t)
                      \/ record_failure_with_threshold(key, t)
        BY <2>9, Zenon DEF probe, record, key
      <4> QED BY <3>3, <4>1, OthersKeepFlag DEF TypeOK
    <3>5. setup' = setup /\ origin' = origin
      BY <2>9 DEF probe
    <3> QED BY <2>1, <3>2, <3>4, <3>5 DEF Unattended
  <2> QED
    BY <2>3, <2>4, <2>5, <2>6, <2>7, <2>8, <2>9
    DEF Next, Environment, run_active_checks
<1> QED BY <1>1, HealthChecksTypeCorrect, PTL DEF Spec, StrandedStays
=============================================================================
