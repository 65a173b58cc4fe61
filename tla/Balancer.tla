------------------------------ MODULE Balancer ------------------------------
(***************************************************************************)
(* A call of select_origin (src/src/balance/round_robin.rs, weighted.rs)   *)
(* for one route, again and again, while health flags and latencies change *)
(* under it.  It looks at one candidate at a time, so what it returns      *)
(* rests on flags read at different moments.  Calls of other handlers meet *)
(* it only in the round-robin counter.                                     *)
(*                                                                         *)
(* Weights are exact: a latency l weighs Scale / (l + 1), with Scale a     *)
(* multiple of every l + 1; the random number is any point of the total.   *)
(***************************************************************************)
EXTENDS Integers, Sequences

CONSTANTS
  Algorithms,  \* of "round_robin", "weighted_latency", "weighted_metrics"
  Origins,     \* keys of origin_states
  Candidates,  \* sequence of origins: route.candidates()
  UserWeight,  \* [Origins -> Nat]: weight, 1 for None
  Latencies,   \* values of ewma_latency_ns
  Scale,       \* weight of an origin with no latency yet: 1.0
  U64          \* number of values of the AtomicU64 counter

None == 0      \* result: no candidate
Pending == -1  \* result: no call has returned
N == Len(Candidates)

ASSUME BalancerAssumption ==
  /\ Algorithms \subseteq
       {"round_robin", "weighted_latency", "weighted_metrics"}
  /\ Candidates \in Seq(Origins) /\ N > 0
  /\ UserWeight \in [Origins -> Nat]
  /\ Latencies \subseteq Nat /\ 0 \in Latencies
  /\ Scale \in Nat \ {0}
  /\ \A l \in Latencies : l + 1 <= Scale /\ Scale % (l + 1) = 0
  /\ U64 \in Nat \ {0}

VARIABLES
  algorithm,        \* the route's load_balancer
  states,           \* origins that have an OriginState
  healthy,          \* their flags
  ewma_latency_ns,  \* their averages
  counter,          \* RoundRobinBalancer::counter
  pc,               \* "idle", "scan" or "pick"
  start_idx,        \* where the scan starts
  step,             \* candidates looked at
  weights,          \* weights computed
  latencies,        \* history: the latency behind each of them
  wasUp,            \* history: origins usable at some moment of the call
  wasDown,          \* history: origins not usable at some moment of the call
  result            \* index of the candidate the last call returned, or None

environment == << algorithm, states, healthy, ewma_latency_ns >>
locals == << start_idx, step, weights, latencies >>
vars == << environment, counter, pc, locals, wasUp, wasDown, result >>

Up == {o \in states : healthy[o]}

\* Round robin passes over an origin without a state, the others do not.
Down == IF algorithm = "round_robin" THEN Origins \ Up ELSE states \ Up

TypeOK ==
  /\ algorithm \in Algorithms
  /\ states \subseteq Origins
  /\ healthy \in [Origins -> BOOLEAN]
  /\ ewma_latency_ns \in [Origins -> Latencies]
  /\ counter \in 0 .. U64 - 1
  /\ pc \in {"idle", "scan", "pick"}
  /\ start_idx \in 0 .. N - 1
  /\ step \in 0 .. N
  /\ weights \in Seq(Nat)
  /\ latencies \in Seq(Latencies)
  /\ wasUp \subseteq Origins
  /\ wasDown \subseteq Origins
  /\ result \in Pending .. N

\* A route just built, over any state of its origins.
Init ==
  /\ algorithm \in Algorithms
  /\ states \in SUBSET Origins
  /\ healthy \in [Origins -> BOOLEAN]
  /\ ewma_latency_ns \in [Origins -> Latencies]
  /\ \A o \in Origins \ states : healthy[o] /\ ewma_latency_ns[o] = 0
  /\ counter = 0
  /\ pc = "idle"
  /\ start_idx = 0
  /\ step = 0
  /\ weights = << >>
  /\ latencies = << >>
  /\ wasUp = {}
  /\ wasDown = {}
  /\ result = Pending

-----------------------------------------------------------------------------
(* What the call under way has seen, should it have looked.                *)
Witness(up, down) ==
  /\ wasUp' = IF pc = "idle" THEN wasUp ELSE wasUp \cup up
  /\ wasDown' = IF pc = "idle" THEN wasDown ELSE wasDown \cup down

(* A recorder flips a flag, as in OriginState ...                          *)
flip_health(o) ==
  /\ o \in states
  /\ healthy' = [healthy EXCEPT ![o] = ~@]
  /\ Witness(IF healthy[o] THEN {} ELSE {o}, IF healthy[o] THEN {o} ELSE {})
  /\ UNCHANGED << algorithm, states, ewma_latency_ns, counter, pc, locals,
                  result >>

(* ... or moves a latency average ...                                      *)
record_latency(o) ==
  /\ o \in states
  /\ \E l \in Latencies \ {ewma_latency_ns[o]} :
       ewma_latency_ns' = [ewma_latency_ns EXCEPT ![o] = l]
  /\ UNCHANGED << algorithm, states, healthy, counter, pc, locals, wasUp,
                  wasDown, result >>

(* ... and reload or discovery adds the state of an origin it has already  *)
(* put into the router: healthy, latency 0, as OriginState::new has it.    *)
add_state(o) ==
  /\ o \notin states
  /\ states' = states \cup {o}
  /\ Witness({o}, {})
  /\ UNCHANGED << algorithm, healthy, ewma_latency_ns, counter, pc, locals,
                  result >>

-----------------------------------------------------------------------------
\* Names ending in _mutant are plausible bugs that no action uses; here, a
\* counter treated as unbounded.
Turn_mutant(n) == n + 1

\* fetch_add(1) wraps around.
Turn(n) == (n + 1) % U64

(* Another handler draws its starting point.                               *)
other_call ==
  /\ algorithm = "round_robin"
  /\ counter' = Turn(counter)
  /\ UNCHANGED << environment, pc, locals, wasUp, wasDown, result >>

(* The handler calls select_origin.  Round robin draws its starting point. *)
begin ==
  /\ pc = "idle"
  /\ pc' = "scan"
  /\ IF algorithm = "round_robin"
       THEN /\ start_idx' = counter % N
            /\ counter' = Turn(counter)
       ELSE UNCHANGED << start_idx, counter >>
  /\ wasUp' = Origins \ Down
  /\ wasDown' = Down
  /\ result' = Pending
  /\ UNCHANGED << environment, step, weights, latencies >>

Return(r) ==
  /\ pc' = "idle"
  /\ result' = r
  /\ start_idx' = 0
  /\ step' = 0
  /\ weights' = << >>
  /\ latencies' = << >>

\* Wraps one candidate too late: one is looked at twice, one never.
Position_mutant(start, i) == ((start + i) % (N + 1)) % N

\* The index of the i-th candidate that a scan looks at.
Position(start, i) == (start + i) % N

\* Looks for the state, not at its flag.
Skips_mutant(o) == o \notin states

\* origin_states has no entry for the origin, or one that is not healthy.
Skips(o) == o \notin Up

(* RoundRobinBalancer: the first candidate whose state is there and        *)
(* healthy; none after a full turn.                                        *)
round_robin_scan ==
  LET idx == Position(start_idx, step) + 1
  IN  /\ algorithm = "round_robin"
      /\ pc = "scan"
      /\ \/ /\ step < N
            /\ ~Skips(Candidates[idx])
            /\ Return(idx)
         \/ /\ step < N
            /\ Skips(Candidates[idx])
            /\ step' = step + 1
            /\ UNCHANGED << pc, start_idx, weights, latencies, result >>
         \/ /\ step = N
            /\ Return(None)
      /\ UNCHANGED << environment, counter, wasUp, wasDown >>

\* The slower, the heavier.
BaseWeight_mutant(o) ==
  IF algorithm = "weighted_metrics" \/ o \notin states
    THEN Scale
    ELSE ewma_latency_ns[o] + 1

\* base_weight: 1 / (latency + 1), or 1.0 for latency 0 and for an origin
\* without a state.  weighted_metrics, whose pressure is always 0, has the
\* same weight for all, whatever their latency.
BaseWeight(o) ==
  IF algorithm = "weighted_metrics" \/ o \notin states
    THEN Scale
    ELSE Scale \div (ewma_latency_ns[o] + 1)

Weight(o) ==
  IF o \in states /\ ~healthy[o] THEN 0 ELSE BaseWeight(o) * UserWeight[o]

(* The weighted balancers push one weight per candidate.                   *)
push_weight ==
  LET o == Candidates[step + 1]
  IN  /\ algorithm # "round_robin"
      /\ pc = "scan"
      /\ weights' = Append(weights, Weight(o))
      /\ latencies' = Append(latencies, ewma_latency_ns[o])
      /\ step' = step + 1
      /\ pc' = IF step + 1 = N THEN "pick" ELSE "scan"
      /\ UNCHANGED << environment, counter, start_idx, wasUp, wasDown, result >>

\* Sum of the first n weights.
Cumulative(w, n) ==
  LET sum[i \in 0 .. n] == IF i = 0 THEN 0 ELSE sum[i - 1] + w[i]
  IN  sum[n]

\* weighted_random_select, for a random point of 0 .. total - 1: the first
\* index whose cumulative weight exceeds it.  Anything, when the total is 0.
Selectable(w) ==
  IF Cumulative(w, Len(w)) = 0
    THEN 1 .. Len(w)
    ELSE {i \in 1 .. Len(w) :
            \E random \in 0 .. Cumulative(w, Len(w)) - 1 :
              /\ Cumulative(w, i) > random
              /\ \A j \in 1 .. i - 1 : Cumulative(w, j) <= random}

weighted_pick ==
  /\ pc = "pick"
  /\ \E i \in Selectable(weights) :
       Return(IF weights[i] > 0 THEN i ELSE None)
  /\ UNCHANGED << environment, counter, wasUp, wasDown >>

Next ==
  \/ \E o \in Origins : flip_health(o) \/ record_latency(o) \/ add_state(o)
  \/ other_call
  \/ begin \/ round_robin_scan \/ push_weight \/ weighted_pick

Spec == Init /\ [][Next]_vars

-----------------------------------------------------------------------------
(* A call that returned an origin found it usable: healthy at some moment  *)
(* of the call, or (weighted balancers only) without a state as yet.       *)
PickIsJustified == result > 0 => Candidates[result] \in wasUp

(* "No healthy origins available": a call returns None only when every     *)
(* candidate was unusable at some moment of the call (or weighs 0), so an  *)
(* origin that is healthy throughout is never passed over, wherever the    *)
(* counter stood and whatever the others did meanwhile.                    *)
NoneIsJustified ==
  result = None =>
    \A i \in 1 .. N :
      \/ Candidates[i] \in wasDown
      \/ algorithm # "round_robin" /\ UserWeight[Candidates[i]] = 0

(* Among candidates with the same user weight and a latency on record, a   *)
(* call of weighted_latency gives more weight to the one it found faster.  *)
(* weighted_metrics does not: its metrics weight is never 0, so it never   *)
(* falls back on latencies as README.md says it does.                      *)
FasterWeighsMore ==
  algorithm = "weighted_latency" =>
  \A i, j \in 1 .. Len(weights) :
    (/\ weights[i] > 0 /\ weights[j] > 0
     /\ UserWeight[Candidates[i]] = UserWeight[Candidates[j]]
     /\ 0 < latencies[i] /\ latencies[i] < latencies[j])
    => weights[i] > weights[j]
=============================================================================
