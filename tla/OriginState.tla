---------------------------- MODULE OriginState ----------------------------
(***************************************************************************)
(* The health and latency record of ONE origin (src/src/balance/mod.rs),   *)
(* shared without a lock by every task that has an outcome to report:      *)
(*                                                                         *)
(*  - request handlers (src/src/server.rs, handle_request), once           *)
(*    proxy_request has returned;                                          *)
(*  - the active health checker (src/src/health/checker.rs), once a probe  *)
(*    has returned or timed out.                                           *)
(*                                                                         *)
(* Each field is a separate atomic accessed with Ordering::Relaxed.  One   *)
(* action below is one atomic access, so the interleavings of the actions  *)
(* are those of the recorders.  A recorder has no await between its first  *)
(* and its last access: it can be delayed but not cancelled.               *)
(***************************************************************************)
EXTENDS Integers, FiniteSets

CONSTANTS
  Recorders,          \* tasks that may be recording at the same time
  Probers,            \* those of them that run the active checker
  Samples,            \* latencies a request can measure, in nanoseconds
  MaxSample,          \* the largest of them
  FailureThresholds,  \* thresholds a failure is recorded with: passive or
                      \* default 5 (handlers), unhealthy_threshold (checker)
  SuccessThresholds,  \* the same for successes
  U32,                \* number of values of an AtomicU32 (2^32 in the code)
  U64,                \* number of values of an AtomicU64 (2^64 in the code)
  MaxTotal            \* bound: no outcome starts once a total reached it

ASSUME OriginStateAssumption ==
  /\ Probers \subseteq Recorders
  /\ MaxSample \in Nat
  /\ Samples \subseteq 0 .. MaxSample
  /\ FailureThresholds \subseteq Nat
  /\ SuccessThresholds \subseteq Nat
  /\ U32 \in Nat \ {0}
  /\ U64 \in Nat \ {0}
  /\ MaxTotal \in Nat

VARIABLES
  ewma_latency_ns, consecutive_successes, consecutive_failures,
  total_requests, total_failures, healthy,
  pc,         \* the next atomic access of each recorder
  outcome,    \* "ok" or "fail": what the recorder reports
  sample,     \* latency it measured
  old,        \* ewma_latency_ns as it last read it
  threshold,  \* argument of record_{success,failure}_with_threshold
  seen,       \* its own count: what fetch_add returned, plus one
  crossed     \* history: the last outcome was counted while one of the other
              \* kind was being recorded

shared == << ewma_latency_ns, consecutive_successes, consecutive_failures,
             total_requests, total_failures, healthy >>
locals == << pc, outcome, sample, old, threshold, seen >>
vars == << shared, locals, crossed >>

Outcomes == {"ok", "fail"}

\* Program points.  "record" is the entry of record_*_with_threshold.
PCs == {"idle", "load", "cas", "record", "succ_reset", "succ_mark",
        "fail_reset", "fail_total", "fail_mark"}

\* Definitions whose names end in _mutant are plausible bugs.  No action uses
\* them: they show that each property can be violated.
\* Here, a counter treated as unbounded.
Inc32_mutant(n) == n + 1

\* fetch_add(1) wraps around in both widths.
Inc32(n) == IF n + 1 = U32 THEN 0 ELSE n + 1
Inc64(n) == IF n + 1 = U64 THEN 0 ELSE n + 1

\* Operator precedence: the sample is not divided.
Ewma_mutant(s, o) == s + (9 * o) \div 10

\* alpha = 0.1 in integer arithmetic: new = (sample + 9 * old) / 10
Ewma(s, o) == (s + 9 * o) \div 10

\* Counted, and not yet decided about.
Succeeding == {r \in Recorders : pc[r] \in {"succ_reset", "succ_mark"}}
Failing ==
  {r \in Recorders : pc[r] \in {"fail_reset", "fail_total", "fail_mark"}}

Goto(r, from, to) ==
  /\ pc[r] = from
  /\ pc' = [pc EXCEPT ![r] = to]

\* The locals of a finished call are gone; here they get their first values.
Return(r) ==
  /\ outcome' = [outcome EXCEPT ![r] = "ok"]
  /\ threshold' = [threshold EXCEPT ![r] = 0]
  /\ seen' = [seen EXCEPT ![r] = 0]

TypeOK ==
  /\ ewma_latency_ns \in Nat
  /\ consecutive_successes \in 0 .. U32 - 1
  /\ consecutive_failures \in 0 .. U32 - 1
  /\ total_requests \in 0 .. U64 - 1
  /\ total_failures \in 0 .. U64 - 1
  /\ healthy \in BOOLEAN
  /\ pc \in [Recorders -> PCs]
  /\ outcome \in [Recorders -> Outcomes]
  /\ sample \in [Recorders -> 0 .. MaxSample]
  /\ old \in [Recorders -> Nat]
  /\ threshold \in [Recorders -> Nat]
  /\ seen \in [Recorders -> 0 .. U32 - 1]
  /\ crossed \in BOOLEAN

\* OriginState::new, with no outcome being recorded.
Init ==
  /\ ewma_latency_ns = 0
  /\ consecutive_successes = 0
  /\ consecutive_failures = 0
  /\ total_requests = 0
  /\ total_failures = 0
  /\ healthy = TRUE
  /\ pc = [r \in Recorders |-> "idle"]
  /\ outcome = [r \in Recorders |-> "ok"]
  /\ sample = [r \in Recorders |-> 0]
  /\ old = [r \in Recorders |-> 0]
  /\ threshold = [r \in Recorders |-> 0]
  /\ seen = [r \in Recorders |-> 0]
  /\ crossed = FALSE

-----------------------------------------------------------------------------
(* A handler's proxy_request has returned: a response below 500 is "ok", a *)
(* 5xx response or an error is "fail".  increment_requests comes first.    *)
increment_requests(r) ==
  /\ r \notin Probers
  /\ total_requests < MaxTotal
  /\ Goto(r, "idle", "load")
  /\ \E o \in Outcomes, s \in Samples :
       /\ outcome' = [outcome EXCEPT ![r] = o]
       /\ sample' = [sample EXCEPT ![r] = s]
  /\ total_requests' = Inc64(total_requests)
  /\ UNCHANGED << ewma_latency_ns, consecutive_successes,
                  consecutive_failures, total_failures, healthy, old,
                  threshold, seen, crossed >>

(* A probe has returned or timed out.  Only a 2xx status is "ok".  It goes *)
(* straight to record_*: no request is counted, no latency is recorded.    *)
probe_done(r) ==
  /\ r \in Probers
  /\ total_failures < MaxTotal
  /\ Goto(r, "idle", "record")
  /\ \E o \in Outcomes : outcome' = [outcome EXCEPT ![r] = o]
  /\ UNCHANGED << shared, sample, old, threshold, seen, crossed >>

(* record_latency: the load before the loop ...                            *)
load_latency(r) ==
  /\ Goto(r, "load", "cas")
  /\ old' = [old EXCEPT ![r] = ewma_latency_ns]
  /\ UNCHANGED << shared, outcome, sample, threshold, seen, crossed >>

\* A plain store of the average computed from the value loaded earlier.
cas_latency_mutant(r) ==
  /\ Goto(r, "cas", "record")
  /\ ewma_latency_ns' = Ewma(sample[r], old[r])
  /\ sample' = [sample EXCEPT ![r] = 0]
  /\ old' = [old EXCEPT ![r] = 0]
  /\ UNCHANGED << consecutive_successes, consecutive_failures,
                  total_requests, total_failures, healthy, outcome,
                  threshold, seen, crossed >>

(* ... a compare_exchange_weak that succeeds ...                           *)
cas_latency(r) ==
  /\ Goto(r, "cas", "record")
  /\ ewma_latency_ns = old[r]
  /\ ewma_latency_ns' = Ewma(sample[r], old[r])
  /\ sample' = [sample EXCEPT ![r] = 0]
  /\ old' = [old EXCEPT ![r] = 0]
  /\ UNCHANGED << consecutive_successes, consecutive_failures,
                  total_requests, total_failures, healthy, outcome,
                  threshold, seen, crossed >>

(* ... or fails and hands back the value it found.  A spurious failure of  *)
(* the weak exchange finds the value expected, and changes nothing.        *)
retry_latency(r) ==
  /\ Goto(r, "cas", "cas")
  /\ old' = [old EXCEPT ![r] = ewma_latency_ns]
  /\ UNCHANGED << shared, outcome, sample, threshold, seen, crossed >>

(* record_success_with_threshold: fetch_add, store(0), conditional store.  *)
add_success(r) ==
  /\ Goto(r, "record", "succ_reset")
  /\ outcome[r] = "ok"
  /\ \E t \in SuccessThresholds : threshold' = [threshold EXCEPT ![r] = t]
  /\ seen' = [seen EXCEPT ![r] = Inc32(consecutive_successes)]
  /\ consecutive_successes' = Inc32(consecutive_successes)
  /\ crossed' = (Failing # {})
  /\ UNCHANGED << ewma_latency_ns, consecutive_failures, total_requests,
                  total_failures, healthy, outcome, sample, old >>

\* The reset is missing.
reset_failures_mutant(r) ==
  /\ Goto(r, "succ_reset", "succ_mark")
  /\ UNCHANGED << shared, outcome, sample, old, threshold, seen, crossed >>

reset_failures(r) ==
  /\ Goto(r, "succ_reset", "succ_mark")
  /\ consecutive_failures' = 0
  /\ UNCHANGED << ewma_latency_ns, consecutive_successes, total_requests,
                  total_failures, healthy, outcome, sample, old, threshold,
                  seen, crossed >>

\* Off by one: the streak has to exceed the threshold.
mark_healthy_mutant(r) ==
  /\ Goto(r, "succ_mark", "idle")
  /\ healthy' = (healthy \/ seen[r] > threshold[r])
  /\ Return(r)
  /\ UNCHANGED << ewma_latency_ns, consecutive_successes,
                  consecutive_failures, total_requests, total_failures,
                  sample, old, crossed >>

mark_healthy(r) ==
  /\ Goto(r, "succ_mark", "idle")
  /\ healthy' = (healthy \/ seen[r] >= threshold[r])
  /\ Return(r)
  /\ UNCHANGED << ewma_latency_ns, consecutive_successes,
                  consecutive_failures, total_requests, total_failures,
                  sample, old, crossed >>

(* record_failure_with_threshold: the same, and total_failures in between. *)
add_failure(r) ==
  /\ Goto(r, "record", "fail_reset")
  /\ outcome[r] = "fail"
  /\ \E t \in FailureThresholds : threshold' = [threshold EXCEPT ![r] = t]
  /\ seen' = [seen EXCEPT ![r] = Inc32(consecutive_failures)]
  /\ consecutive_failures' = Inc32(consecutive_failures)
  /\ crossed' = (Succeeding # {})
  /\ UNCHANGED << ewma_latency_ns, consecutive_successes, total_requests,
                  total_failures, healthy, outcome, sample, old >>

\* The wrong counter: a failure ends its own streak.
reset_successes_mutant(r) ==
  /\ Goto(r, "fail_reset", "fail_total")
  /\ consecutive_failures' = 0
  /\ UNCHANGED << ewma_latency_ns, consecutive_successes, total_requests,
                  total_failures, healthy, outcome, sample, old, threshold,
                  seen, crossed >>

reset_successes(r) ==
  /\ Goto(r, "fail_reset", "fail_total")
  /\ consecutive_successes' = 0
  /\ UNCHANGED << ewma_latency_ns, consecutive_failures, total_requests,
                  total_failures, healthy, outcome, sample, old, threshold,
                  seen, crossed >>

add_total_failure(r) ==
  /\ Goto(r, "fail_total", "fail_mark")
  /\ total_failures' = Inc64(total_failures)
  /\ UNCHANGED << ewma_latency_ns, consecutive_successes,
                  consecutive_failures, total_requests, healthy, outcome,
                  sample, old, threshold, seen, crossed >>

\* Off by one: marks with threshold - 1 failures.
mark_unhealthy_mutant(r) ==
  /\ Goto(r, "fail_mark", "idle")
  /\ healthy' = (healthy /\ seen[r] + 1 < threshold[r])
  /\ Return(r)
  /\ UNCHANGED << ewma_latency_ns, consecutive_successes,
                  consecutive_failures, total_requests, total_failures,
                  sample, old, crossed >>

mark_unhealthy(r) ==
  /\ Goto(r, "fail_mark", "idle")
  /\ healthy' = (healthy /\ seen[r] < threshold[r])
  /\ Return(r)
  /\ UNCHANGED << ewma_latency_ns, consecutive_successes,
                  consecutive_failures, total_requests, total_failures,
                  sample, old, crossed >>

Begin(r) == increment_requests(r) \/ probe_done(r)

Step(r) ==
  \/ load_latency(r) \/ cas_latency(r) \/ retry_latency(r)
  \/ add_success(r) \/ reset_failures(r) \/ mark_healthy(r)
  \/ add_failure(r) \/ reset_successes(r) \/ add_total_failure(r)
  \/ mark_unhealthy(r)

Next == \E r \in Recorders : Begin(r) \/ Step(r)

Spec == Init /\ [][Next]_vars

(* A recorder that has started runs on: nothing blocks it.  Nothing makes  *)
(* an outcome start, and nothing makes the exchange win its race.          *)
FairSpec == Spec /\ \A r \in Recorders : WF_vars(Step(r))

-----------------------------------------------------------------------------
AtRest == \A r \in Recorders : pc[r] = "idle"

(* With nobody recording, the flag agrees with a streak that has reached   *)
(* its threshold, unless the last outcome was counted while one of the     *)
(* other kind was between its fetch_add and its store to healthy: then the *)
(* stores may land in the other order, and the flag of an origin whose     *)
(* last failures were enough stays up, or down after enough successes.     *)
FlagAgreesUnlessCrossed ==
  AtRest /\ ~crossed =>
    /\ (/\ consecutive_failures > 0
        /\ \A t \in FailureThresholds : consecutive_failures >= t)
       => ~healthy
    /\ (/\ consecutive_successes > 0
        /\ \A t \in SuccessThresholds : consecutive_successes >= t)
       => healthy

(* A streak of successes and a streak of failures coexist only while some  *)
(* recorder still owes the reset of the other's counter: whatever the      *)
(* interleaving of record_success and record_failure, no origin is left    *)
(* with both consecutive_successes and consecutive_failures above zero.    *)
StreakExclusion ==
  consecutive_successes > 0 /\ consecutive_failures > 0
    => \E r \in Recorders : pc[r] \in {"succ_reset", "fail_reset"}

(* Failures whose recorder has bumped consecutive_failures but not yet     *)
(* total_failures.                                                         *)
Uncounted == {r \in Recorders : pc[r] \in {"fail_reset", "fail_total"}}

(* An origin is only ever marked unhealthy after as many failures as the   *)
(* smallest threshold in use, counting those whose total_failures step is  *)
(* still to come: racing resets may lose failures, never invent them.      *)
UnhealthyIsEarned ==
  ~healthy =>
    \E t \in FailureThresholds :
      total_failures + Cardinality(Uncounted) >= t

(* The weighted average of record_latency never leaves the range of the    *)
(* samples, however the exchanges of several handlers interleave.          *)
EwmaBounded == ewma_latency_ns <= MaxSample

(* No sample is lost: a handler leaves the exchange loop of record_latency *)
(* in the very step that folds its sample into the CURRENT average, which  *)
(* changes in no other way.                                                *)
LatencySampleApplied ==
  [][\/ /\ UNCHANGED ewma_latency_ns
        /\ \A r \in Recorders : pc[r] = "cas" /\ pc'[r] # "cas"
             => Ewma(sample[r], ewma_latency_ns) = ewma_latency_ns
     \/ \E r \in Recorders :
          /\ pc[r] = "cas" /\ pc'[r] = "record"
          /\ ewma_latency_ns' = Ewma(sample[r], ewma_latency_ns)]_vars

Only(o) == \A r \in Recorders : pc[r] # "idle" => outcome[r] = o

(* When from some moment on every outcome reported is a failure and        *)
(* failures keep being recorded to the end, the origin ends up unhealthy   *)
(* and stays so, whatever stores were still under way at that moment; the  *)
(* same for successes (record_failure_with_threshold,                      *)
(* record_success_with_threshold).                                         *)
PersistentOutcomeDecides ==
  /\ <>[]Only("fail") /\ []<>(\E r \in Recorders : pc[r] = "fail_mark")
       => <>[]~healthy
  /\ <>[]Only("ok") /\ []<>(\E r \in Recorders : pc[r] = "succ_mark")
       => <>[]healthy
=============================================================================
