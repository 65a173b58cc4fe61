------------------------- MODULE OriginStateProofs -------------------------
(***************************************************************************)
(* Theorems about OriginState, for any number of recorders, any set of     *)
(* thresholds and samples, and any width of the counters.                  *)
(***************************************************************************)
EXTENDS OriginState, FiniteSetTheorems, TLAPS

(* Both counter increments of the code stay in the counter's range.        *)
LEMMA IncRange ==
  /\ \A n \in 0 .. U32 - 1 : Inc32(n) \in 0 .. U32 - 1
  /\ \A n \in 0 .. U64 - 1 : Inc64(n) \in 0 .. U64 - 1
BY OriginStateAssumption DEF Inc32, Inc64

(* The integer average of record_latency is a natural number that is not   *)
(* above a bound on both the sample and the old average.                   *)
LEMMA EwmaRange ==
  ASSUME NEW s \in Nat, NEW o \in Nat
  PROVE  /\ Ewma(s, o) \in Nat
         /\ \A m \in Nat : s <= m /\ o <= m => Ewma(s, o) <= m
BY DEF Ewma

(* Every reachable state of the shared record and of its recorders is      *)
(* well typed: counters stay within their widths (balance/mod.rs).         *)
THEOREM TypeCorrect == Spec => []TypeOK
<1>1. Init => TypeOK
  <2> SUFFICES ASSUME Init PROVE TypeOK
    OBVIOUS
  <2>1. healthy \in BOOLEAN /\ crossed \in BOOLEAN
    BY Zenon DEF Init
  <2>2. /\ 0 \in 0 .. MaxSample /\ 0 \in 0 .. U32 - 1 /\ 0 \in 0 .. U64 - 1
        /\ 0 \in Nat
    BY OriginStateAssumption
  <2> QED BY <2>1, <2>2, Zenon DEF Init, TypeOK, PCs, Outcomes
<1>2. TypeOK /\ [Next]_vars => TypeOK'
  <2> SUFFICES ASSUME TypeOK, [Next]_vars PROVE TypeOK'
    OBVIOUS
  <2> USE OriginStateAssumption DEF TypeOK, PCs, Outcomes, Goto
  <2>1. ASSUME NEW r \in Recorders, increment_requests(r) PROVE TypeOK'
    BY <2>1, IncRange DEF increment_requests
  <2>2. ASSUME NEW r \in Recorders, probe_done(r) PROVE TypeOK'
    BY <2>2 DEF probe_done, shared
  <2>3. ASSUME NEW r \in Recorders, load_latency(r) PROVE TypeOK'
    BY <2>3 DEF load_latency, shared
  <2>4. ASSUME NEW r \in Recorders, cas_latency(r) PROVE TypeOK'
    <3>1. Ewma(sample[r], old[r]) \in Nat
      BY EwmaRange
    <3> QED BY <2>4, <3>1 DEF cas_latency
  <2>5. ASSUME NEW r \in Recorders, retry_latency(r) PROVE TypeOK'
    BY <2>5 DEF retry_latency, shared
  <2>6. ASSUME NEW r \in Recorders, add_success(r) PROVE TypeOK'
    BY <2>6, IncRange DEF add_success
  <2>7. ASSUME NEW r \in Recorders, reset_failures(r) PROVE TypeOK'
    BY <2>7 DEF reset_failures
  <2>8. ASSUME NEW r \in Recorders, mark_healthy(r) PROVE TypeOK'
    BY <2>8 DEF mark_healthy, Return
  <2>9. ASSUME NEW r \in Recorders, add_failure(r) PROVE TypeOK'
    BY <2>9, IncRange DEF add_failure
  <2>10. ASSUME NEW r \in Recorders, reset_successes(r) PROVE TypeOK'
    BY <2>10 DEF reset_successes
  <2>11. ASSUME NEW r \in Recorders, add_total_failure(r) PROVE TypeOK'
    BY <2>11, IncRange DEF add_total_failure
  <2>12. ASSUME NEW r \in Recorders, mark_unhealthy(r) PROVE TypeOK'
    BY <2>12 DEF mark_unhealthy, Return
  <2>13. CASE UNCHANGED vars
    BY <2>13 DEF vars, shared, locals
  <2> QED
    BY <2>1, <2>2, <2>3, <2>4, <2>5, <2>6, <2>7, <2>8, <2>9, <2>10, <2>11,
       <2>12, <2>13 DEF Next, Begin, Step
<1> QED
  BY <1>1, <1>2, PTL DEF Spec

(* Whatever the interleaving of recorders, the two streaks are both        *)
(* positive only while a recorder stands between its fetch_add and its     *)
(* store(0): the property is inductive given the type invariant.           *)
THEOREM StreaksExclude == Spec => []StreakExclusion
<1>1. Init => StreakExclusion
  BY DEF Init, StreakExclusion
<1>2. TypeOK /\ StreakExclusion /\ [Next]_vars => StreakExclusion'
  <2> SUFFICES ASSUME TypeOK, StreakExclusion, [Next]_vars
               PROVE  StreakExclusion'
    OBVIOUS
  <2> USE DEF TypeOK, StreakExclusion, Goto
  <2>1. ASSUME NEW r \in Recorders, Begin(r) PROVE StreakExclusion'
    BY <2>1 DEF Begin, increment_requests, probe_done, shared
  <2>2. ASSUME NEW r \in Recorders,
               load_latency(r) \/ cas_latency(r) \/ retry_latency(r)
        PROVE  StreakExclusion'
    BY <2>2 DEF load_latency, cas_latency, retry_latency, shared
  <2>3. ASSUME NEW r \in Recorders, add_success(r) \/ add_failure(r)
        PROVE  StreakExclusion'
    BY <2>3 DEF add_success, add_failure
  <2>4. ASSUME NEW r \in Recorders, reset_failures(r) \/ reset_successes(r)
        PROVE  StreakExclusion'
    BY <2>4 DEF reset_failures, reset_successes
  <2>5. ASSUME NEW r \in Recorders,
               mark_healthy(r) \/ mark_unhealthy(r) \/ add_total_failure(r)
        PROVE  StreakExclusion'
    BY <2>5 DEF mark_healthy, mark_unhealthy, add_total_failure, Return
  <2>6. CASE UNCHANGED vars
    BY <2>6 DEF vars, shared, locals
  <2> QED
    BY <2>1, <2>2, <2>3, <2>4, <2>5, <2>6 DEF Next, Step
<1> QED
  BY <1>1, <1>2, TypeCorrect, PTL DEF Spec

(* The inductive strengthening of EwmaBounded: the copies of the average   *)
(* that handlers hold between their load and their exchange are bounded    *)
(* too.                                                                    *)
EwmaInv == EwmaBounded /\ \A r \in Recorders : old[r] <= MaxSample

(* The average kept by record_latency never exceeds the largest sample.    *)
THEOREM EwmaStaysBounded == Spec => []EwmaBounded
<1>1. Init => EwmaInv
  BY OriginStateAssumption DEF Init, EwmaInv, EwmaBounded
<1>2. TypeOK /\ EwmaInv /\ [Next]_vars => EwmaInv'
  <2> SUFFICES ASSUME TypeOK, EwmaInv, [Next]_vars PROVE EwmaInv'
    OBVIOUS
  <2> USE OriginStateAssumption DEF TypeOK, EwmaInv, EwmaBounded
  <2>1. ASSUME NEW r \in Recorders, load_latency(r) \/ retry_latency(r)
        PROVE  EwmaInv'
    BY <2>1 DEF load_latency, retry_latency, shared
  <2>2. ASSUME NEW r \in Recorders, cas_latency(r) PROVE EwmaInv'
    <3>1. Ewma(sample[r], old[r]) <= MaxSample
      BY EwmaRange
    <3> QED BY <2>2, <3>1 DEF cas_latency
  <2>3. ASSUME NEW r \in Recorders, Begin(r) PROVE EwmaInv'
    BY <2>3 DEF Begin, increment_requests, probe_done, shared
  <2>4. ASSUME NEW r \in Recorders,
               add_success(r) \/ reset_failures(r) \/ mark_healthy(r)
        PROVE  EwmaInv'
    BY <2>4 DEF add_success, reset_failures, mark_healthy
  <2>5. ASSUME NEW r \in Recorders,
               \/ add_failure(r) \/ reset_successes(r)
               \/ add_total_failure(r) \/ mark_unhealthy(r)
        PROVE  EwmaInv'
    BY <2>5 DEF add_failure, reset_successes, add_total_failure,
                mark_unhealthy
  <2>6. CASE UNCHANGED vars
    BY <2>6 DEF vars, shared, locals
  <2> QED
    BY <2>1, <2>2, <2>3, <2>4, <2>5, <2>6 DEF Next, Step
<1> QED
  BY <1>1, <1>2, TypeCorrect, PTL DEF Spec, EwmaInv

(* No latency sample is lost and none is applied to a stale average: every *)
(* exit from the exchange loop of record_latency folds the sample into the *)
(* average in force at that step.                                          *)
THEOREM NoSampleLost == Spec => LatencySampleApplied
<1> DEFINE Applied ==
      \/ /\ UNCHANGED ewma_latency_ns
         /\ \A r \in Recorders : pc[r] = "cas" /\ pc'[r] # "cas"
              => Ewma(sample[r], ewma_latency_ns) = ewma_latency_ns
      \/ \E r \in Recorders :
           /\ pc[r] = "cas" /\ pc'[r] = "record"
           /\ ewma_latency_ns' = Ewma(sample[r], ewma_latency_ns)
<1>1. TypeOK /\ [Next]_vars => [Applied]_vars
  <2> SUFFICES ASSUME TypeOK, Next PROVE Applied
    OBVIOUS
  <2> USE DEF TypeOK, Goto
  <2>1. ASSUME NEW r \in Recorders, cas_latency(r) PROVE Applied
    BY <2>1 DEF cas_latency
  <2>2. ASSUME NEW r \in Recorders,
               Begin(r) \/ load_latency(r) \/ retry_latency(r)
        PROVE  Applied
    BY <2>2 DEF Begin, increment_requests, probe_done, load_latency,
                retry_latency, shared
  <2>3. ASSUME NEW r \in Recorders,
               add_success(r) \/ reset_failures(r) \/ mark_healthy(r)
        PROVE  Applied
    BY <2>3 DEF add_success, reset_failures, mark_healthy
  <2>4. ASSUME NEW r \in Recorders,
               \/ add_failure(r) \/ reset_successes(r)
               \/ add_total_failure(r) \/ mark_unhealthy(r)
        PROVE  Applied
    BY <2>4 DEF add_failure, reset_successes, add_total_failure,
                mark_unhealthy
  <2> QED BY <2>1, <2>2, <2>3, <2>4 DEF Next, Step
<1>2. [][Applied]_vars => LatencySampleApplied
  BY PTL DEF LatencySampleApplied
<1> QED
  BY <1>1, <1>2, TypeCorrect, PTL DEF Spec

(* Why the flag follows the streak while no opposite outcomes cross.  The  *)
(* recorders under way are then of one kind.  A streak of failures at its  *)
(* threshold has marked the origin, or the recorder that counted its last  *)
(* failure still will, or a success is about to end it; and a success past *)
(* its reset, which may mark the origin healthy, leaves no such streak.    *)
FailuresDecide ==
  (/\ consecutive_failures > 0
   /\ \A t \in FailureThresholds : consecutive_failures >= t)
  => \/ ~healthy
     \/ \E r \in Failing : seen[r] = consecutive_failures
     \/ \E r \in Recorders : pc[r] = "succ_reset"

SuccessesDecide ==
  (/\ consecutive_successes > 0
   /\ \A t \in SuccessThresholds : consecutive_successes >= t)
  => \/ healthy
     \/ \E r \in Succeeding : seen[r] = consecutive_successes
     \/ \E r \in Recorders : pc[r] = "fail_reset"

SuccessesReset ==
  consecutive_failures > 0 /\ (\E r \in Recorders : pc[r] = "succ_mark")
  => \E r \in Recorders : pc[r] = "succ_reset"

FailuresReset ==
  (/\ consecutive_successes > 0
   /\ \E r \in Recorders : pc[r] \in {"fail_total", "fail_mark"})
  => \E r \in Recorders : pc[r] = "fail_reset"

Orderly ==
  /\ Succeeding = {} \/ Failing = {}
  /\ FailuresDecide /\ SuccessesDecide /\ SuccessesReset /\ FailuresReset

FlagInv ==
  /\ \A r \in Succeeding : threshold[r] \in SuccessThresholds
  /\ \A r \in Failing : threshold[r] \in FailureThresholds
  /\ ~crossed => Orderly

(* The health flag can contradict the streak at rest only after two        *)
(* opposite outcomes crossed between fetch_add and the store to healthy,   *)
(* for any number of recorders, thresholds and width of the counters.      *)
THEOREM FlagFollowsStreak == Spec => []FlagAgreesUnlessCrossed
<1>1. Init => FlagInv
  BY DEF Init, FlagInv, Orderly, Succeeding, Failing, FailuresDecide,
         SuccessesDecide, SuccessesReset, FailuresReset
<1>2. TypeOK /\ FlagInv /\ [Next]_vars => FlagInv'
  <2> SUFFICES ASSUME TypeOK, FlagInv, [Next]_vars PROVE FlagInv'
    OBVIOUS
  <2> USE OriginStateAssumption
      DEF TypeOK, PCs, Outcomes, Goto, FlagInv, Orderly, Succeeding, Failing,
          FailuresDecide, SuccessesDecide, SuccessesReset, FailuresReset
  <2>1. ASSUME NEW r \in Recorders, Begin(r) PROVE FlagInv'
    BY <2>1 DEF Begin, increment_requests, probe_done, shared
  <2>2. ASSUME NEW r \in Recorders,
               load_latency(r) \/ cas_latency(r) \/ retry_latency(r)
        PROVE  FlagInv'
    BY <2>2 DEF load_latency, cas_latency, retry_latency, shared
  <2>3. ASSUME NEW r \in Recorders, add_success(r) PROVE FlagInv'
    BY <2>3, IncRange DEF add_success
  <2>4. ASSUME NEW r \in Recorders, reset_failures(r) PROVE FlagInv'
    BY <2>4 DEF reset_failures
  <2>5. ASSUME NEW r \in Recorders, mark_healthy(r) PROVE FlagInv'
    BY <2>5, ZenonT(60) DEF mark_healthy, Return
  <2>6. ASSUME NEW r \in Recorders, add_failure(r) PROVE FlagInv'
    BY <2>6, IncRange DEF add_failure
  <2>7. ASSUME NEW r \in Recorders, reset_successes(r) PROVE FlagInv'
    BY <2>7 DEF reset_successes
  <2>8. ASSUME NEW r \in Recorders, add_total_failure(r) PROVE FlagInv'
    BY <2>8 DEF add_total_failure
  <2>9. ASSUME NEW r \in Recorders, mark_unhealthy(r) PROVE FlagInv'
    BY <2>9 DEF mark_unhealthy, Return
  <2>10. CASE UNCHANGED vars
    BY <2>10 DEF vars, shared, locals
  <2> QED
    BY <2>1, <2>2, <2>3, <2>4, <2>5, <2>6, <2>7, <2>8, <2>9, <2>10
    DEF Next, Step
<1>3. TypeOK /\ FlagInv => FlagAgreesUnlessCrossed
  BY DEF TypeOK, FlagInv, Orderly, FlagAgreesUnlessCrossed, AtRest, Failing,
         Succeeding, FailuresDecide, SuccessesDecide
<1> QED
  BY <1>1, <1>2, <1>3, TypeCorrect, PTL DEF Spec

(* Failures counted so far, those included whose recorder has not come to  *)
(* total_failures yet.                                                     *)
Failures == total_failures + Cardinality(Uncounted)

(* The 64-bit counter of failures is short of its last value, from which   *)
(* it would wrap around.                                                   *)
TotalHasRoom == total_failures + 1 < U64

(* No step takes failures back, and add_failure adds one.                  *)
LEMMA FailuresGrow ==
  ASSUME TypeOK, IsFiniteSet(Uncounted), [Next]_vars, TotalHasRoom
  PROVE  /\ IsFiniteSet(Uncounted')
         /\ Failures \in Nat /\ Failures' \in Nat
         /\ Failures' >= Failures
         /\ (\E r \in Recorders : add_failure(r)) => Failures' >= Failures + 1
<1> DEFINE n == Cardinality(Uncounted)
<1>1. n \in Nat /\ total_failures \in Nat
  BY FS_CardinalityType, OriginStateAssumption DEF TypeOK
<1>2. ASSUME NEW r \in Recorders, add_failure(r)
      PROVE  /\ IsFiniteSet(Uncounted') /\ Cardinality(Uncounted') = n + 1
             /\ total_failures' = total_failures
  <2>1. Uncounted' = Uncounted \cup {r} /\ r \notin Uncounted
    BY <1>2 DEF add_failure, Goto, TypeOK, Uncounted
  <2> QED BY <1>2, <2>1, FS_AddElement DEF add_failure
<1>3. ASSUME NEW r \in Recorders, add_total_failure(r)
      PROVE  /\ IsFiniteSet(Uncounted') /\ Cardinality(Uncounted') = n - 1
             /\ total_failures' = total_failures + 1
  <2>1. Uncounted' = Uncounted \ {r} /\ r \in Uncounted
    BY <1>3 DEF add_total_failure, Goto, TypeOK, Uncounted
  <2>2. total_failures' = total_failures + 1
    BY <1>1, <1>3, OriginStateAssumption
    DEF add_total_failure, Inc64, TotalHasRoom
  <2> QED BY <2>1, <2>2, FS_RemoveElement
<1>4. ASSUME UNCHANGED vars \/ \E r \in Recorders : (Begin(r) \/ Step(r))
                 /\ ~add_failure(r) /\ ~add_total_failure(r)
      PROVE  Uncounted' = Uncounted /\ total_failures' = total_failures
  <2>1. CASE UNCHANGED vars
    BY <2>1 DEF vars, shared, locals, Uncounted
  <2>2. ASSUME NEW r \in Recorders,
               \/ Begin(r) \/ load_latency(r) \/ cas_latency(r)
               \/ retry_latency(r) \/ add_success(r) \/ reset_failures(r)
               \/ mark_healthy(r) \/ reset_successes(r) \/ mark_unhealthy(r)
        PROVE  Uncounted' = Uncounted /\ total_failures' = total_failures
    BY <2>2 DEF Begin, increment_requests, probe_done, load_latency,
                cas_latency, retry_latency, add_success, reset_failures,
                mark_healthy, reset_successes, mark_unhealthy, shared, Goto,
                TypeOK, Uncounted
  <2> QED BY <1>4, <2>1, <2>2 DEF Step
<1>5. \/ \E r \in Recorders : add_failure(r)
      \/ \E r \in Recorders : add_total_failure(r)
      \/ UNCHANGED vars \/ \E r \in Recorders : (Begin(r) \/ Step(r))
             /\ ~add_failure(r) /\ ~add_total_failure(r)
  BY DEF Next
<1>6. /\ IsFiniteSet(Uncounted')
      /\ \/ Cardinality(Uncounted') = n + 1 /\ total_failures' = total_failures
         \/ /\ ~\E r \in Recorders : add_failure(r)
            /\ \/ /\ Cardinality(Uncounted') = n - 1
                  /\ total_failures' = total_failures + 1
               \/ /\ Cardinality(Uncounted') = n
                  /\ total_failures' = total_failures
  BY <1>2, <1>3, <1>4, <1>5, Zenon
<1>7. Cardinality(Uncounted') \in Nat
  BY <1>6, FS_CardinalityType
<1> QED BY <1>1, <1>6, <1>7 DEF Failures

(* Why an unhealthy origin has failed often enough: the streak, and what   *)
(* each recorder has seen of it, never exceeds the failures there were,    *)
(* and a failure is judged by a threshold in use.                          *)
EarnedInv ==
  /\ IsFiniteSet(Uncounted)
  /\ consecutive_failures <= Failures
  /\ \A r \in Failing :
       seen[r] <= Failures /\ threshold[r] \in FailureThresholds
  /\ UnhealthyIsEarned

(* An origin is only marked unhealthy after as many failures as some       *)
(* threshold asks for, for any number of recorders and whatever resets     *)
(* cross, as long as total_failures has not wrapped around: the streaks of *)
(* record_failure_with_threshold may lose failures, never invent them.     *)
THEOREM UnhealthyWasEarned == Spec /\ []TotalHasRoom => []UnhealthyIsEarned
<1>1. Init => EarnedInv
  <2> SUFFICES ASSUME Init PROVE EarnedInv
    OBVIOUS
  <2>1. Uncounted = {} /\ Failing = {} /\ healthy
    BY DEF Init, Uncounted, Failing
  <2>2. IsFiniteSet(Uncounted) /\ Failures = 0
    BY <2>1, FS_EmptySet DEF Init, Failures
  <2> QED BY <2>1, <2>2 DEF Init, EarnedInv, UnhealthyIsEarned
<1>2. TypeOK /\ EarnedInv /\ TotalHasRoom /\ [Next]_vars => EarnedInv'
  <2> SUFFICES ASSUME TypeOK, EarnedInv, TotalHasRoom, [Next]_vars
               PROVE  EarnedInv'
    OBVIOUS
  <2>2. /\ IsFiniteSet(Uncounted')
        /\ Failures \in Nat /\ Failures' \in Nat /\ Failures' >= Failures
        /\ (\E r \in Recorders : add_failure(r)) => Failures' >= Failures + 1
    BY FailuresGrow DEF EarnedInv
  <2>3. UnhealthyIsEarned <=>
          (~healthy => \E t \in FailureThresholds : Failures >= t)
    BY DEF UnhealthyIsEarned, Failures
  <2>4. UnhealthyIsEarned' <=>
          (~healthy' => \E t \in FailureThresholds : Failures' >= t)
    BY DEF UnhealthyIsEarned, Failures
  <2> DEFINE f == Failures
             g == Failures'
  <2>5. /\ f \in Nat /\ g \in Nat /\ g >= f
        /\ (\E r \in Recorders : add_failure(r)) => g >= f + 1
    BY <2>2
  <2>6. /\ consecutive_failures <= f
        /\ \A r \in Failing :
             seen[r] <= f /\ threshold[r] \in FailureThresholds
        /\ ~healthy => \E t \in FailureThresholds : f >= t
    BY <2>3 DEF EarnedInv
  <2> SUFFICES /\ consecutive_failures' <= g
               /\ \A r \in Failing' :
                    seen'[r] <= g /\ threshold'[r] \in FailureThresholds
               /\ ~healthy' => \E t \in FailureThresholds : g >= t
    BY <2>2, <2>4 DEF EarnedInv
  <2> HIDE DEF f, g
  <2> USE <2>5, <2>6, OriginStateAssumption
      DEF TypeOK, PCs, Outcomes, Goto, Failing
  <2> DEFINE Goal ==
        /\ consecutive_failures' <= g
        /\ \A r \in Failing' :
             seen'[r] <= g /\ threshold'[r] \in FailureThresholds
        /\ ~healthy' => \E t \in FailureThresholds : g >= t
  <2>7. ASSUME NEW r \in Recorders,
               \/ Begin(r) \/ load_latency(r) \/ cas_latency(r)
               \/ retry_latency(r) \/ add_success(r) \/ reset_failures(r)
               \/ reset_successes(r) \/ add_total_failure(r)
        PROVE  Goal
    BY <2>7 DEF Begin, increment_requests, probe_done, load_latency,
                cas_latency, retry_latency, add_success, reset_failures,
                reset_successes, add_total_failure, shared
  <2>8. ASSUME NEW r \in Recorders, add_failure(r) PROVE Goal
    <3> DEFINE c == Inc32(consecutive_failures)
    <3>1. c \in 0 .. U32 - 1 /\ c <= f + 1
      BY IncRange DEF Inc32
    <3>2. f + 1 <= g
      BY <2>8
    <3>3. PICK t \in FailureThresholds :
            threshold' = [threshold EXCEPT ![r] = t]
      BY <2>8 DEF add_failure
    <3>4. /\ consecutive_failures' = c /\ seen' = [seen EXCEPT ![r] = c]
          /\ healthy' = healthy /\ Failing' = Failing \cup {r}
      BY <2>8 DEF add_failure
    <3> HIDE DEF c
    <3> QED BY <3>1, <3>2, <3>3, <3>4
  <2>9. ASSUME NEW r \in Recorders, mark_healthy(r) PROVE Goal
    BY <2>9 DEF mark_healthy, Return
  <2>10. ASSUME NEW r \in Recorders, mark_unhealthy(r) PROVE Goal
    BY <2>10 DEF mark_unhealthy, Return
  <2>11. CASE UNCHANGED vars
    BY <2>11 DEF vars, shared, locals
  <2> QED
    BY <2>7, <2>8, <2>9, <2>10, <2>11 DEF Next, Step
<1> QED
  BY <1>1, <1>2, TypeCorrect, PTL DEF Spec, EarnedInv

=============================================================================
