--------------------------- MODULE BalancerProofs ---------------------------
(***************************************************************************)
(* Theorems about Balancer, for any candidates, weights and latencies and  *)
(* any width of the counter.                                               *)
(***************************************************************************)
EXTENDS Balancer, Induction, TLAPS

(* s holds the cumulative weights up to index n.                           *)
Sums(w, n, s) == s = [i \in 0 .. n |-> IF i = 0 THEN 0 ELSE s[i - 1] + w[i]]

(* The recursion of Cumulative has a solution, with natural numbers ...    *)
LEMMA SumsExist ==
  ASSUME NEW w \in Seq(Nat)
  PROVE  \A n \in 0 .. Len(w) : \E s \in [0 .. n -> Nat] : Sums(w, n, s)
<1> DEFINE S == {n \in Nat : \E s \in [0 .. n -> Nat] : Sums(w, n, s)}
<1>1. 0 \in S
  <2> DEFINE s == [i \in 0 .. 0 |-> 0]
  <2>1. s \in [0 .. 0 -> Nat] /\ Sums(w, 0, s)
    BY DEF Sums
  <2> QED BY <2>1
<1>2. ASSUME NEW m \in 0 .. Len(w) - 1, m \in S PROVE m + 1 \in S
  <2>1. PICK s \in [0 .. m -> Nat] : Sums(w, m, s)
    BY <1>2
  <2> DEFINE t == [i \in 0 .. m + 1 |->
                     IF i = m + 1 THEN s[m] + w[m + 1] ELSE s[i]]
  <2>2. m \in Nat /\ w[m + 1] \in Nat /\ s[m] \in Nat
    OBVIOUS
  <2>3. t \in [0 .. m + 1 -> Nat]
    BY <2>2
  <2>4. ASSUME NEW i \in 0 .. m + 1
        PROVE  t[i] = IF i = 0 THEN 0 ELSE t[i - 1] + w[i]
    <3>1. CASE i = m + 1
      BY <3>1, <2>2
    <3>2. CASE i \in 0 .. m
      <4>1. s[i] = IF i = 0 THEN 0 ELSE s[i - 1] + w[i]
        BY <2>1, <3>2 DEF Sums
      <4>2. t[i] = s[i] /\ (i # 0 => t[i - 1] = s[i - 1])
        BY <2>2, <3>2
      <4> QED BY <4>1, <4>2
    <3> QED BY <2>2, <3>1, <3>2
  <2>5. Sums(w, m + 1, t)
    BY <2>3, <2>4, Zenon DEF Sums
  <2> HIDE DEF t
  <2>6. m + 1 \in Nat
    BY <2>2
  <2> QED BY <2>3, <2>5, <2>6, Zenon
<1>3. Len(w) \in Nat
  OBVIOUS
<1> HIDE DEF S
<1>4. \A n \in 0 .. Len(w) : n \in S
  BY <1>1, <1>2, <1>3, UpTo
<1> QED BY <1>4, Zenon DEF S

(* ... and just one.                                                       *)
LEMMA SumsAgree ==
  ASSUME NEW w \in Seq(Nat), NEW n \in 0 .. Len(w), NEW k \in 0 .. n,
         NEW s, Sums(w, n, s), NEW t, Sums(w, k, t)
  PROVE  s[k] = t[k]
<1> DEFINE S == {i \in 0 .. k : s[i] = t[i]}
<1>1. /\ \A i \in 0 .. n : s[i] = IF i = 0 THEN 0 ELSE s[i - 1] + w[i]
      /\ \A i \in 0 .. k : t[i] = IF i = 0 THEN 0 ELSE t[i - 1] + w[i]
  BY Zenon DEF Sums
<1>2. 0 \in S
  BY <1>1
<1>3. ASSUME NEW i \in 0 .. k - 1, i \in S PROVE i + 1 \in S
  BY <1>1, <1>3
<1>4. k \in Nat /\ k \in 0 .. k
  OBVIOUS
<1> HIDE DEF S
<1>5. \A i \in 0 .. k : i \in S
  BY <1>2, <1>3, <1>4, UpTo
<1> QED BY <1>4, <1>5 DEF S

(* What Cumulative computes.                                               *)
LEMMA CumulativeIsSum ==
  ASSUME NEW w \in Seq(Nat)
  PROVE  /\ Cumulative(w, 0) = 0
         /\ \A n \in 0 .. Len(w) : Cumulative(w, n) \in Nat
         /\ \A n \in 1 .. Len(w) :
              Cumulative(w, n) = Cumulative(w, n - 1) + w[n]
<1>1. ASSUME NEW n \in 0 .. Len(w)
      PROVE  \E s \in [0 .. n -> Nat] :
               Sums(w, n, s) /\ Cumulative(w, n) = s[n]
  <2> DEFINE c == CHOOSE s : Sums(w, n, s)
  <2>1. PICK s \in [0 .. n -> Nat] : Sums(w, n, s)
    BY SumsExist
  <2>2. Sums(w, n, c)
    BY <2>1, Zenon
  <2>3. Cumulative(w, n) = c[n]
    BY Zenon DEF Cumulative, Sums
  <2>4. n \in 0 .. n
    OBVIOUS
  <2> HIDE DEF c
  <2>5. c[n] = s[n]
    BY <2>1, <2>2, <2>4, SumsAgree
  <2> QED BY <2>1, <2>3, <2>5
<1>2. Cumulative(w, 0) = 0
  <2>1. PICK s : Sums(w, 0, s) /\ Cumulative(w, 0) = s[0]
    BY <1>1
  <2> QED BY <2>1 DEF Sums
<1>3. \A n \in 0 .. Len(w) : Cumulative(w, n) \in Nat
  BY <1>1
<1>4. ASSUME NEW n \in 1 .. Len(w)
      PROVE  Cumulative(w, n) = Cumulative(w, n - 1) + w[n]
  <2>1. n \in 0 .. Len(w) /\ n - 1 \in 0 .. Len(w) /\ n - 1 \in 0 .. n
    OBVIOUS
  <2>2. PICK s : Sums(w, n, s) /\ Cumulative(w, n) = s[n]
    BY <1>1, <2>1
  <2>3. PICK t : Sums(w, n - 1, t) /\ Cumulative(w, n - 1) = t[n - 1]
    BY <1>1, <2>1
  <2>4. s[n - 1] = t[n - 1]
    BY <2>1, <2>2, <2>3, SumsAgree
  <2>5. s[n] = s[n - 1] + w[n]
    BY <2>2 DEF Sums
  <2> QED BY <2>2, <2>3, <2>4, <2>5
<1> QED BY <1>2, <1>3, <1>4

(* Cumulative weights grow with the index.                                 *)
LEMMA CumulativeGrows ==
  ASSUME NEW w \in Seq(Nat), NEW n \in 0 .. Len(w), NEW k \in 0 .. n
  PROVE  Cumulative(w, k) <= Cumulative(w, n)
<1> DEFINE S == {i \in Nat : k <= i => Cumulative(w, k) <= Cumulative(w, i)}
<1>1. \A i \in 0 .. Len(w) : Cumulative(w, i) \in Nat
  BY CumulativeIsSum
<1>2. /\ n \in Nat /\ k \in Nat /\ k <= n /\ n <= Len(w)
      /\ \A i \in 0 .. n : i \in 0 .. Len(w)
  OBVIOUS
<1>3. 0 \in S
  <2>1. Cumulative(w, 0) \in Nat
    BY <1>1, <1>2
  <2>2. k <= 0 => k = 0
    BY <1>2
  <2> QED BY <2>1, <2>2
<1>4. ASSUME NEW i \in 0 .. n - 1, i \in S PROVE i + 1 \in S
  <2>1. /\ i \in Nat /\ i + 1 \in 1 .. Len(w) /\ (i + 1) - 1 = i
        /\ i \in 0 .. Len(w) /\ i + 1 \in 0 .. Len(w) /\ k \in 0 .. Len(w)
        /\ i + 1 \in Nat /\ w[i + 1] \in Nat
    BY <1>2
  <2>2. Cumulative(w, i + 1) = Cumulative(w, i) + w[i + 1]
    BY <2>1, CumulativeIsSum
  <2> DEFINE a == Cumulative(w, k)
             b == Cumulative(w, i)
             c == Cumulative(w, i + 1)
             x == w[i + 1]
  <2>3. a \in Nat /\ b \in Nat /\ c \in Nat /\ x \in Nat /\ c = b + x
    BY <1>1, <2>1, <2>2
  <2>4. k <= i => a <= b
    BY <1>4
  <2>5. k = i + 1 => a = c
    OBVIOUS
  <2> HIDE DEF a, b, c, x
  <2>6. k <= i + 1 => a <= c
    BY <1>2, <2>1, <2>3, <2>4, <2>5
  <2> QED BY <2>1, <2>6 DEF a, c
<1> HIDE DEF S
<1>5. \A i \in 0 .. n : i \in S
  BY <1>2, <1>3, <1>4, UpTo
<1>6. n \in S
  BY <1>2, <1>5
<1> QED BY <1>2, <1>6 DEF S

(* weighted_random_select, for any weights of which one is positive: the   *)
(* indices it can return, over all random points, are those with a         *)
(* positive weight.  An origin that weighs 0 (unhealthy, or taken out by   *)
(* its weight) is never chosen while another one weighs something, and     *)
(* each one that weighs something can be chosen.                           *)
THEOREM SelectsByWeight ==
  ASSUME NEW w \in Seq(Nat), \E j \in 1 .. Len(w) : w[j] > 0
  PROVE  Selectable(w) = {i \in 1 .. Len(w) : w[i] > 0}
<1> DEFINE n == Len(w)
           C(i) == Cumulative(w, i)
<1>1. /\ n \in Nat /\ C(0) = 0 /\ \A i \in 0 .. n : C(i) \in Nat
      /\ \A i \in 1 .. n : C(i) = C(i - 1) + w[i]
  BY CumulativeIsSum
<1>2. \A i \in 0 .. n : \A k \in 0 .. i : C(k) <= C(i)
  BY CumulativeGrows
<1>3. \A i \in 1 .. n : w[i] \in Nat /\ i \in 0 .. n /\ i - 1 \in 0 .. n
  OBVIOUS
<1>4. Selectable(w) =
        IF C(n) = 0 THEN 1 .. n
        ELSE {i \in 1 .. n : \E random \in 0 .. C(n) - 1 :
                /\ C(i) > random
                /\ \A j \in 1 .. i - 1 : C(j) <= random}
  BY DEF Selectable
<1> HIDE DEF n, C
<1>5. ASSUME NEW i \in 1 .. n, w[i] > 0 PROVE C(i - 1) < C(n)
  <2>1. C(i - 1) < C(i)
    BY <1>1, <1>3, <1>5
  <2>2. C(i) <= C(n)
    BY <1>1, <1>2
  <2> QED BY <1>1, <1>3, <2>1, <2>2
<1>6. C(n) # 0
  <2>1. PICK j \in 1 .. n : w[j] > 0
    BY DEF n
  <2>2. C(j - 1) < C(n) /\ C(j - 1) \in Nat
    BY <1>1, <1>3, <1>5, <2>1
  <2> QED BY <2>2
<1>7. ASSUME NEW i \in 1 .. n, NEW random \in 0 .. C(n) - 1, C(i) > random,
             \A j \in 1 .. i - 1 : C(j) <= random
      PROVE  w[i] > 0
  <2>1. C(i - 1) <= random
    <3>1. CASE i = 1
      BY <1>1, <3>1
    <3>2. CASE i # 1
      <4>1. i - 1 \in 1 .. i - 1
        BY <1>1, <3>2
      <4> QED BY <1>7, <4>1
    <3> QED BY <3>1, <3>2
  <2>2. random \in Int /\ C(i - 1) \in Nat /\ w[i] \in Nat
        /\ C(i) = C(i - 1) + w[i]
    BY <1>1, <1>3
  <2> QED BY <1>7, <2>1, <2>2
<1>8. ASSUME NEW i \in 1 .. n, w[i] > 0
      PROVE  \E random \in 0 .. C(n) - 1 :
               C(i) > random /\ \A j \in 1 .. i - 1 : C(j) <= random
  <2>1. C(i - 1) \in 0 .. C(n) - 1
    BY <1>1, <1>3, <1>5, <1>8
  <2>2. C(i) > C(i - 1)
    BY <1>1, <1>3, <1>8
  <2>3. ASSUME NEW j \in 1 .. i - 1 PROVE C(j) <= C(i - 1)
    BY <1>1, <1>2, <1>3
  <2> QED BY <2>1, <2>2, <2>3
<1> QED BY <1>4, <1>6, <1>7, <1>8 DEF n

(* Whatever the weights, it returns an index of theirs.                    *)
LEMMA SelectsInRange ==
  ASSUME NEW w \in Seq(Nat)
  PROVE  Selectable(w) \subseteq 1 .. Len(w)
BY DEF Selectable

-----------------------------------------------------------------------------
(* There are candidates, and a scan looks at one of them in each step.     *)
LEMMA CandidatesExist ==
  /\ N \in Nat /\ N > 0
  /\ \A i \in 1 .. N : Candidates[i] \in Origins
  /\ \A start, i \in Nat : Position(start, i) + 1 \in 1 .. N
<1>1. N \in Nat /\ N > 0 /\ \A i \in 1 .. N : Candidates[i] \in Origins
  BY BalancerAssumption DEF N
<1>2. ASSUME NEW start \in Nat, NEW i \in Nat
      PROVE  Position(start, i) + 1 \in 1 .. N
  <2>1. start + i \in Nat /\ (start + i) % N \in 0 .. N - 1
    BY <1>1
  <2> QED BY <1>1, <2>1 DEF Position
<1> QED BY <1>1, <1>2

(* A full turn comes by every candidate, wherever it starts.               *)
LEMMA TurnIsFull ==
  ASSUME NEW start \in 0 .. N - 1, NEW c \in 1 .. N
  PROVE  \E i \in 0 .. N - 1 : Position(start, i) + 1 = c
<1>1. N \in Nat /\ N > 0
  BY CandidatesExist
<1>2. CASE c - 1 >= start
  <2>1. /\ (c - 1) - start \in 0 .. N - 1
        /\ start + ((c - 1) - start) = c - 1 /\ c - 1 \in 0 .. N - 1
    BY <1>1, <1>2
  <2>2. (c - 1) % N = c - 1
    BY <1>1, <2>1
  <2> QED BY <2>1, <2>2 DEF Position
<1>3. CASE c - 1 < start
  <2>1. /\ (c - 1) - start + N \in 0 .. N - 1
        /\ start + ((c - 1) - start + N) = (c - 1) + N /\ c - 1 \in 0 .. N - 1
    BY <1>1, <1>3
  <2>2. ((c - 1) + N) % N = c - 1
    BY <1>1, <2>1
  <2> QED BY <2>1, <2>2 DEF Position
<1> QED BY <1>1, <1>2, <1>3

(* A latency weighs something, and a larger one weighs less.               *)
LEMMA WeightOfLatency ==
  ASSUME NEW l \in Latencies
  PROVE  /\ Scale \div (l + 1) \in Nat /\ Scale \div (l + 1) > 0
         /\ Scale = (Scale \div (l + 1)) * (l + 1)
<1>1. /\ l \in Nat /\ Scale \in Nat /\ Scale > 0 /\ l + 1 <= Scale
      /\ Scale % (l + 1) = 0
  BY BalancerAssumption
<1> DEFINE d == l + 1
           q == Scale \div d
<1>2. d \in Nat /\ d > 0
  BY <1>1
<1>3. Scale % d = 0
  BY <1>1
<1> HIDE DEF d
<1>4. q \in Int /\ Scale = d * q + (Scale % d)
  BY <1>1, <1>2
<1>5. Scale = q * d
  BY <1>1, <1>2, <1>3, <1>4
<1> HIDE DEF q
<1>6. q > 0
  BY <1>1, <1>2, <1>4, <1>5
<1> QED BY <1>4, <1>5, <1>6 DEF d, q

(* Weights are natural numbers, and 0 only for origins that are down or    *)
(* taken out.                                                              *)
LEMMA WeightIsNat ==
  ASSUME TypeOK, NEW o \in Origins
  PROVE  /\ BaseWeight(o) \in Nat /\ BaseWeight(o) > 0
         /\ Weight(o) \in Nat
         /\ Weight(o) = 0
              <=> (o \in states /\ ~healthy[o]) \/ UserWeight[o] = 0
<1>1. BaseWeight(o) \in Nat /\ BaseWeight(o) > 0
  <2>1. ewma_latency_ns[o] \in Latencies /\ Scale \in Nat /\ Scale > 0
    BY BalancerAssumption DEF TypeOK
  <2> QED BY <2>1, WeightOfLatency DEF BaseWeight
<1> DEFINE p == BaseWeight(o)
           u == UserWeight[o]
<1>2. p \in Nat /\ p > 0 /\ u \in Nat
  BY <1>1, BalancerAssumption
<1>3. Weight(o) = IF o \in states /\ ~healthy[o] THEN 0 ELSE p * u
  BY DEF Weight
<1> HIDE DEF p, u
<1>4. p * u \in Nat /\ (p * u = 0 <=> u = 0)
  BY <1>2
<1> QED BY <1>1, <1>3, <1>4 DEF u

(* The length of the lists goes with the steps of the scan, which ends     *)
(* after the last candidate.                                               *)
Shape ==
  /\ Len(latencies) = Len(weights)
  /\ pc = "idle" => step = 0
  /\ pc # "idle" => result = Pending
  /\ algorithm = "round_robin" => pc # "pick" /\ weights = << >>
  /\ algorithm # "round_robin" =>
       /\ Len(weights) = step
       /\ pc = "scan" => step < N
       /\ pc = "pick" => step = N

(* One step keeps types and shape.                                         *)
LEMMA ShapeStep ==
  ASSUME TypeOK, Shape, [Next]_vars
  PROVE  TypeOK' /\ Shape'
<1> USE DEF TypeOK, Shape, None, Pending
<1>a. /\ U64 \in Nat /\ U64 > 0 /\ N \in Nat /\ N > 0
      /\ counter \in Nat /\ start_idx \in Nat /\ step \in Nat
  BY BalancerAssumption, CandidatesExist
<1>b. Turn(counter) \in 0 .. U64 - 1
  <2>1. (counter + 1) % U64 \in 0 .. U64 - 1
    BY ONLY <1>a
  <2> QED BY <2>1 DEF Turn
<1>1. ASSUME NEW o \in Origins, flip_health(o) PROVE TypeOK' /\ Shape'
  BY <1>1 DEF flip_health, Witness, locals
<1>2. ASSUME NEW o \in Origins, record_latency(o) PROVE TypeOK' /\ Shape'
  BY <1>2 DEF record_latency, locals
<1>3. ASSUME NEW o \in Origins, add_state(o) PROVE TypeOK' /\ Shape'
  BY <1>3 DEF add_state, Witness, locals
<1>4. CASE other_call
  BY <1>b, <1>4 DEF other_call, environment, locals
<1>5. CASE begin
  <2>1. counter % N \in 0 .. N - 1
    BY ONLY <1>a
  <2>2. Down \subseteq Origins
    BY DEF Down, Up
  <2>3. /\ pc = "idle" /\ pc' = "scan" /\ result' = -1
        /\ wasUp' = Origins \ Down /\ wasDown' = Down
        /\ UNCHANGED << environment, step, weights, latencies >>
        /\ start_idx' \in 0 .. N - 1 /\ counter' \in 0 .. U64 - 1
    BY <1>b, <1>5, <2>1 DEF begin
  <2> HIDE DEF Down
  <2> QED BY <1>a, <2>2, <2>3 DEF environment
<1>6. CASE round_robin_scan
  <2> DEFINE idx == Position(start_idx, step) + 1
  <2>1. idx \in 1 .. N
    BY <1>a, CandidatesExist
  <2>2. /\ algorithm = "round_robin" /\ pc = "scan"
        /\ UNCHANGED << environment, counter, wasUp, wasDown >>
        /\ \/ Return(idx) \/ Return(0)
           \/ /\ step < N /\ step' = step + 1
              /\ UNCHANGED << pc, start_idx, weights, latencies, result >>
    BY <1>6 DEF round_robin_scan
  <2> HIDE DEF idx
  <2>3. ASSUME NEW x \in 0 .. N, Return(x) PROVE TypeOK' /\ Shape'
    BY <1>a, <2>2, <2>3 DEF Return, environment
  <2>4. ASSUME step < N, step' = step + 1,
               UNCHANGED << pc, start_idx, weights, latencies, result >>
        PROVE  TypeOK' /\ Shape'
    BY <1>a, <2>2, <2>4 DEF environment
  <2>5. idx \in 0 .. N /\ 0 \in 0 .. N
    BY <1>a, <2>1
  <2> QED BY <2>2, <2>3, <2>4, <2>5, Zenon
<1>7. CASE push_weight
  <2>1. step < N /\ step + 1 \in 1 .. N
    BY <1>a, <1>7 DEF push_weight
  <2> DEFINE o == Candidates[step + 1]
             x == Weight(o)
             l == ewma_latency_ns[o]
  <2>2. o \in Origins /\ x \in Nat /\ l \in Latencies
    BY <2>1, CandidatesExist, WeightIsNat
  <2>3. /\ weights' = Append(weights, x) /\ latencies' = Append(latencies, l)
        /\ step' = step + 1 /\ pc' = IF step + 1 = N THEN "pick" ELSE "scan"
        /\ UNCHANGED << environment, counter, start_idx, wasUp, wasDown,
                        result >>
        /\ algorithm # "round_robin" /\ pc = "scan"
    BY <1>7 DEF push_weight
  <2> HIDE DEF o, x, l
  <2>4. /\ weights' \in Seq(Nat) /\ Len(weights') = Len(weights) + 1
        /\ latencies' \in Seq(Latencies)
        /\ Len(latencies') = Len(latencies) + 1
    BY <2>2, <2>3
  <2> QED BY <1>a, <2>1, <2>3, <2>4 DEF environment
<1>8. CASE weighted_pick
  <2>1. PICK i \in 1 .. N : Return(IF weights[i] > 0 THEN i ELSE None)
    BY <1>8, SelectsInRange DEF weighted_pick
  <2>2. UNCHANGED << environment, counter, wasUp, wasDown >>
    BY <1>8 DEF weighted_pick
  <2> QED BY <1>a, <2>1, <2>2 DEF Return, environment
<1>9. CASE UNCHANGED vars
  BY <1>9 DEF vars, environment, locals
<1> QED
  BY <1>1, <1>2, <1>3, <1>4, <1>5, <1>6, <1>7, <1>8, <1>9 DEF Next

(* Every reachable state is well typed: whatever changes under a call, the *)
(* wrapping counter included, its indices stay within the candidates.      *)
THEOREM BalancerTypeCorrect == Spec => []TypeOK
<1>1. Init => TypeOK /\ Shape
  <2>1. N \in Nat /\ N > 0 /\ U64 \in Nat /\ U64 > 0
    BY CandidatesExist, BalancerAssumption
  <2> QED BY <2>1 DEF Init, TypeOK, Shape, None, Pending
<1> QED BY <1>1, ShapeStep, PTL DEF Spec

(* What is so at this moment of a call has been noted.                     *)
Witnessed ==
  /\ \A o \in Origins \ states : healthy[o] /\ ewma_latency_ns[o] = 0
  /\ pc # "idle" => Down \subseteq wasDown /\ Origins \ Down \subseteq wasUp

(* Round robin has passed over origins that were down when it looked.      *)
Passed ==
  algorithm = "round_robin" /\ pc = "scan" =>
    \A i \in 0 .. step - 1 :
      Candidates[Position(start_idx, i) + 1] \in wasDown

(* A weight says whether the origin was up when it was computed.           *)
Weighed ==
  \A i \in 1 .. Len(weights) :
    /\ weights[i] > 0 => Candidates[i] \in wasUp
    /\ weights[i] = 0 =>
         Candidates[i] \in wasDown \/ UserWeight[Candidates[i]] = 0

JustifiedInv ==
  Witnessed /\ Passed /\ Weighed /\ PickIsJustified /\ NoneIsJustified

(* While the environment moves, a call keeps what it knows: of an origin   *)
(* it notes that it went up or down, and forgets nothing.                  *)
LEMMA KnowledgeGrows ==
  ASSUME TypeOK, Shape, JustifiedInv, wasUp \subseteq wasUp',
         wasDown \subseteq wasDown', Witnessed',
         UNCHANGED << algorithm, pc, locals, result >>
  PROVE  JustifiedInv'
<1>1. Passed'
  BY DEF JustifiedInv, Passed, locals
<1>2. Weighed'
  BY DEF JustifiedInv, Weighed, locals
<1>3. PickIsJustified'
  BY DEF JustifiedInv, PickIsJustified
<1>4. NoneIsJustified'
  BY DEF JustifiedInv, NoneIsJustified
<1> QED BY <1>1, <1>2, <1>3, <1>4 DEF JustifiedInv

(* What happens around the call.                                           *)
LEMMA EnvironmentJustified ==
  ASSUME TypeOK, Shape, JustifiedInv, NEW o \in Origins,
         flip_health(o) \/ record_latency(o) \/ add_state(o) \/ other_call
  PROVE  JustifiedInv'
<1> USE DEF TypeOK, Witnessed, Down, Up
<1>1. CASE flip_health(o)
  <2>1. Witnessed' /\ wasUp \subseteq wasUp' /\ wasDown \subseteq wasDown'
    BY <1>1 DEF flip_health, Witness, JustifiedInv
  <2> QED BY <1>1, <2>1, KnowledgeGrows DEF flip_health
<1>2. CASE record_latency(o)
  <2>1. Witnessed' /\ wasUp' = wasUp /\ wasDown' = wasDown
    BY <1>2 DEF record_latency, JustifiedInv
  <2> QED BY <1>2, <2>1, KnowledgeGrows DEF record_latency
<1>3. CASE add_state(o)
  <2>1. Witnessed' /\ wasUp \subseteq wasUp' /\ wasDown \subseteq wasDown'
    BY <1>3 DEF add_state, Witness, JustifiedInv
  <2> QED BY <1>3, <2>1, KnowledgeGrows DEF add_state
<1>4. CASE other_call
  <2>1. Witnessed' /\ wasUp' = wasUp /\ wasDown' = wasDown
    BY <1>4 DEF other_call, environment, JustifiedInv
  <2> QED BY <1>4, <2>1, KnowledgeGrows DEF other_call, environment
<1> QED BY <1>1, <1>2, <1>3, <1>4

(* The first candidates of a call are still to come.                       *)
LEMMA BeginJustified ==
  ASSUME TypeOK, Shape, JustifiedInv, begin
  PROVE  JustifiedInv'
<1>1. /\ pc = "idle" /\ pc' = "scan" /\ result' = Pending /\ step' = 0
      /\ wasUp' = Origins \ Down /\ wasDown' = Down /\ Down' = Down
      /\ UNCHANGED << environment, weights >>
  BY DEF begin, Shape, environment, Down, Up
<1>2. weights' = << >>
  <2>1. weights \in Seq(Nat) /\ (weights = << >> \/ Len(weights) = 0)
    BY <1>1 DEF Shape, TypeOK
  <2> QED BY <1>1, <2>1
<1>3. Witnessed'
  BY <1>1 DEF Witnessed, JustifiedInv, environment
<1> QED
  BY <1>1, <1>2, <1>3 DEF JustifiedInv, Passed, Weighed, PickIsJustified,
                          NoneIsJustified, Pending, None

(* Round robin looks at a candidate, and passes it over or returns it.     *)
LEMMA ScanJustified ==
  ASSUME TypeOK, Shape, JustifiedInv, round_robin_scan
  PROVE  JustifiedInv'
<1> DEFINE idx == Position(start_idx, step) + 1
           o == Candidates[idx]
<1>1. /\ N \in Nat /\ N > 0 /\ start_idx \in Nat /\ step \in Nat
      /\ idx \in 1 .. N /\ o \in Origins
  <2>1. N \in Nat /\ N > 0 /\ start_idx \in Nat /\ step \in Nat
    BY CandidatesExist DEF TypeOK
  <2>2. idx \in 1 .. N
    BY <2>1, CandidatesExist
  <2>3. o \in Origins
    BY <2>2, CandidatesExist
  <2> QED BY <2>1, <2>2, <2>3
<1>2. /\ algorithm = "round_robin" /\ pc = "scan" /\ weights = << >>
      /\ UNCHANGED << environment, counter, wasUp, wasDown >>
      /\ \/ step < N /\ ~Skips(o) /\ Return(idx)
         \/ /\ step < N /\ Skips(o) /\ step' = step + 1
            /\ UNCHANGED << pc, start_idx, weights, latencies, result >>
         \/ step = N /\ Return(None)
  BY DEF round_robin_scan, Shape
<1>3. /\ Origins \ Up \subseteq wasDown /\ Up \subseteq wasUp
  BY <1>2 DEF JustifiedInv, Witnessed, Down, Up, TypeOK
<1>4. \A i \in 0 .. step - 1 :
        Candidates[Position(start_idx, i) + 1] \in wasDown
  BY <1>2 DEF JustifiedInv, Passed
<1>5. CASE step < N /\ ~Skips(o) /\ Return(idx)
  <2>1. o \in wasUp
    BY <1>3, <1>5 DEF Skips
  <2>2. /\ pc' = "idle" /\ result' = idx /\ weights' = << >>
        /\ wasUp' = wasUp
    BY <1>2, <1>5 DEF Return
  <2>3. Witnessed'
    BY <1>2, <2>2 DEF JustifiedInv, Witnessed, environment
  <2> QED
    BY <1>1, <2>1, <2>2, <2>3 DEF JustifiedInv, Passed, Weighed,
       PickIsJustified, NoneIsJustified, None
<1>6. CASE /\ step < N /\ Skips(o) /\ step' = step + 1
           /\ UNCHANGED << pc, start_idx, weights, latencies, result >>
  <2>1. o \in wasDown
    BY <1>1, <1>3, <1>6 DEF Skips
  <2>2. Witnessed'
    BY <1>2, <1>6 DEF JustifiedInv, Witnessed, environment, Down, Up
  <2>3. Passed'
    <3>1. ASSUME NEW i \in 0 .. step' - 1
          PROVE  Candidates[Position(start_idx, i) + 1] \in wasDown
      <4>1. i = step \/ i \in 0 .. step - 1
        BY <1>1, <1>6
      <4> QED BY <1>4, <2>1, <4>1
    <3> QED BY <1>2, <1>6, <3>1 DEF Passed, Position
  <2> QED
    BY <1>2, <1>6, <2>2, <2>3 DEF JustifiedInv, Weighed, PickIsJustified,
       NoneIsJustified, environment
<1>7. CASE step = N /\ Return(None)
  <2>1. ASSUME NEW c \in 1 .. N PROVE Candidates[c] \in wasDown
    <3>1. PICK i \in 0 .. N - 1 : Position(start_idx, i) + 1 = c
      BY TurnIsFull DEF TypeOK
    <3> QED BY <1>4, <1>7, <3>1
  <2>2. /\ pc' = "idle" /\ result' = None /\ weights' = << >>
        /\ wasDown' = wasDown
    BY <1>2, <1>7 DEF Return
  <2>3. Witnessed'
    BY <1>2, <2>2 DEF JustifiedInv, Witnessed, environment
  <2> QED
    BY <2>1, <2>2, <2>3 DEF JustifiedInv, Passed, Weighed, PickIsJustified,
       NoneIsJustified, None
<1> QED BY <1>2, <1>5, <1>6, <1>7

(* A weight of the weighted balancers is computed.                         *)
LEMMA PushJustified ==
  ASSUME TypeOK, Shape, JustifiedInv, push_weight
  PROVE  JustifiedInv'
<1> DEFINE o == Candidates[step + 1]
           x == Weight(o)
<1>1. /\ algorithm # "round_robin" /\ pc = "scan" /\ Len(weights) = step
      /\ step \in Nat /\ step < N /\ pc' # "idle"
      /\ weights \in Seq(Nat) /\ weights' = Append(weights, x)
      /\ UNCHANGED << environment, wasUp, wasDown, result >>
  BY CandidatesExist DEF push_weight, Shape, TypeOK
<1>2. o \in Origins
  BY <1>1, CandidatesExist
<1>3. /\ x \in Nat
      /\ x = 0 <=> (o \in states /\ ~healthy[o]) \/ UserWeight[o] = 0
  BY <1>2, WeightIsNat
<1>4. states \ Up \subseteq wasDown /\ Origins \ (states \ Up) \subseteq wasUp
  BY <1>1 DEF JustifiedInv, Witnessed, Down
<1>5. /\ x > 0 => o \in wasUp
      /\ x = 0 => o \in wasDown \/ UserWeight[o] = 0
  BY <1>2, <1>3, <1>4 DEF Up
<1> HIDE DEF o, x
<1>6. Witnessed'
  BY <1>1 DEF JustifiedInv, Witnessed, environment, Down, Up
<1>7. Weighed'
  <2>1. /\ Len(weights') = step + 1 /\ weights'[step + 1] = x
        /\ \A i \in 1 .. step : weights'[i] = weights[i]
    BY <1>1, <1>3
  <2>2. ASSUME NEW i \in 1 .. step + 1
        PROVE  /\ weights'[i] > 0 => Candidates[i] \in wasUp
               /\ weights'[i] = 0 =>
                    Candidates[i] \in wasDown \/ UserWeight[Candidates[i]] = 0
    <3>1. CASE i = step + 1
      BY <1>5, <2>1, <3>1 DEF o
    <3>2. CASE i \in 1 .. step
      BY <1>1, <2>1, <3>2 DEF JustifiedInv, Weighed
    <3> QED BY <1>1, <3>1, <3>2
  <2> QED BY <1>1, <2>1, <2>2 DEF Weighed
<1> QED
  BY <1>1, <1>6, <1>7 DEF JustifiedInv, Passed, PickIsJustified,
     NoneIsJustified, environment

(* A weighted balancer returns a candidate, or none: then all weigh 0.     *)
LEMMA WeightedJustified ==
  ASSUME TypeOK, Shape, JustifiedInv, weighted_pick
  PROVE  JustifiedInv'
<1>1. /\ algorithm # "round_robin" /\ Len(weights) = N /\ N \in Nat
      /\ weights \in Seq(Nat) /\ \A j \in 1 .. N : weights[j] \in Nat
      /\ UNCHANGED << environment, wasUp, wasDown >>
  <2>1. algorithm # "round_robin" /\ Len(weights) = N /\ weights \in Seq(Nat)
    BY DEF weighted_pick, Shape, TypeOK
  <2>2. N \in Nat /\ \A j \in 1 .. N : weights[j] \in Nat
    BY <2>1
  <2> QED BY <2>1, <2>2 DEF weighted_pick
<1>2. PICK i \in Selectable(weights) :
        Return(IF weights[i] > 0 THEN i ELSE None)
  BY DEF weighted_pick
<1>3. i \in 1 .. N
  BY <1>1, <1>2, SelectsInRange
<1>4. /\ pc' = "idle" /\ weights' = << >>
      /\ result' = IF weights[i] > 0 THEN i ELSE None
  BY <1>2 DEF Return
<1>5. Witnessed' /\ Weighed' /\ Passed'
  BY <1>1, <1>4 DEF JustifiedInv, Witnessed, environment, Weighed, Passed
<1>6. CASE weights[i] > 0
  <2>1. Candidates[i] \in wasUp
    BY <1>1, <1>3, <1>6 DEF JustifiedInv, Weighed
  <2> QED
    BY <1>1, <1>3, <1>4, <1>5, <1>6, <2>1
    DEF JustifiedInv, PickIsJustified, NoneIsJustified, None
<1>7. CASE ~(weights[i] > 0)
  <2>1. \A j \in 1 .. N : weights[j] = 0
    <3>1. CASE \E j \in 1 .. N : weights[j] > 0
      BY <1>1, <1>2, <1>7, <3>1, SelectsByWeight
    <3> QED BY <1>1, <3>1
  <2>2. \A j \in 1 .. N :
          Candidates[j] \in wasDown \/ UserWeight[Candidates[j]] = 0
    BY <1>1, <2>1 DEF JustifiedInv, Weighed
  <2> QED
    BY <1>1, <1>4, <1>5, <1>7, <2>2
    DEF JustifiedInv, PickIsJustified, NoneIsJustified, None, environment
<1> QED BY <1>6, <1>7

(* The invariants above hold together.                                     *)
LEMMA JustifiedInvariant == Spec => [](TypeOK /\ Shape /\ JustifiedInv)
<1>1. Init => TypeOK /\ Shape /\ JustifiedInv
  <2>1. N \in Nat /\ N > 0 /\ U64 \in Nat /\ U64 > 0
    BY CandidatesExist, BalancerAssumption
  <2> QED
    BY <2>1 DEF Init, TypeOK, Shape, None, Pending, JustifiedInv, Witnessed,
       Passed, Weighed, PickIsJustified, NoneIsJustified
<1>2. TypeOK /\ Shape /\ JustifiedInv /\ [Next]_vars
        => (TypeOK /\ Shape /\ JustifiedInv)'
  <2> SUFFICES ASSUME TypeOK, Shape, JustifiedInv, [Next]_vars
               PROVE  (TypeOK /\ Shape /\ JustifiedInv)'
    OBVIOUS
  <2>1. TypeOK' /\ Shape'
    BY ShapeStep
  <2>2. CASE UNCHANGED vars
    <3>1. Witnessed'
      BY <2>2 DEF vars, environment, JustifiedInv, Witnessed, Down, Up
    <3> QED BY <2>1, <2>2, <3>1, KnowledgeGrows DEF vars, environment
  <2>3. CASE other_call
    <3>1. Candidates[1] \in Origins
      BY CandidatesExist
    <3> QED BY <2>1, <2>3, <3>1, EnvironmentJustified
  <2> QED
    BY <2>1, <2>2, <2>3, EnvironmentJustified, BeginJustified, ScanJustified,
       PushJustified, WeightedJustified DEF Next
<1> QED BY <1>1, <1>2, PTL DEF Spec

(* The origin that select_origin returns was usable at some moment of the  *)
(* call, for any candidates and whatever flags change meanwhile.           *)
THEOREM PicksAreJustified == Spec => []PickIsJustified
<1>1. JustifiedInv => PickIsJustified
  BY DEF JustifiedInv
<1> QED BY <1>1, JustifiedInvariant, PTL

(* select_origin gives up only when every candidate was unusable at some   *)
(* moment of the call or weighs 0, for any number of candidates: the scan  *)
(* of round robin is a full turn from wherever the counter stands, and the *)
(* weighted choice falls on weight 0 only when all of them are 0.          *)
THEOREM GivingUpIsJustified == Spec => []NoneIsJustified
<1>1. JustifiedInv => NoneIsJustified
  BY DEF JustifiedInv
<1> QED BY <1>1, JustifiedInvariant, PTL

(* Each positive weight of weighted_latency is that of the latency read.   *)
Priced ==
  algorithm = "weighted_latency" =>
    \A i \in 1 .. Len(weights) :
      weights[i] > 0 =>
        weights[i] =
          (Scale \div (latencies[i] + 1)) * UserWeight[Candidates[i]]

(* Within a call of weighted_latency, of two candidates with the same user *)
(* weight the one with the lower latency weighs more, for any latencies    *)
(* and weights: base_weight is strictly decreasing.                        *)
THEOREM FasterIsPreferred == Spec => []FasterWeighsMore
<1>1. Init => Priced
  BY DEF Init, Priced
<1>2. TypeOK /\ Shape /\ JustifiedInv /\ Priced /\ [Next]_vars => Priced'
  <2> SUFFICES ASSUME TypeOK, Shape, JustifiedInv, Priced, [Next]_vars
               PROVE  Priced'
    OBVIOUS
  <2>1. CASE push_weight
    <3> DEFINE o == Candidates[step + 1]
               x == Weight(o)
               l == ewma_latency_ns[o]
    <3>1. /\ Len(weights) = step /\ Len(latencies) = step
          /\ step \in Nat /\ step < N
          /\ weights \in Seq(Nat) /\ weights' = Append(weights, x)
          /\ latencies \in Seq(Latencies)
          /\ latencies' = Append(latencies, l)
          /\ algorithm' = algorithm
      BY <2>1, CandidatesExist DEF push_weight, Shape, TypeOK, environment
    <3>2. o \in Origins
      BY <3>1, CandidatesExist
    <3>3. algorithm = "weighted_latency" /\ x > 0
            => x = (Scale \div (l + 1)) * UserWeight[o]
      <4>1. o \notin states => l = 0
        BY <3>2 DEF JustifiedInv, Witnessed
      <4>2. Scale \div (0 + 1) = Scale
        BY BalancerAssumption
      <4> QED BY <4>1, <4>2 DEF Weight, BaseWeight
    <3>4. x \in Nat /\ l \in Latencies
      BY <3>2, WeightIsNat DEF TypeOK
    <3>5. /\ Len(weights') = step + 1
          /\ weights'[step + 1] = x /\ latencies'[step + 1] = l
          /\ \A i \in 1 .. step :
               weights'[i] = weights[i] /\ latencies'[i] = latencies[i]
      <4> HIDE DEF x, l
      <4> QED BY <3>1, <3>4
    <3>6. ASSUME NEW i \in 1 .. step + 1, algorithm = "weighted_latency",
                 weights'[i] > 0
          PROVE  weights'[i] = (Scale \div (latencies'[i] + 1))
                                 * UserWeight[Candidates[i]]
      <4>1. CASE i = step + 1
        BY <3>3, <3>5, <3>6, <4>1
      <4>2. CASE i \in 1 .. step
        BY <3>1, <3>5, <3>6, <4>2 DEF Priced
      <4> QED BY <3>1, <4>1, <4>2
    <3> QED BY <3>1, <3>5, <3>6 DEF Priced
  <2>2. CASE weighted_pick
    <3>1. weights' = << >>
      BY <2>2 DEF weighted_pick, Return
    <3> QED BY <3>1 DEF Priced
  <2>3. CASE round_robin_scan
    <3>1. algorithm' # "weighted_latency"
      BY <2>3 DEF round_robin_scan, environment
    <3> QED BY <3>1 DEF Priced
  <2>4. CASE UNCHANGED << algorithm, weights, latencies >>
    BY <2>4 DEF Priced
  <2> QED
    BY <2>1, <2>2, <2>3, <2>4 DEF Next, vars, environment, locals,
       flip_health, record_latency, add_state, other_call, begin
<1>3. TypeOK /\ Shape /\ Priced => FasterWeighsMore
  <2> SUFFICES ASSUME TypeOK, Shape, Priced, algorithm = "weighted_latency",
                      NEW i \in 1 .. Len(weights), NEW j \in 1 .. Len(weights),
                      weights[i] > 0, weights[j] > 0,
                      UserWeight[Candidates[i]] = UserWeight[Candidates[j]],
                      latencies[i] < latencies[j]
               PROVE  weights[i] > weights[j]
    BY DEF FasterWeighsMore
  <2> DEFINE u == UserWeight[Candidates[i]]
             k == latencies[i]
             l == latencies[j]
             a == Scale \div (k + 1)
             b == Scale \div (l + 1)
  <2>1. weights[i] = a * u /\ weights[j] = b * u /\ k < l
    BY DEF Priced
  <2>2. k \in Latencies /\ l \in Latencies
    BY DEF TypeOK, Shape
  <2>3. i \in 1 .. N
    BY CandidatesExist DEF TypeOK, Shape
  <2>4. u \in Nat
    BY <2>3, CandidatesExist, BalancerAssumption
  <2>5. /\ a \in Nat /\ a > 0 /\ Scale = a * (k + 1)
        /\ b \in Nat /\ b > 0 /\ Scale = b * (l + 1)
    BY <2>2, WeightOfLatency
  <2>6. k \in Nat /\ l \in Nat
    BY <2>2, BalancerAssumption
  <2>7. a * u > 0
    BY <2>1
  <2> HIDE DEF u, k, l, a, b
  <2>8. a > b
    <3>1. CASE a <= b
      <4>1. a * (k + 1) <= b * (k + 1)
        BY <2>5, <2>6, <3>1
      <4>2. b * (k + 1) < b * (l + 1)
        BY <2>1, <2>5, <2>6
      <4>3. a * (k + 1) \in Int /\ b * (k + 1) \in Int /\ b * (l + 1) \in Int
        BY <2>5, <2>6
      <4> QED BY <2>5, <4>1, <4>2, <4>3
    <3> QED BY <2>5, <3>1
  <2>9. u > 0
    BY <2>4, <2>5, <2>7
  <2>10. a * u > b * u
    BY <2>4, <2>5, <2>8, <2>9
  <2> QED BY <2>1, <2>10
<1> QED BY <1>1, <1>2, <1>3, JustifiedInvariant, PTL DEF Spec

=============================================================================
