---------------------------- MODULE TokenBucket ----------------------------
(***************************************************************************)
(* What the rate limiter promises each client: a token bucket that exists  *)
(* for ever, starts full, gains Rate units of a token per tick of the      *)
(* clock up to its burst, and admits a request exactly when it holds a     *)
(* whole token. A reload of the config fills all buckets. RateLimiter      *)
(* keeps nothing of the sort for an idle client; it is shown to implement  *)
(* this specification.                                                     *)
(***************************************************************************)
EXTENDS Integers

CONSTANTS
  Ips,    \* client addresses
  Unit,   \* units in one token: ticks in one second
  Rate,   \* units gained per tick: `rate` tokens per second
  Cap     \* units in a full bucket: burst * Unit

VARIABLES
  level,   \* units each client has at its disposal
  reply,   \* answers given at this instant: <<ip, verdict>>
  reloads  \* how often the buckets were replaced by full ones

Refilled(units, ticks) ==
  IF units + Rate * ticks <= Cap THEN units + Rate * ticks ELSE Cap

Init ==
  /\ level = [ip \in Ips |-> Cap]
  /\ reply = {}
  /\ reloads = 0

Tick ==
  /\ level' = [ip \in Ips |-> Refilled(level[ip], 1)]
  /\ reply' = {}
  /\ reloads' = reloads

Check(ip) ==
  /\ \/ /\ level[ip] >= Unit
        /\ level' = [level EXCEPT ![ip] = @ - Unit]
        /\ reply' = reply \cup {<<ip, "allowed">>}
     \/ /\ level[ip] < Unit
        /\ level' = level
        /\ reply' = reply \cup {<<ip, "limited">>}
  /\ reloads' = reloads

Reload ==
  /\ level' = [ip \in Ips |-> Cap]
  /\ reply' = reply
  /\ reloads' = reloads + 1

Next == Tick \/ Reload \/ \E ip \in Ips : Check(ip)

Spec == Init /\ [][Next]_<< level, reply, reloads >>
=============================================================================
