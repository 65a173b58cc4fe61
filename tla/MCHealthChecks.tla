--------------------------- MODULE MCHealthChecks ---------------------------
(***************************************************************************)
(* Model-checking instances of HealthChecks.  An origin whose url has a    *)
(* path, one given by host and port alone (Url renders it with a slash),   *)
(* and one that only a reload brings in.                                   *)
(***************************************************************************)
EXTENDS HealthChecks

a == [host |-> "a", slashes |-> 0]
b == [host |-> "b", slashes |-> 1]
c == [host |-> "c", slashes |-> 0]

MCUrls == {a, b, c}

Target(u) == [url |-> u, path_ok |-> TRUE]

\* A path and a root url, both in the config from the start.
Mixed ==
  [targets |-> << Target(a), Target(b) >>, routes |-> {<< a, b >>},
   active |-> TRUE, interval_ok |-> TRUE, passive |-> TRUE,
   modes |-> {"up", "erring", "hanging"}]
\* A reload replaces the one origin by another and back.
Replaced == [targets |-> << Target(a) >>, routes |-> {<< a >>, << c >>},
             active |-> TRUE, interval_ok |-> TRUE, passive |-> FALSE,
             modes |-> {"up", "picky", "erring"}]
\* A checker that dies of its interval or of a health path.
Dying(interval_ok) ==
  [targets |-> << [url |-> a, path_ok |-> FALSE] >>, routes |-> {<< a >>},
   active |-> TRUE, interval_ok |-> interval_ok, passive |-> TRUE,
   modes |-> {"up", "erring"}]
\* No probes.
Unprobed(passive) ==
  [targets |-> << Target(a) >>, routes |-> {<< a >>},
   active |-> FALSE, interval_ok |-> TRUE, passive |-> passive,
   modes |-> {"up", "erring"}]

MCSetups == {Mixed, Replaced, Dying(TRUE), Dying(FALSE),
             Unprobed(TRUE), Unprobed(FALSE)}
RootSetups == {Mixed}
=============================================================================
