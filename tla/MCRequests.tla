----------------------------- MODULE MCRequests -----------------------------
(***************************************************************************)
(* Model-checking instance of Requests.  Handlers only read, so one of     *)
(* them meets every order of its reads and the writes.  The first config   *)
(* limits k1, the second routes it without a limit and adds k2 with one.   *)
(* k1 is balanced by weight, then round robin, and k2 by weight.           *)
(* The service moves between two pools, of which the second config has but *)
(* one, and disappears.  Each url is static in one config and discovered   *)
(* under the other.                                                        *)
(***************************************************************************)
EXTENDS Requests, TLC

CONSTANTS c1, c2, p1, p2, u1, u2, k1, k2, s1, h1

MCStaticOrigins == (c1 :> {u1}) @@ (c2 :> {u2})
MCPoolNames == (c1 :> {p1, p2}) @@ (c2 :> {p1})
MCRouteKeys == (c1 :> {k1}) @@ (c2 :> {k1, k2})
MCLimitedKeys == (c1 :> {k1}) @@ (c2 :> {k2})
MCWeightedKeys == (c1 :> {k1}) @@ (c2 :> {k2})
MCMappings == s1 :> {<<p1, u2>>, <<p2, u1>>}
=============================================================================
