--------------------------- MODULE MCControlPlane ---------------------------
(***************************************************************************)
(* Model-checking instances of ControlPlane: two configs, whose origins    *)
(* overlap in one url and whose limited routes overlap in one key, and     *)
(* one or two services with various ranges of origins.                     *)
(***************************************************************************)
EXTENDS ControlPlane, TLC

CONSTANTS c1, c2, p1, p2, u1, u2, u3, u4, k1, k2, s1, s2

MCStaticOrigins == (c1 :> {u1}) @@ (c2 :> {u1, u2})
MCPoolNames == (c1 :> {p1, p2}) @@ (c2 :> {p1})
\* For the liveness run, which is not about limiters; what discovery finds
\* are origins of the second config.
OtherOrigins == (c1 :> {u1}) @@ (c2 :> {u2, u3})
NoLimits == (c1 :> {}) @@ (c2 :> {})
MCLimitedKeys == (c1 :> {k1, k2}) @@ (c2 :> {k2})

\* One service whose url changes between a static origin's and another, and
\* which may lose its cluster IP.
OneService == (s1 :> {<<p1, u2>>, <<p1, u3>>, NoOrigin})
\* Two services in one pool.
SamePool == (s1 :> {<<p1, u3>>}) @@ (s2 :> {<<p1, u4>>})
=============================================================================
