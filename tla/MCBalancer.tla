----------------------------- MODULE MCBalancer -----------------------------
(***************************************************************************)
(* Model-checking instances of Balancer.                                   *)
(***************************************************************************)
EXTENDS Balancer, TLC

CONSTANTS o1, o2, o3

\* o2 is in two pools of the route; o3 is taken out by weight 0.
ListedTwice == << o1, o2, o3, o2 >>
SomeWeights == (o1 :> 2) @@ (o2 :> 2) @@ (o3 :> 0)
=============================================================================
