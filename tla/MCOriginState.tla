--------------------------- MODULE MCOriginState ---------------------------
(***************************************************************************)
(* Model-checking instance of OriginState.                                 *)
(***************************************************************************)
EXTENDS OriginState, TLC

Symmetry == Permutations(Recorders \ Probers)
=============================================================================
