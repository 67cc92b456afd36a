------------------------- MODULE MCGovernedWorkflow -------------------------
(***************************************************************************)
(* A small instance of GovernedWorkflow: an approval of any kind with its  *)
(* submission and two decisions, while others change what it is about.     *)
(***************************************************************************)
EXTENDS GovernedWorkflow, TLC

CONSTANTS a1, s1, s2, s3, v1, v2

Symmetry == Permutations({s1, s2, s3}) \cup Permutations({v1, v2})
=============================================================================
