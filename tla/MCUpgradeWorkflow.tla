------------------------- MODULE MCUpgradeWorkflow -------------------------
(***************************************************************************)
(* Model-checking instance of UpgradeWorkflow: a chain of MCN handlers,   *)
(* the spec's example [A, B, C] when MCN = 3.                             *)
(***************************************************************************)
EXTENDS UpgradeWorkflow, TLC

CONSTANTS r1, r2, r3, r4

MCRequests1 == {r1}
MCRequests2 == {r1, r2}
MCRequests3 == {r1, r2, r3}
MCRequests4 == {r1, r2, r3, r4}

\* Requests (and the TaskLog ids they create) are only compared for
\* equality, so any permutation of them maps behaviours to behaviours.
RequestSymmetry == Permutations(MCRequests3)
RequestSymmetry4 == Permutations(MCRequests4)

=============================================================================
