---------------------------- MODULE MCCisService ----------------------------
(* Model values for CisService. *)
EXTENDS CisService, TLC

CONSTANTS c1, c2

MCRequests == {c1, c2}

(* Requests are interchangeable: all start idle and no action names one. *)
RequestSymmetry == Permutations(MCRequests)

=============================================================================
