------------------------------- MODULE MCZone -------------------------------
(***************************************************************************)
(* Model-checking instance of Zone: three requests.                        *)
(***************************************************************************)
EXTENDS Zone

CONSTANTS q1, q2, q3

MCRequests == {q1, q2, q3}

=============================================================================
