----------------------------- MODULE MCHostSync -----------------------------
(* Model values for HostSync. *)
EXTENDS HostSync, TLC

CONSTANTS h1, h2, h3, j1

MCHosts == {h1, h2, h3}
MCRuns1 == {j1}

(* Hosts are interchangeable: Init ranges over every status of every    *)
(* host, and no action names a particular host.                         *)
HostSymmetry == Permutations(MCHosts)

=============================================================================
