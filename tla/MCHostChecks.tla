---------------------------- MODULE MCHostChecks ----------------------------
(* Two hosts; every audit. *)
EXTENDS HostChecks, TLC

CONSTANTS h1, h2

MCHosts == {h1, h2}
MCSymmetry == Permutations(MCHosts)
=============================================================================
