---------------------------- MODULE MCPiiUnmask ----------------------------
(* Constants and symmetry of PiiUnmask for TLC.                             *)
EXTENDS PiiUnmask, TLC

CONSTANTS k1, k2, k3, k4, k5, alice, bob, carol

MCCalls == {k1, k2, k3, k4, k5}
MCUsers == {alice, bob, carol}
MCSymmetry == Permutations(MCCalls) \cup Permutations(MCUsers)
=============================================================================
