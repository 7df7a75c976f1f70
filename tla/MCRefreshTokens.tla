-------------------------- MODULE MCRefreshTokens --------------------------
(* Constants and symmetry of RefreshTokens for TLC.                         *)
EXTENDS RefreshTokens, TLC

CONSTANTS k1, k2, k3, k4, k5, rep, manager

MCFive == {k1, k2, k3, k4, k5}
MCRoles == {rep, manager}
MCFiveSymmetry == Permutations(MCFive) \cup Permutations(MCRoles)
=============================================================================
