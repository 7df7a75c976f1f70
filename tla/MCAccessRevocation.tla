------------------------- MODULE MCAccessRevocation -------------------------
(* Constants and symmetry of AccessRevocation for TLC.                      *)
EXTENDS AccessRevocation, TLC

CONSTANTS r1, r2, d1, d2

MCRequests == {r1, r2}
MCDetections == {d1, d2}
MCSymmetry == Permutations(MCRequests) \cup Permutations(MCDetections)
=============================================================================
