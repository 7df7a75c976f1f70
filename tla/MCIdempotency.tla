--------------------------- MODULE MCIdempotency ---------------------------
(* Constants and symmetry of Idempotency for TLC.                           *)
EXTENDS Idempotency, TLC

CONSTANTS k1, k2, k3, k4, reqA, reqB

MCCalls == {k1, k2, k3, k4}
MCRequests == {reqA, reqB}
MCSymmetry == Permutations(MCCalls) \cup Permutations(MCRequests)
=============================================================================
