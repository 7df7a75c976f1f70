--------------------------- MODULE MCLeadPipeline ---------------------------
(* Constants and symmetry of LeadPipeline for TLC.                          *)
EXTENDS LeadPipeline, TLC

CONSTANTS p1, p2, p3, rep1, rep2

MCPatches == {p1, p2, p3}
MCReps == {rep1, rep2}
MCSymmetry == Permutations(MCPatches) \cup Permutations(MCReps)
=============================================================================
