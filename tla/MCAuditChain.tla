---------------------------- MODULE MCAuditChain ----------------------------
(* Constants and the symmetry of AuditChain for TLC.  The chains are not    *)
(* interchangeable: only an org is onboarded.                               *)
EXTENDS AuditChainRefinement, TLC
CONSTANTS t1, t2, orgA, platformAU
MCTxs == {t1, t2}
MCChains == {orgA, platformAU}
MCOrgs == {orgA}
MCUlids == 1 .. 3
MCSymmetry == Permutations(MCTxs)
=============================================================================
