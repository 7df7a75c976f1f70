---------------------------- MODULE MCClearance ----------------------------
(* Constants and symmetry of Clearance for TLC.                             *)
EXTENDS Clearance, TLC

CONSTANTS k1, k2, k3, spring, autumn, CA, NY

MCOfficers == {k1, k2, k3}
MCCampaigns == {spring, autumn}
MCStates == {CA, NY}
MCSymmetry ==
  Permutations(MCOfficers) \cup Permutations(MCCampaigns) \cup Permutations(MCStates)
=============================================================================
