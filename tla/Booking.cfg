\* POSTs of donations and sales under one key, while the lead is patched and registrations
\* are approved, rejected and expired; any MaxHandlers of these handlers run.
CONSTANTS
  k1 = k1
  k2 = k2
  p1 = p1
  x1 = x1
  x2 = x2
  spring = spring
  CA = CA
  NY = NY
  None = None
  MaxHandlers = 3
  Posts <- MCPosts
  Inputs <- MCInputs
  Patches <- MCPatches
  Officers <- MCOfficers
  Campaigns <- MCCampaigns
  States <- MCTwoStates
SPECIFICATION Spec
SYMMETRY MCSymmetry
CONSTRAINT MCBounds
INVARIANTS
  BookedUnderClearance
  ConversionConvertsLead
  BookedTwiceOnlyByOverlap
CHECK_DEADLOCK FALSE
