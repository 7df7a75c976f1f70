\* Three PATCHes on the registrations of two states, campaigns launched meanwhile.
CONSTANTS
  k1 = k1
  k2 = k2
  k3 = k3
  spring = spring
  autumn = autumn
  CA = CA
  NY = NY
  Officers <- MCOfficers
  Campaigns <- MCCampaigns
  States <- MCStates
  MaxFilings = 1
SPECIFICATION Spec
SYMMETRY MCSymmetry
INVARIANTS
  TypeOK
  LegalUnlessOvertaken
  OpenGateWasApproved
CHECK_DEADLOCK FALSE
