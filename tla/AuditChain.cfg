\* Two transactions on two chains, open together and interleaving at every statement,
\* with a verifier and one change by hand beside them.
CONSTANTS
  t1 = t1
  t2 = t2
  orgA = orgA
  platformAU = platformAU
  Txs <- MCTxs
  Chains <- MCChains
  Orgs <- MCOrgs
  Ulids <- MCUlids
  MaxEvents = 2
  MaxOpen = 2
  MaxFlaws = 1
SPECIFICATION Spec
SYMMETRY MCSymmetry
INVARIANTS
  TypeOK
  NoDanglingLink
  VerifiesUnlessOverlapped
  NoFalseAlarm
  TamperEvident
PROPERTY ImplementsLog
CHECK_DEADLOCK FALSE
