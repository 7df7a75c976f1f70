\* The operator onboards an org: verifyChain rejects the first row of its chain.
CONSTANTS
  t1 = t1
  t2 = t2
  orgA = orgA
  platformAU = platformAU
  Txs <- MCTxs
  Chains <- MCChains
  Orgs <- MCOrgs
  Ulids <- MCUlids
  MaxEvents = 1
  MaxOpen = 1
  MaxFlaws = 0
SPECIFICATION Spec
INVARIANT ReplaysOnEitherSurface
CHECK_DEADLOCK FALSE
