\* Five handlers of one user: logins, rotations, reuse, logout, archival, role change.
CONSTANTS
  k1 = k1
  k2 = k2
  k3 = k3
  k4 = k4
  k5 = k5
  rep = rep
  manager = manager
  Calls <- MCFive
  Roles <- MCRoles
SPECIFICATION Spec
SYMMETRY MCFiveSymmetry
INVARIANTS
  TypeOK
  NoSessionFromRevoked
  ArchivedHoldsNoSession
  StaleRoleOnlyInFlight
CHECK_DEADLOCK FALSE
