\* Five handlers, three users, a grant that lapses while handlers are in flight.
CONSTANTS
  k1 = k1
  k2 = k2
  k3 = k3
  k4 = k4
  k5 = k5
  alice = alice
  bob = bob
  carol = carol
  Calls <- MCCalls
  Users <- MCUsers
  TTL = 1
  MaxTime = 2
SPECIFICATION Spec
SYMMETRY MCSymmetry
INVARIANTS
  TypeOK
  TwoPersons
  DisclosureOnRecord
  RevealsBoundedByApprovals
CHECK_DEADLOCK FALSE
