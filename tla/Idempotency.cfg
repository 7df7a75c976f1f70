\* Four calls with one key and two requests, across the expiry of the row.
CONSTANTS
  k1 = k1
  k2 = k2
  k3 = k3
  k4 = k4
  reqA = reqA
  reqB = reqB
  Calls <- MCCalls
  Requests <- MCRequests
  TTL = 1
  MaxTime = 3
SPECIFICATION Spec
SYMMETRY MCSymmetry
INVARIANTS
  TypeOK
  RunsAgainOnlyAfterExpiry
  AnsweredMeansExecuted
CHECK_DEADLOCK FALSE
