\* Two requests and two reuse detections over the life of a token and of the epoch.
CONSTANTS
  r1 = r1
  r2 = r2
  d1 = d1
  d2 = d2
  Requests <- MCRequests
  Detections <- MCDetections
  TTL = 3
  Buffer = 2
  Patience = 2
  MaxTime = 8
SPECIFICATION RevocationSpec
SYMMETRY MCSymmetry
INVARIANTS
  RevocationTypeOK
  RevokedNeverServed
CHECK_DEADLOCK FALSE
