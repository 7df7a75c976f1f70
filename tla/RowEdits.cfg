\* Three requests on one row of any table.
CONSTANTS
  h1 = h1
  h2 = h2
  h3 = h3
  Handlers = {h1, h2, h3}
  x = x
  y = y
  Values = {x, y}
SYMMETRY Symmetry
SPECIFICATION EditSpec
INVARIANTS
  EditTypeOK
  UndoneOnlyByOverlap
  AuditReplays
CHECK_DEADLOCK FALSE
