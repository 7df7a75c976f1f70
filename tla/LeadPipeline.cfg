\* Three requests on one lead, each of them a patch or an assignment.
CONSTANTS
  p1 = p1
  p2 = p2
  p3 = p3
  rep1 = rep1
  rep2 = rep2
  Patches <- MCPatches
  Reps <- MCReps
  Absent = Absent
SPECIFICATION Spec
SYMMETRY MCSymmetry
INVARIANTS
  TypeOK
  MovesLegalUnlessOvertaken
  ChangesOnlyWhatWasAsked
CHECK_DEADLOCK FALSE
