SPECIFICATION Spec
CONSTANTS
  s1 = s1
  s2 = s2
  Segment <- MCSegment
  MaxStarts = 6
  MaxFaults = 2
SYMMETRY MCSymmetry
INVARIANTS
  ApprovedSealIsIntact
CHECK_DEADLOCK FALSE
