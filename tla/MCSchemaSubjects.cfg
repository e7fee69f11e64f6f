SPECIFICATION Spec
CONSTANTS
  Ids = {2, 3}
  Subjects = {1, 2}
  MaxStarts = 2
  MaxFaults = 1
INVARIANTS
  ImportedWithSubjects
CHECK_DEADLOCK FALSE
