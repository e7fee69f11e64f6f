SPECIFICATION Spec
CONSTANTS
  Ids = {2, 3}
  Subjects = {1, 2}
  MaxStarts = 3
  MaxFaults = 2
INVARIANTS
  TypeOK
  ImportEndsIdentical
  PassedCheckHolds
  ImportModeIsLeft
PROPERTIES
  NaiveRegistryIsCaught
CHECK_DEADLOCK FALSE
