SPECIFICATION Spec
CONSTANTS
  Partitions = 2
  Stamps = {1, 2}
  Seeded = 2
  MaxRecords = 5
  MaxStarts = 2
INVARIANTS
  BaselineTypeOK
  AcceptedIsExact
  PassedIsExact
CHECK_DEADLOCK FALSE
