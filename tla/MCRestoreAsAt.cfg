SPECIFICATION Spec
CONSTANTS
  DAY = 3
  HOUR = 1
  LateMax = 4
  StartTs = 0
  EndTs = 15
  Records = 15
  Kinds = {"asat"}
  AuditAgo = 5
  AuditDays = 1
  SinceAgo = 3
  RangeDays = 3
  MaxSegments = 3
  MaxStarts = 1
  MaxFaults = 0
PROPERTIES
  AsAtRestorePasses
CHECK_DEADLOCK FALSE
