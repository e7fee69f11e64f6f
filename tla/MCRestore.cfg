SPECIFICATION Spec
CONSTANTS
  DAY = 3
  HOUR = 3
  LateMax = 4
  StartTs = 1
  EndTs = 16
  Records = 14
  Kinds = {"audit", "asat", "unpadded", "full"}
  AuditAgo = 5
  AuditDays = 1
  SinceAgo = 5
  RangeDays = 1
  MaxSegments = 2
  MaxStarts = 2
  MaxFaults = 1
INVARIANTS
  RestoreTypeOK
  BaselineAcceptsSeed
  PaddedWindowComplete
  HonestRestorePasses
  PassedAuditIsExact
  SinceGatePasses
  LatenessBounded
  InSpan
  GroupResumesWhereItStopped
PROPERTIES
  UnpaddedLossIsCaught
CHECK_DEADLOCK FALSE
