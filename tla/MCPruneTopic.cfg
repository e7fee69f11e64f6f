SPECIFICATION Spec
CONSTANTS
  p1 = p1
  p2 = p2
  analytics = analytics
  billing = billing
  Partition <- MCPartition
  Group <- MCGroup
  SeedTopics <- MCSeedTopics
  SeedCommits <- MCNoCommits
  SealedEvidence <- MCSealedEvidence
  Late = {0, 9}
  Rewinds = FALSE
  InitNow = 10
  MaxOffset = 3
  Retention = 6
  Margin = 1
  Slack = 1
  CheckTimeout = 1
  Settle = 1
  Acked = {analytics}
  SimGroup = analytics
  MaxNow = 11
INVARIANTS
  TypeOK
  OnlyPredictedDeleted
  NoUnsealedRecordDeleted
  NoPartitionEmptied
  WaitWithinBudget
  PassedPruneStands
  PruneInv
PROPERTIES
  CheckDeletesPrediction
  ImplementsOffload
CHECK_DEADLOCK FALSE
