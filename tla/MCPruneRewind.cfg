SPECIFICATION Spec
CONSTANTS
  p1 = p1
  p2 = p2
  analytics = analytics
  billing = billing
  Partition <- MCPartition
  Group <- MCGroup
  SeedTopics <- MCLiveTopics
  SeedCommits <- MCSeedCommits
  SealedEvidence <- MCGoodEvidence
  Late = {}
  Rewinds = TRUE
  InitNow = 10
  MaxOffset = 3
  Retention = 6
  Margin = 1
  Slack = 1
  CheckTimeout = 1
  Settle = 1
  Acked = {analytics}
  SimGroup = analytics
  MaxNow = 10
INVARIANTS
  UnackedGroupNotCut
CHECK_DEADLOCK FALSE
