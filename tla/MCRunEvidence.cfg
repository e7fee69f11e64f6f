SPECIFICATION Spec
CONSTANTS
  Phases <- MCPhases
  Outside <- MCOutside
  Commands <- MCCommands
  Sampled <- MCSampled
  MaxStarts = 5
INVARIANTS
  RunTypeOK
  MakeAllIsComplete
  FailedGateShows
  SumsHold
CHECK_DEADLOCK FALSE
