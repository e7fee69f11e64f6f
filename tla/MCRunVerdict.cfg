SPECIFICATION Spec
CONSTANTS
  Phases <- MCPhases
  Outside <- MCOutside
  Commands <- MCCommands
  Sampled <- MCSampled
  MaxStarts = 5
INVARIANTS
  VerdictCoversPhases
CHECK_DEADLOCK FALSE
