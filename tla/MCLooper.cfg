CONSTANTS
  FlagSets <- MCFlagSets
  MaxRuns = 22
  MaxAttempts = 5
SPECIFICATION Spec
INVARIANTS TypeOK LogNamesCoverRuns StatusEmailOnce RTCSessionClosed
PROPERTIES CommandReturns
CHECK_DEADLOCK FALSE
