CONSTANTS
  FlagSets <- MCFlagSets
  MaxRuns = 2
  MaxAttempts = 2
SPECIFICATION Spec
INVARIANT CommandErrorMeansFailure
CHECK_DEADLOCK FALSE
