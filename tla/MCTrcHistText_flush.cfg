CONSTANTS
  TracePoints <- MCTracePoints
  Idents <- MCIdents
  Statuses <- MCStatuses
  NoFunc = NoFunc
  BaseTime = 0
  MaxUint64 = 1000000
  CycleUnit = 3700
  MaxTick = 3
  MaxThreads = 2
  MaxEvents = 3
  MaxJunk = 1
  FromStdin = FALSE
  AllowMissingEnd = TRUE
SPECIFICATION Spec
INVARIANTS FormattedOutputKept
CHECK_DEADLOCK FALSE
