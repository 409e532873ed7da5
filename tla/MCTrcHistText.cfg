CONSTANTS
  TracePoints <- MCTracePoints
  Idents <- MCIdents
  Statuses <- MCStatuses
  NoFunc = NoFunc
  BaseTime = 5000
  MaxUint64 = 1000000
  CycleUnit = 3700
  MaxTick = 3
  MaxThreads = 2
  MaxEvents = 3
  MaxJunk = 1
  FromStdin = FALSE
  AllowMissingEnd = FALSE
SPECIFICATION Spec
INVARIANTS TypeOK RenderedAsReference
CHECK_DEADLOCK FALSE
