CONSTANTS
  TracePoints <- MCTracePoints
  Idents <- MCIdents
  Layout <- MCLayout
  NoFunc = NoFunc
  BaseTime = 5000
  MaxUint64 = 1000000
  CycleUnit = 3700
  MaxTick = 2
  MaxSize = 3
SPECIFICATION Spec
INVARIANTS TypeOK PlacementRestoresWriteOrder RawRenderedAsReference
CHECK_DEADLOCK FALSE
