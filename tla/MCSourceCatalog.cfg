CONSTANTS
  FuncNames <- MCFuncNames
  Values <- MCValues
  SigStyles <- MCSigStyles
  StmtStyles <- MCStmtStyles
  MaxFuncs = 2
  MaxStmts = 2
  NoFunc = NoFunc
  Unknown = Unknown
SPECIFICATION Spec
INVARIANTS TypeOK CatalogHasEveryTracePoint CatalogFunctionsMatchSource
CHECK_DEADLOCK FALSE
