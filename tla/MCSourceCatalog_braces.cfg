CONSTANTS
  FuncNames <- MCFuncNames
  Values <- MCValues
  SigStyles <- MCSigStyles
  StmtStyles <- MCAllStmtStyles
  MaxFuncs = 2
  MaxStmts = 2
  NoFunc = NoFunc
  Unknown = Unknown
SPECIFICATION Spec
INVARIANTS CatalogFunctionsMatchSource
CHECK_DEADLOCK FALSE
