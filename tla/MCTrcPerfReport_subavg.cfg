CONSTANTS
  f1 = f1
  f2 = f2
  Files <- MCFiles
  Argv <- MCArgv
  BaseName <- MCBaseName
  Funcs <- MCFuncs
  Subs <- MCSubs
  MaxTime = 5
  MaxOther = 1
  NoFunc = NoFunc
  NoSub = NoSub
SPECIFICATION Spec
CHECK_DEADLOCK FALSE
INVARIANT MergedSubFuncAvgConsistent
