CONSTANTS
  Threads <- MCThreads
  Args <- MCArgs
  MaxLines = 5
SPECIFICATION Spec
INVARIANTS TypeOK IndentIsCallDepth
PROPERTIES FilesSpec AllArgsProcessed
CHECK_DEADLOCK FALSE
