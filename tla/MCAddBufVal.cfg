CONSTANTS
  Args <- MCArgs
  Calls <- MCCalls
  Plain <- MCPlain
  Stale <- MCStale
  MaxLines = 3
SPECIFICATION Spec
INVARIANTS TypeOK FilesRewritten
PROPERTIES AllArgsParsed
CHECK_DEADLOCK FALSE
