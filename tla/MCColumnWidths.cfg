CONSTANT Candidates <- MCCandidates
SPECIFICATION Spec
INVARIANTS TypeOK ColumnsAligned
\* setColumnWidths returns once the range loop has visited every entry
CHECK_DEADLOCK FALSE
