---------------------------- MODULE MCColumnWidths ----------------------------
EXTENDS ColumnWidths

\* a file in the current directory, one in a subdirectory with a longer base
\* name, one whose path is long but whose base name is short, and the same
\* base name and line in two directories (one map key); lines of one, two and
\* three digits, 0 included; values empty, of one and of two characters
MCCandidates ==
  { [file |-> <<"a", ".", "c">>,                value |-> <<"r", "c">>, line |-> 7],
    [file |-> <<"d", "/", "b", "b", ".", "c">>, value |-> <<>>,         line |-> 10],
    [file |-> <<"d", "d", "d", "/", "a", ".", "c">>, value |-> <<"r">>, line |-> 123],
    [file |-> <<"d", "/", "a", ".", "c">>,      value |-> <<"r">>,      line |-> 7],
    [file |-> <<"a", ".", "c">>,                value |-> <<>>,         line |-> 0] }
====
