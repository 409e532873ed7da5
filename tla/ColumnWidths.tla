----------------------------- MODULE ColumnWidths -----------------------------
(***************************************************************************)
(* setColumnWidths of tracehistorybuffer/trchistfmt.go and the padding    *)
(* of outputTracePoint that uses its result.                              *)
(*                                                                         *)
(* main calls setColumnWidths once, after every source directory has been *)
(* catalogued.  It resets the File, Line and Value widths to 0 and ranges *)
(* over the TracePoints map, raising each width to the length of the      *)
(* entry's base file name, decimal line number and value.  The map is     *)
(* ranged over in Go's random order, so the entry visited next is any     *)
(* entry not visited yet.                                                  *)
(*                                                                         *)
(* File names and values are sequences of characters.  A trace point's    *)
(* identifier is the md5 of its base name and its line; md5 is taken to   *)
(* tell the base names of the model apart.                                *)
(***************************************************************************)
EXTENDS Naturals, Sequences, SequencesExt

CONSTANTS
  Candidates  \* catalog entries [file, line, value] the source files may give

Cols == {"File", "Line", "Value"}

\* filepath.Base of a catalogued path (one without a trailing separator)
Base(f) == SubSeq(f, SelectLastInSeq(f, LAMBDA c : c = "/") + 1, Len(f))

Digit == <<"0", "1", "2", "3", "4", "5", "6", "7", "8", "9">>

\* strconv.FormatUint(n, 10), and the %v of a uint32
RECURSIVE Decimal(_)
Decimal(n) == IF n < 10 THEN <<Digit[n + 1]>> ELSE Decimal(n \div 10) \o <<Digit[(n % 10) + 1]>>

\* the key of the TracePoints map
Ident(p) == <<Base(p.file), p.line>>

\* the TracePoints maps the catalog can end with: at most one entry per key
Catalogs == {S \in SUBSET Candidates :
               S # {} /\ \A p, q \in S : Ident(p) = Ident(q) => p = q}

\* the text each column is sized by
Field(c, p) == CASE c = "File" -> Base(p.file)
                 [] c = "Line" -> Decimal(p.line)
                 [] c = "Value" -> p.value

VARIABLES
  tracePoints,  \* traceContext.TracePoints
  widths,       \* traceContext.ColumnWidths
  todo          \* the entries the range loop has still to visit

vars == <<tracePoints, widths, todo>>

Init ==
  /\ tracePoints \in Catalogs
  /\ widths = [c \in Cols |-> 0]
  /\ todo = tracePoints

\* mutant: len(v.File), the whole path, for the File width
VisitFullPath(v) ==
  /\ widths' = [c \in Cols |->
                  LET length == IF c = "File" THEN Len(v.file) ELSE Len(Field(c, v))
                  IN IF length > widths[c] THEN length ELSE widths[c]]
  /\ todo' = todo \ {v}

\* mutant: the Value width set without comparing
VisitValueLastWins(v) ==
  /\ widths' = [c \in Cols |->
                  IF c = "Value" \/ Len(Field(c, v)) > widths[c] THEN Len(Field(c, v))
                  ELSE widths[c]]
  /\ todo' = todo \ {v}

\* one iteration of the range loop: each width raised to the entry's length
Visit(v) ==
  /\ widths' = [c \in Cols |->
                  IF Len(Field(c, v)) > widths[c] THEN Len(Field(c, v)) ELSE widths[c]]
  /\ todo' = todo \ {v}

Next == \E v \in todo : Visit(v) /\ UNCHANGED tracePoints

Spec == Init /\ [][Next]_vars

-----------------------------------------------------------------------------
(* outputTracePoint's columns                                               *)

Spaces(k) == [i \in 1..k |-> " "]

\* %*s: padded on the left to at least w; never cut
PadLeft(s, w) == Spaces(w - Len(s)) \o s

\* %-*v: padded on the right to at least w
PadRight(s, w) == s \o Spaces(w - Len(s))

\* the first three columns of a line: "%*s:%-*v %*s" of the base name, the
\* line and the value, or "" for the value of a point written without one
Cells(p, withValue) ==
  [c \in Cols |->
     CASE c = "File" -> PadLeft(Base(p.file), widths["File"])
       [] c = "Line" -> PadRight(Decimal(p.line), widths["Line"])
       [] c = "Value" -> PadLeft(IF withValue THEN p.value ELSE <<>>, widths["Value"])]

TypeOK ==
  /\ tracePoints \in Catalogs /\ todo \subseteq tracePoints
  \* each width is 0 or the length of a field of a catalogued point
  /\ \A c \in Cols : widths[c] \in {0} \cup {Len(Field(c, p)) : p \in tracePoints}

\* Once setColumnWidths has ranged over the whole map, in whatever order, every
\* line outputTracePoint writes for a catalogued point has its file, line and
\* value columns at the same width, with and without a value, and no column is
\* wider than its widest entry.
ColumnsAligned ==
  todo = {} =>
    \A c \in Cols :
      /\ \A p, q \in tracePoints : \A x, y \in BOOLEAN :
           Len(Cells(p, x)[c]) = Len(Cells(q, y)[c])
      /\ \E p \in tracePoints : Cells(p, TRUE)[c] = Field(c, p)

=============================================================================
