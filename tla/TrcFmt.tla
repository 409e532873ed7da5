-------------------------------- MODULE TrcFmt --------------------------------
(***************************************************************************)
(* play/trcfmt/trcfmt.go: main's loop over the arguments,                  *)
(* itfParseISMTraceFile reading one file line by line into <file>.fmt and *)
(* reporting each thread's final indent, itfParseISMTraceLine and         *)
(* itfFormatTraceLine with the per-file threadIndents map.                 *)
(*                                                                         *)
(* The lines of a file are chosen as they are read, up to MaxLines over   *)
(* the whole run; `content` records them.  The console messages are left  *)
(* out, except the per-thread report, which is `reports`.                  *)
(***************************************************************************)
EXTENDS TrcFmtLines, FiniteSets

CONSTANTS
  Args,      \* os.Args[1:], distinct file names
  MaxLines   \* bound on the lines of all files together

ASSUME IsInjective(Args)

VARIABLES
  arg,       \* main's i - 1: the argument being or next to be processed
  mode,      \* "main", "reading" (inside itfParseISMTraceFile), "done" or
             \* "panicked"
  indents,   \* threadIndents: thread name -> uint32 indent
  buf,       \* what the bufio writer has been given for the open .fmt file
  content,   \* the lines read from each processed argument (ghost)
  disk,      \* the .fmt files: name -> lines
  results,   \* itfParseISMTraceFile's result for each argument
  reports,   \* for each argument, thread -> "final indent of 0"
  lines      \* lines read in the whole run (bound)

vars == <<arg, mode, indents, buf, content, disk, results, reports, lines>>

\* mutant: an exit at indent 0 is outdented anyway (no "Unmatched" check);
\* the uint32 indent would wrap to 2^32 - 3, here it goes below 0
FormatTraceLineNoUnmatchedCheck(ind, l) ==
  LET known == l.thread # "" /\ l.thread \in DOMAIN ind
      lineIndent == IF known THEN ind[l.thread] ELSE 0
      ind1 == IF l.thread # "" /\ ~known THEN (l.thread :> 0) @@ ind ELSE ind
  IN CASE l.stmt = "entry" ->
            [ind |-> (l.thread :> (lineIndent + TRACE_INDENT)) @@ ind1,
             out |-> OutLine(l, lineIndent, "{")]
       [] l.stmt = "exit" ->
            LET ni == (lineIndent - TRACE_INDENT)
            IN [ind |-> (l.thread :> ni) @@ ind1, out |-> OutLine(l, ni, "}")]
       [] OTHER -> [ind |-> ind1, out |-> OutLine(l, lineIndent, "")]

\* mutant: the exit line keeps the indent of the call it returns from
FormatTraceLineExitNotOutdented(ind, l) ==
  LET known == l.thread # "" /\ l.thread \in DOMAIN ind
      lineIndent == IF known THEN ind[l.thread] ELSE 0
      ind1 == IF l.thread # "" /\ ~known THEN (l.thread :> 0) @@ ind ELSE ind
  IN CASE l.stmt = "entry" ->
            [ind |-> (l.thread :> (lineIndent + TRACE_INDENT)) @@ ind1,
             out |-> OutLine(l, lineIndent, "{")]
       [] l.stmt = "exit" /\ lineIndent < TRACE_INDENT ->
            [ind |-> ind1, out |-> OutLine(l, lineIndent, "")]
       [] l.stmt = "exit" ->
            LET ni == (lineIndent - TRACE_INDENT)
            IN [ind |-> (l.thread :> ni) @@ ind1, out |-> OutLine(l, lineIndent, "}")]
       [] OTHER -> [ind |-> ind1, out |-> OutLine(l, lineIndent, "")]

\* itfFormatTraceLine(threadIndents, date, threadName, traceStmt): the new
\* map and the formatted line.  The empty thread name is never looked up,
\* so its lines are indented by 0, but ">>>" and "<<<" still store its
\* indent.  The uint32 arithmetic of lineIndent never wraps: the exit
\* branch subtracts only after checking lineIndent >= TRACE_INDENT, and an
\* indent grows by 3 per line read.
FormatTraceLine(ind, l) ==
  LET known == l.thread # "" /\ l.thread \in DOMAIN ind
      lineIndent == IF known THEN ind[l.thread] ELSE 0
      ind1 == IF l.thread # "" /\ ~known THEN (l.thread :> 0) @@ ind ELSE ind
  IN CASE l.stmt = "entry" ->
            [ind |-> (l.thread :> (lineIndent + TRACE_INDENT)) @@ ind1,
             out |-> OutLine(l, lineIndent, "{")]
       [] l.stmt = "exit" /\ lineIndent < TRACE_INDENT ->
            [ind |-> ind1, out |-> OutLine(l, lineIndent, "")]
       [] l.stmt = "exit" ->
            LET ni == (lineIndent - TRACE_INDENT)
            IN [ind |-> (l.thread :> ni) @@ ind1, out |-> OutLine(l, ni, "}")]
       [] OTHER -> [ind |-> ind1, out |-> OutLine(l, lineIndent, "")]

\* itfParseISMTraceLine: a line the date-thread regex does not match is
\* written unchanged
ParseISMTraceLine(ind, l) ==
  IF l.dated THEN FormatTraceLine(ind, l) ELSE [ind |-> ind, out |-> l]

\* the reset of threadIndents for each file
NewThreadIndents == [t \in {} |-> 0]

\* itfParseISMTraceFile returns false: the input or the output file
\* cannot be opened; main goes on with the next argument
OpenFails ==
  /\ mode = "main" /\ arg <= Len(Args)
  /\ results' = Append(results, FALSE) /\ reports' = Append(reports, <<>>)
  /\ content' = Append(content, <<>>)
  /\ arg' = arg + 1
  /\ UNCHANGED <<mode, indents, buf, disk, lines>>

\* mutant: threadIndents is made once, not for each file
OpenTraceFileNoReset ==
  /\ mode = "main" /\ arg <= Len(Args)
  /\ disk' = (OutName(Args[arg]) :> <<>>) @@ disk
  /\ buf' = <<>> /\ content' = Append(content, <<>>)
  /\ mode' = "reading"
  /\ UNCHANGED <<arg, indents, results, reports, lines>>

\* both files open: <file>.fmt is created or truncated, threadIndents is
\* made, and the read loop starts
OpenTraceFile ==
  /\ mode = "main" /\ arg <= Len(Args)
  /\ disk' = (OutName(Args[arg]) :> <<>>) @@ disk
  /\ indents' = NewThreadIndents /\ buf' = <<>>
  /\ content' = Append(content, <<>>)
  /\ mode' = "reading"
  /\ UNCHANGED <<arg, results, reports, lines>>

\* one iteration of the read loop: reader.ReadString and
\* itfParseISMTraceLine with its writer.WriteString
ReadTraceLine ==
  /\ mode = "reading" /\ lines < MaxLines
  /\ \E l \in Lines :
       LET r == ParseISMTraceLine(indents, l) IN
       /\ indents' = r.ind /\ buf' = Append(buf, r.out)
       /\ content' = [content EXCEPT ![arg] = Append(@, l)]
  /\ lines' = lines + 1
  /\ UNCHANGED <<arg, mode, disk, results, reports>>

\* reader.ReadString fails other than with io.EOF, or writer.WriteString
\* fails (bufio reports a failed write of its full buffer): panic(err).
\* The deferred Flush and Close still run; what reaches the file is the
\* lines given to the writer up to some point (a line cut part way is not
\* told apart from its absence).  No later argument is processed.
TraceFilePanics ==
  /\ mode = "reading"
  /\ \E k \in 0..Len(buf) : disk' = [disk EXCEPT ![OutName(Args[arg])] = SubSeq(buf, 1, k)]
  /\ mode' = "panicked"
  /\ UNCHANGED <<arg, indents, buf, content, results, reports, lines>>

\* io.EOF: the final-indent report over threadIndents, the deferred
\* writer.Flush and Close, return true; main takes the next argument
EndOfTraceFile ==
  /\ mode = "reading"
  /\ disk' = [disk EXCEPT ![OutName(Args[arg])] = buf]
  /\ reports' = Append(reports, [t \in DOMAIN indents |-> indents[t] = 0])
  /\ results' = Append(results, TRUE)
  /\ arg' = arg + 1 /\ mode' = "main"
  /\ UNCHANGED <<indents, buf, content, lines>>

\* mutant: the loop bound is off by one, i <= len(os.Args) - 1 read as
\* i < len(os.Args) - 1 past the last argument
EndOfArgsLate ==
  /\ mode = "main" /\ arg > Len(Args) + 1
  /\ mode' = "done"
  /\ UNCHANGED <<arg, indents, buf, content, disk, results, reports, lines>>

\* main's loop ends
EndOfArgs ==
  /\ mode = "main" /\ arg > Len(Args)
  /\ mode' = "done"
  /\ UNCHANGED <<arg, indents, buf, content, disk, results, reports, lines>>

Init ==
  /\ arg = 1 /\ mode = "main" /\ indents = NewThreadIndents /\ buf = <<>>
  /\ content = <<>> /\ disk = [o \in {} |-> <<>>]
  /\ results = <<>> /\ reports = <<>> /\ lines = 0

Next ==
  \/ OpenFails \/ OpenTraceFile \/ ReadTraceLine \/ TraceFilePanics \/ EndOfTraceFile
  \/ EndOfArgs

\* the program runs on while it has a step to take: it is one sequential
\* process reading finite files
Fairness == WF_vars(Next)

Spec == Init /\ [][Next]_vars /\ Fairness

-----------------------------------------------------------------------------
(* Properties                                                              *)

\* The variables keep their types; no indent is ever wrapped below zero
\* (the "Unmatched function exit" check guards the uint32 subtraction).
TypeOK ==
  /\ arg \in 1..Len(Args) + 1 /\ mode \in {"main", "reading", "done", "panicked"}
  /\ \A t \in DOMAIN indents : t \in Threads /\ indents[t] \in 0..TRACE_INDENT * MaxLines
  /\ content \in Seq(Seq(Lines)) /\ lines \in 0..MaxLines
  /\ \A o \in DOMAIN disk : o \in {OutName(f) : f \in ToSet(Args)}
  /\ results \in Seq(BOOLEAN)

\* While a file is read, everything written for it is its text so far as
\* the indenter promises: each line indented by its own thread's open
\* calls, whatever the other threads do in between (threadIndents in
\* itfFormatTraceLine, reset per file in itfParseISMTraceFile).
IndentIsCallDepth == mode = "reading" => buf = RefFormat(content[arg])

\* the argument-at-a-time view: only finished files are visible, the one
\* being written is not; after a panic, what it was left with is
Visible == IF mode = "reading"
           THEN [o \in DOMAIN disk \ {OutName(Args[arg])} |-> disk[o]]
           ELSE disk

Files == INSTANCE TrcFmtFiles
           WITH done <- Len(results),
                read <- IF mode = "panicked" THEN content ELSE SubSeq(content, 1, Len(results)),
                disk <- Visible

\* trcfmt implements TrcFmtFiles: each argument in turn is skipped or
\* formatted whole into <file>.fmt, with the report of its threads, or a
\* panic leaves its .fmt with a prefix of its formatted text and ends the run.
FilesSpec == Files!Spec

\* Every argument is eventually processed and the program ends (main's
\* loop over os.Args, the read loop ending at io.EOF), unless a read or
\* write error panics first.
AllArgsProcessed == <>(mode = "panicked" \/ (mode = "done" /\ Len(results) = Len(Args)))

=============================================================================
