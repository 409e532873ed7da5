----------------------------- MODULE TrcHistText -----------------------------
(***************************************************************************)
(* The textual trace decoder of tracehistorybuffer/trchistfmt.go: main    *)
(* (text branch), parseTraceFile and parseThreadData, with the rendering  *)
(* of TraceRender.  The program reads a stream of NEWTHREAD / TP /        *)
(* ENDTHREAD lines, once in measurement mode (only when a base time is    *)
(* given) and once in render mode, and writes one formatted file per      *)
(* thread section that holds a TP line.                                   *)
(*                                                                         *)
(* The stream is written by the environment (a trace dump) one line at a  *)
(* time, as the reader asks for it, and recorded in `stream` so that a    *)
(* second pass over a named file reads the same lines.  `sections` is the *)
(* dumper's own record of which events it wrote for which thread; the     *)
(* properties compare the files on disk with it.                          *)
(*                                                                         *)
(* Output files: `disk` maps a file name (status, thread number) to its   *)
(* lines.  os.OpenFile(O_TRUNC|O_CREATE) makes the file empty; the lines  *)
(* sit in the bufio.Writer (`buf`) until the deferred Flush when          *)
(* parseThreadData returns.  The outputs here stay below the 4096-byte    *)
(* buffer, so no line reaches the file before that Flush.                 *)
(***************************************************************************)
EXTENDS TraceRender, FiniteSets, SequencesExt, TLC

CONSTANTS
  Statuses,        \* status tags of NEWTHREAD-<status>: lines; "" for NEWTHREAD:
  Idents,          \* identifiers the dump may hold (0, catalogued, unknown)
  CycleUnit,       \* cycle counts are multiples of it
  MaxTick,         \* largest cycle count is MaxTick * CycleUnit
  MaxThreads,      \* bound on thread sections in the stream
  MaxEvents,       \* bound on TP lines in the stream
  MaxJunk,         \* bound on unrecognised lines in the stream
  FromStdin,       \* no -t flag: the stream is standard input
  AllowMissingEnd  \* the dump may start a section without ending the last

ASSUME /\ Statuses # {} /\ DOMAIN TracePoints \subseteq Idents /\ 0 \in Idents
       /\ \A n \in {CycleUnit, MaxTick, MaxThreads, MaxEvents, MaxJunk} : n \in Nat
       /\ MaxUint64 > MaxTick * CycleUnit
       /\ FromStdin \in BOOLEAN /\ AllowMissingEnd \in BOOLEAN

\* thread addresses are written as small numbers: section j has address j
NewLine(s, a) == [k |-> "new", status |-> s, addr |-> a]
EndLine(a)    == [k |-> "end", addr |-> a]
TpLine(a, i, v) == [k |-> "tp", addr |-> a, ident |-> i, v |-> v]
Junk == [k |-> "junk"]

EmptyDisk == [f \in {} |-> <<>>]

\* getFmtTraceFileName(outDir, fileName, threadStatus, threadNum)
FmtTraceFileName(status, threadNum) == [status |-> status, num |-> threadNum]

VARIABLES
  stream, eof, gen, sections,          \* the input and its writer
  pass, phase, pos, mode,              \* where the program is
  tAddr, tName, pc, writer, buf,       \* parseThreadData's locals
  threadNum, low, disk                 \* parseTraceFile's counter, LowCycles, files

vars == <<stream, eof, gen, sections, pass, phase, pos, mode,
          tAddr, tName, pc, writer, buf, threadNum, low, disk>>

dumper  == <<stream, eof, gen, sections>>
program == <<pass, phase, pos, mode, tAddr, tName, pc, writer, buf,
             threadNum, low, disk>>

IsTimingIdent(i) ==
  i \in DOMAIN TracePoints /\ TracePoints[i].value \in {"entryTime", "exitTime"}

-----------------------------------------------------------------------------
(* The dump.  Cycle counts of a thread's timing points never decrease.   *)

\* appends line l to the stream; the dumper's state changes with it
Emit(l) ==
  /\ stream' = Append(stream, l)
  /\ \/ /\ l.k = "new"
        /\ ~gen.open \/ AllowMissingEnd
        /\ Len(sections) < MaxThreads
        /\ l.addr = Len(sections) + 1
        /\ gen' = [gen EXCEPT !.open = TRUE, !.clock = 0]
        /\ sections' = Append(sections, [status |-> l.status, evts |-> <<>>])
     \/ /\ l.k = "tp"
        /\ gen.open /\ gen.n < MaxEvents
        /\ l.addr = Len(sections)
        /\ IF IsTimingIdent(l.ident)
           THEN /\ l.v \in {t * CycleUnit : t \in gen.clock + 1..MaxTick}
                /\ gen' = [gen EXCEPT !.n = @ + 1, !.clock = l.v \div CycleUnit]
           ELSE /\ l.v = IF l.ident = 0 THEN 0 ELSE gen.clock * CycleUnit
                /\ gen' = [gen EXCEPT !.n = @ + 1]
        /\ sections' = [sections EXCEPT ![Len(sections)].evts =
                                           Append(@, <<l.ident, l.v>>)]
     \/ /\ l.k = "end"
        /\ gen.open /\ l.addr = Len(sections)
        /\ gen' = [gen EXCEPT !.open = FALSE]
        /\ UNCHANGED sections
     \/ /\ l.k = "junk"
        /\ gen.junk < MaxJunk
        /\ gen' = [gen EXCEPT !.junk = @ + 1]
        /\ UNCHANGED sections
  /\ UNCHANGED eof

Lines ==
  {NewLine(s, a) : s \in Statuses, a \in 1..MaxThreads} \cup
  {EndLine(a) : a \in 1..MaxThreads} \cup {Junk} \cup
  {TpLine(a, i, v) : a \in 1..MaxThreads, i \in Idents,
                     v \in {t * CycleUnit : t \in 0..MaxTick}}

\* reader.ReadString('\n') returns line l: the next recorded line, or a
\* new line of the dump when the reader is at its end
Supply(l) ==
  \/ /\ pos < Len(stream) /\ l = stream[pos + 1]
     /\ UNCHANGED dumper
  \/ /\ pos = Len(stream) /\ ~eof
     /\ Emit(l)

AtEOF == pos = Len(stream) /\ eof

\* the dump ends (the writer closes the pipe or the file is complete); it is
\* taken when the reader waits for the next line, where the end is seen
DumpEnds ==
  /\ ~eof /\ pos = Len(stream) /\ eof' = TRUE
  /\ UNCHANGED <<stream, gen, sections>> /\ UNCHANGED program

-----------------------------------------------------------------------------
(* parseTraceFile and parseThreadData                                     *)

FindLow == pass = "measure"

\* parseThreadData returns: the deferred writer.Flush and outf.Close,
\* then threadNum++ in parseTraceFile
ReturnFromThread ==
  /\ disk' = IF writer THEN [disk EXCEPT ![tName] = buf] ELSE disk
  /\ mode' = "outer"
  /\ threadNum' = threadNum + 1

\* a NEWTHREAD: or NEWTHREAD-<status>: line: parseThreadData is called
OuterNewThread(l) ==
  /\ mode = "outer" /\ l.k = "new"
  /\ mode' = "thread" /\ tAddr' = l.addr
  /\ tName' = FmtTraceFileName(l.status, threadNum)
  /\ pc' = NewParseContext /\ writer' = FALSE /\ buf' = <<>>
  /\ UNCHANGED <<pass, phase, threadNum, low, disk>>

\* any other line between sections is skipped
OuterSkip(l) ==
  /\ mode = "outer" /\ l.k # "new"
  /\ UNCHANGED <<pass, phase, mode, tAddr, tName, pc, writer, buf,
                 threadNum, low, disk>>

\* ENDTHREAD: <address>: fatal unless it is the section's address
ThreadEnd(l) ==
  /\ mode = "thread" /\ l.k = "end"
  /\ IF l.addr # tAddr
     THEN phase' = "fatal" /\ UNCHANGED <<mode, threadNum, disk>>
     ELSE ReturnFromThread /\ UNCHANGED phase
  /\ UNCHANGED <<pass, tAddr, tName, pc, writer, buf, low>>

\* a TP line: the output file is opened (truncated) and the header written
\* at the first one in render mode, before the address is checked
ThreadTracePoint(l) ==
  /\ mode = "thread" /\ l.k = "tp"
  /\ LET opens == ~writer /\ ~FindLow
         r == OutputTracePoint(pc, low, l.ident, l.v, FindLow)
     IN /\ writer' = (writer \/ opens)
        /\ disk' = IF opens THEN (tName :> <<>>) @@ disk ELSE disk
        /\ IF l.addr # tAddr
           THEN /\ phase' = "fatal"
                /\ UNCHANGED <<pc, low, buf>>
           ELSE /\ pc' = r.pc /\ low' = r.low
                /\ buf' = IF FindLow THEN buf ELSE buf \o r.out
                /\ UNCHANGED phase
  /\ UNCHANGED <<pass, mode, tAddr, tName, threadNum>>

\* inside a section every other line, a NEWTHREAD line included, is skipped
ThreadSkip(l) ==
  /\ mode = "thread" /\ l.k \in {"new", "junk"}
  /\ UNCHANGED <<pass, phase, mode, tAddr, tName, pc, writer, buf,
                 threadNum, low, disk>>

ReadLine ==
  /\ phase = "run" /\ ~AtEOF
  /\ \E l \in Lines :
       /\ Supply(l)
       /\ pos' = pos + 1
       /\ \/ OuterNewThread(l) \/ OuterSkip(l)
          \/ ThreadEnd(l) \/ ThreadTracePoint(l) \/ ThreadSkip(l)

\* io.EOF inside a section ends it like an ENDTHREAD
ThreadEOF ==
  /\ phase = "run" /\ mode = "thread" /\ AtEOF
  /\ ReturnFromThread
  /\ UNCHANGED <<pass, phase, pos, tAddr, tName, pc, writer, buf, low>>
  /\ UNCHANGED dumper

\* mutant: the thread counter carries over from the measurement pass
FileEOFNoReset ==
  /\ phase = "run" /\ mode = "outer" /\ AtEOF
  /\ IF pass = "measure"
     THEN /\ pass' = "render" /\ UNCHANGED threadNum
          /\ pos' = IF FromStdin THEN pos ELSE 0
          /\ UNCHANGED phase
     ELSE phase' = "done" /\ UNCHANGED <<pass, threadNum, pos>>
  /\ UNCHANGED <<mode, tAddr, tName, pc, writer, buf, low, disk>>
  /\ UNCHANGED dumper

\* io.EOF between sections ends parseTraceFile.  After the measurement pass
\* main calls it again: a named file is opened anew, standard input is not.
FileEOF ==
  /\ phase = "run" /\ mode = "outer" /\ AtEOF
  /\ IF pass = "measure"
     THEN /\ pass' = "render" /\ threadNum' = 0
          /\ pos' = IF FromStdin THEN pos ELSE 0
          /\ UNCHANGED phase
     ELSE phase' = "done" /\ UNCHANGED <<pass, threadNum, pos>>
  /\ UNCHANGED <<mode, tAddr, tName, pc, writer, buf, low, disk>>
  /\ UNCHANGED dumper

Init ==
  /\ stream = <<>> /\ eof = FALSE /\ sections = <<>>
  /\ gen = [open |-> FALSE, n |-> 0, clock |-> 0, junk |-> 0]
  /\ pass = IF BaseTime # 0 THEN "measure" ELSE "render"
  /\ phase = "run" /\ pos = 0 /\ mode = "outer"
  /\ tAddr = 0 /\ tName = FmtTraceFileName("", 0)
  /\ pc = NewParseContext /\ writer = FALSE /\ buf = <<>>
  /\ threadNum = 0 /\ low = MaxUint64 /\ disk = EmptyDisk

Next == ReadLine \/ ThreadEOF \/ FileEOF \/ DumpEnds

Spec == Init /\ [][Next]_vars

-----------------------------------------------------------------------------
(* Properties                                                              *)

Names == {FmtTraceFileName(s, n) : s \in Statuses \cup {""}, n \in 0..MaxThreads}
Contexts == [inFunc : {NoFunc} \cup {TracePoints[i].fn : i \in DOMAIN TracePoints},
             funcEntry : BOOLEAN,
             funcEntryCycles : 0..MaxTick * CycleUnit,
             funcExitCycles : 0..MaxTick * CycleUnit]

TypeOK ==
  /\ pass \in {"measure", "render"} /\ phase \in {"run", "done", "fatal"}
  /\ mode \in {"outer", "thread"} /\ pos \in 0..Len(stream)
  /\ pc \in Contexts /\ writer \in BOOLEAN /\ tName \in Names
  /\ low \in {MaxUint64} \cup {t * CycleUnit : t \in 1..MaxTick}
  /\ threadNum \in 0..MaxThreads
  /\ DOMAIN disk \subseteq Names

\* the cycle counts of all entry and exit points in the dump
TimingCycles ==
  UNION {{e[2] : e \in {e \in ToSet(sections[j].evts) : IsTimingIdent(e[1])}} :
           j \in 1..Len(sections)}

\* the spec's lowCycleBaseline: the lowest of them across all threads
RefLow == IF TimingCycles = {} THEN MaxUint64
          ELSE CHOOSE c \in TimingCycles : \A d \in TimingCycles : c <= d

\* the sections that hold a TP line, each of which gets a formatted file
Rendered == {j \in 1..Len(sections) : sections[j].evts # <<>>}
SectionFile(j) == FmtTraceFileName(sections[j].status, j - 1)

\* When the decoder finishes, there is exactly one file per thread section
\* with a TP line, and it holds that thread's points in order, each with
\* the timestamp against the global lowest cycle count, the "took" of the
\* entry/exit pair around it and the "delay" since the thread's last exit
\* (outputTracePoint's FuncEntry/InFunc/FuncExitCycles bookkeeping, the
\* two passes of main and the threadNum naming of parseTraceFile).
RenderedAsReference ==
  phase = "done" =>
    /\ DOMAIN disk = {SectionFile(j) : j \in Rendered}
    /\ \A j \in Rendered :
         disk[SectionFile(j)] = RefRender(sections[j].evts, RefLow)

\* Every line written to an opened output file reaches it, on the error
\* paths as well (log.Fatalf in parseThreadData and the deferred Flush).
FormattedOutputKept == (phase = "fatal" /\ writer) => disk[tName] = buf

=============================================================================
