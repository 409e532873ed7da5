---------------------------- MODULE TrcPerfReport ----------------------------
(***************************************************************************)
(* The performance analyzer of tracehistorybuffer/trcperfreport.go.       *)
(*                                                                         *)
(* The program reads the formatted trace files named on its command line  *)
(* one after the other (parseTraceFile), runs the three-state line parser *)
(* parseTraceLine over each, keeps the per-thread statistics in a map     *)
(* keyed by the file's base name, then merges every thread into           *)
(* whole-program statistics and ranks functions by total time             *)
(* (printPerfReport, sortTotalTime).                                      *)
(*                                                                         *)
(* A formatted line is abstracted to the one pattern it matches: an       *)
(* entryTime or exitTime value, the function-name line that follows an    *)
(* entry, a TTS_Start_<s>/TTS_Stop_<s> eye-catcher, a malformed TTS       *)
(* eye-catcher, or anything else.  The lines are produced by a model of   *)
(* the traced thread (the "gen" variable) that emits the lines a          *)
(* non-nested engine call produces, may begin in the middle of a call     *)
(* (a history buffer keeps only the newest entries) and may end anywhere. *)
(* The calls the thread really completed inside the trace are recorded in *)
(* the history variable "calls"; the properties compare the statistics    *)
(* the program computes with them.                                        *)
(*                                                                         *)
(* Float64 averages are kept as exact rationals: the model follows the    *)
(* code's update formulas, without rounding.  Go map iteration order,     *)
(* which is unspecified, is a nondeterministic choice.                    *)
(***************************************************************************)
EXTENDS Naturals, Sequences, FiniteSets, SequencesExt, FiniteSetsExt, TLC

CONSTANTS
  Files,     \* the trace files named on the command line
  Argv,      \* the order in which os.Args names them
  BaseName,  \* filepath.Base of each file: the key of data.threadData
  Funcs,     \* engine function names that appear in the traces
  Subs,      \* sub-function eye-catcher names
  MaxTime,   \* the last cycle count a thread's trace may reach
  MaxOther,  \* bound on lines per file that match no pattern
  NoFunc,    \* the empty function name ""
  NoSub      \* no sub-function (a line that is not an eye-catcher)

ASSUME /\ Argv \in Seq(Files) /\ ToSet(Argv) = Files
       /\ DOMAIN BaseName = Files
       /\ NoFunc \notin Funcs /\ NoSub \notin Subs
       /\ MaxTime \in Nat /\ MaxOther \in Nat

VARIABLES
  phase,       \* "open", "parse", "merge", "done" or "fatal" (log.Fatalf)
  cur,         \* index in Argv of the file being read
  context,     \* the threadContext of the file being read
  threadData,  \* data.threadData: base name -> finished threadContext
  allFuncs,    \* printPerfReport's whole-program functionData map
  mergeLeft,   \* threads printPerfReport has still to merge
  ranked,      \* per thread, sortTotalTime's ranking of its functions
  rankedAll,   \* sortTotalTime's ranking of allFuncs
  gen,         \* the traced thread producing the lines of the current file
  clock,       \* the cycle count of the last timed line of the current file
  others,      \* lines of the current file that match no pattern
  calls,       \* history: per file, the calls completed inside its trace
  parsed       \* history: files whose data parseTraceFile stored

vars == <<phase, cur, context, threadData, allFuncs, mergeLeft, ranked,
          rankedAll, gen, clock, others, calls, parsed>>

-----------------------------------------------------------------------------
(* Exact arithmetic for the float64 averages.                              *)

RECURSIVE Gcd(_, _)
Gcd(a, b) == IF b = 0 THEN a ELSE Gcd(b, a % b)

Rat(n, d) == LET g == Gcd(n, d) IN [num |-> n \div g, den |-> d \div g]

IntRat(n) == [num |-> n, den |-> 1]

\* (a * ka + b * kb) / (ka + kb): the weighted-average formula the code uses
\* for every average it keeps, evaluated exactly
WeightedMerge(a, ka, b, kb) ==
  Rat(a.num * ka * b.den + b.num * kb * a.den, a.den * b.den * (ka + kb))

\* r * k = n
RatTimesIs(r, k, n) == r.num * k = n * r.den

EmptyMap == [x \in {} |-> 0]

-----------------------------------------------------------------------------
(* Formatted trace lines, abstracted to the pattern they match.            *)

Line(k, t, fn, s) == [kind |-> k, t |-> t, fn |-> fn, sub |-> s]

-----------------------------------------------------------------------------
(* The parser of trcperfreport.go.                                          *)

NewSubCtx == [startTime |-> 0, numCalls |-> 0, totalTime |-> 0]
NewSubData == [avgNumCalls |-> IntRat(0), totalTime |-> 0]

NewContext ==
  [state |-> "None", currEntryTime |-> 0, currFunc |-> NoFunc,
   firstTime |-> 0, lastTime |-> 0, totalEngineTime |-> 0,
   funcData |-> EmptyMap, subFuncContext |-> EmptyMap]

\* trackSpecialFunctions: a TTS_Start/TTS_Stop eye-catcher inside a call;
\* a start while started and a stop while not started are reported and
\* ignored
TrackSpecialFunctions(c, l) ==
  IF l.kind \notin {"start", "stop"} THEN c
  ELSE
    LET sc == IF l.sub \in DOMAIN c.subFuncContext THEN c.subFuncContext
              ELSE (l.sub :> NewSubCtx) @@ c.subFuncContext
        s  == sc[l.sub]
        s2 == CASE l.kind = "start" /\ s.startTime # 0 -> s
                [] l.kind = "start"  -> [s EXCEPT !.startTime = l.t]
                [] s.startTime = 0   -> s
                [] OTHER -> [startTime |-> 0,
                             numCalls  |-> s.numCalls + 1,
                             totalTime |-> s.totalTime + (l.t - s.startTime)]
    IN [c EXCEPT !.subFuncContext = [sc EXCEPT ![l.sub] = s2]]

\* mutant: the old average is weighted with the count including this call
UpdateSpecialFunctionsOffByOne(f, sc) ==
  [f EXCEPT !.subFuncs =
     [s \in DOMAIN f.subFuncs \cup DOMAIN sc |->
        IF s \in DOMAIN sc
        THEN LET old == IF s \in DOMAIN f.subFuncs THEN f.subFuncs[s]
                        ELSE NewSubData
             IN [avgNumCalls |-> WeightedMerge(old.avgNumCalls, f.numCalls,
                                               IntRat(sc[s].numCalls), 1),
                 totalTime   |-> old.totalTime + sc[s].totalTime]
        ELSE f.subFuncs[s]]]

\* updateSpecialFunctions: fold the sub-function timers of the call that
\* just closed into the function's statistics
UpdateSpecialFunctions(f, sc) ==
  [f EXCEPT !.subFuncs =
     [s \in DOMAIN f.subFuncs \cup DOMAIN sc |->
        IF s \in DOMAIN sc
        THEN LET old == IF s \in DOMAIN f.subFuncs THEN f.subFuncs[s]
                        ELSE NewSubData
             IN [avgNumCalls |-> WeightedMerge(old.avgNumCalls, f.numCalls - 1,
                                               IntRat(sc[s].numCalls), 1),
                 totalTime   |-> old.totalTime + sc[s].totalTime]
        ELSE f.subFuncs[s]]]

\* mutant: the average is weighted with the count after the increment
RecordCallAvgAfterIncrement(f, d) ==
  [f EXCEPT !.totalTime       = @ + d,
            !.avgDuration     = WeightedMerge(@, f.numCalls + 1, IntRat(d), 1),
            !.numCalls        = @ + 1,
            !.fastestDuration = IF @ = 0 \/ d < @ THEN d ELSE @,
            !.longestDuration = IF @ = 0 \/ d > @ THEN d ELSE @]

\* a further call of a known function
RecordCall(f, d) ==
  [f EXCEPT !.totalTime       = @ + d,
            !.avgDuration     = WeightedMerge(@, f.numCalls, IntRat(d), 1),
            !.numCalls        = @ + 1,
            !.fastestDuration = IF @ = 0 \/ d < @ THEN d ELSE @,
            !.longestDuration = IF @ = 0 \/ d > @ THEN d ELSE @]

\* the first call of a function: the literal leaves longestDuration zero
FirstCall(d) ==
  [numCalls |-> 1, totalTime |-> d, avgDuration |-> IntRat(d),
   fastestDuration |-> d, longestDuration |-> 0, subFuncs |-> EmptyMap]

\* mutant: the duration is computed as entry minus exit
CloseCallSwappedDuration(c, exitTime) ==
  LET d  == c.currEntryTime - exitTime
      f  == IF c.currFunc \in DOMAIN c.funcData
            THEN RecordCall(c.funcData[c.currFunc], d)
            ELSE FirstCall(d)
  IN [c EXCEPT !.funcData        = (c.currFunc :> UpdateSpecialFunctions(f, c.subFuncContext)) @@ @,
               !.subFuncContext  = [s \in DOMAIN @ |-> NewSubCtx],
               !.totalEngineTime = @ + d,
               !.currEntryTime   = 0,
               !.currFunc        = NoFunc,
               !.state           = "None",
               !.lastTime        = exitTime]

\* the exitTime branch of parseTraceLine
CloseCall(c, exitTime) ==
  LET d  == exitTime - c.currEntryTime
      f  == IF c.currFunc \in DOMAIN c.funcData
            THEN RecordCall(c.funcData[c.currFunc], d)
            ELSE FirstCall(d)
  IN [c EXCEPT !.funcData        = (c.currFunc :> UpdateSpecialFunctions(f, c.subFuncContext)) @@ @,
               !.subFuncContext  = [s \in DOMAIN @ |-> NewSubCtx],
               !.totalEngineTime = @ + d,
               !.currEntryTime   = 0,
               !.currFunc        = NoFunc,
               !.state           = "None",
               !.lastTime        = exitTime]

\* the lines on which parseTraceLine calls log.Fatalf
IsFatal(c, l) ==
  \/ c.state = "FoundEntry" /\ l.kind # "name"
  \/ c.state = "InEngineFunc" /\ l.kind = "badtts"

\* parseTraceLine on a line that is not fatal
ParseTraceLine(c, l) ==
  CASE c.state = "None" ->
         IF l.kind = "entry"
         THEN [c EXCEPT !.currEntryTime = l.t, !.state = "FoundEntry",
                        !.firstTime = IF @ = 0 THEN l.t ELSE @]
         ELSE c
    [] c.state = "FoundEntry" ->
         [c EXCEPT !.currFunc = l.fn, !.state = "InEngineFunc"]
    [] OTHER ->
         LET c1 == TrackSpecialFunctions(c, l)
         IN IF l.kind = "exit" THEN CloseCall(c1, l.t) ELSE c1

\* the loop body of parseTraceFile reading line l
ReadLine(l) ==
  /\ IF IsFatal(context, l)
     THEN /\ phase' = "fatal" /\ UNCHANGED context
     ELSE /\ context' = ParseTraceLine(context, l) /\ UNCHANGED phase
  /\ UNCHANGED <<cur, threadData, allFuncs, mergeLeft, ranked, rankedAll, parsed>>

-----------------------------------------------------------------------------
(* Whole-program merge and ranking (printPerfReport, sortTotalTime).       *)

NewFuncData ==
  [numCalls |-> 0, totalTime |-> 0, avgDuration |-> IntRat(0),
   fastestDuration |-> 0, longestDuration |-> 0, subFuncs |-> EmptyMap]

\* the sub-function loop of printPerfReport for one function of one thread
MergeSubFuncs(a, t) ==
  [s \in DOMAIN a.subFuncs \cup DOMAIN t.subFuncs |->
     IF s \in DOMAIN t.subFuncs
     THEN LET o == IF s \in DOMAIN a.subFuncs THEN a.subFuncs[s] ELSE NewSubData
          IN [avgNumCalls |-> WeightedMerge(o.avgNumCalls, a.numCalls,
                                            t.subFuncs[s].avgNumCalls, t.numCalls),
              totalTime   |-> o.totalTime + t.subFuncs[s].totalTime]
     ELSE a.subFuncs[s]]

\* mutant: the call counts are added before the average is weighted
MergeFuncDataCountFirst(a, t) ==
  [numCalls        |-> a.numCalls + t.numCalls,
   totalTime       |-> a.totalTime + t.totalTime,
   avgDuration     |-> WeightedMerge(a.avgDuration, a.numCalls + t.numCalls,
                                     t.avgDuration, t.numCalls),
   fastestDuration |-> IF a.fastestDuration = 0 \/ t.fastestDuration < a.fastestDuration
                       THEN t.fastestDuration ELSE a.fastestDuration,
   longestDuration |-> IF a.longestDuration = 0 \/ t.longestDuration > a.longestDuration
                       THEN t.longestDuration ELSE a.longestDuration,
   subFuncs        |-> MergeSubFuncs(a, t)]

\* one function of one thread merged into the whole-program data
MergeFuncData(a, t) ==
  [numCalls        |-> a.numCalls + t.numCalls,
   totalTime       |-> a.totalTime + t.totalTime,
   avgDuration     |-> WeightedMerge(a.avgDuration, a.numCalls,
                                     t.avgDuration, t.numCalls),
   fastestDuration |-> IF a.fastestDuration = 0 \/ t.fastestDuration < a.fastestDuration
                       THEN t.fastestDuration ELSE a.fastestDuration,
   longestDuration |-> IF a.longestDuration = 0 \/ t.longestDuration > a.longestDuration
                       THEN t.longestDuration ELSE a.longestDuration,
   subFuncs        |-> MergeSubFuncs(a, t)]

\* the loop of printPerfReport over the functions of thread data td
MergeThreadFuncs(all, td) ==
  [fn \in DOMAIN all \cup DOMAIN td |->
     IF fn \in DOMAIN td
     THEN MergeFuncData(IF fn \in DOMAIN all THEN all[fn] ELSE NewFuncData, td[fn])
     ELSE all[fn]]

\* mutant: the name is inserted one place after the first smaller total
SortTotalTimeInsertAfter(order, fd) ==
  LET Insert(r, fn) ==
        LET below == {i \in 1..Len(r) : fd[fn].totalTime > fd[r[i]].totalTime}
        IN IF below = {} THEN Append(r, fn) ELSE InsertAt(r, Min(below) + 1, fn)
  IN FoldLeft(Insert, <<>>, order)

\* sortTotalTime visiting the map's keys in the order "order": each name is
\* inserted before the first ranked name with a strictly smaller total
SortTotalTime(order, fd) ==
  LET Insert(r, fn) ==
        LET below == {i \in 1..Len(r) : fd[fn].totalTime > fd[r[i]].totalTime}
        IN IF below = {} THEN Append(r, fn) ELSE InsertAt(r, Min(below), fn)
  IN FoldLeft(Insert, <<>>, order)

\* the rankings sortTotalTime can return for map fd
Rankings(fd) == {SortTotalTime(o, fd) : o \in SetToSeqs(DOMAIN fd)}

-----------------------------------------------------------------------------
(* The traced thread.  It runs non-nested engine calls; inside a call it   *)
(* runs non-nested sub-functions.  A call may return between a sub-        *)
(* function's TTS_Start and TTS_Stop (an exit path that misses the stop    *)
(* eye-catcher): that sub-call never completes.                            *)

Zeros == [s \in Subs |-> 0]

GenIdle ==
  [inCall |-> FALSE, fn |-> NoFunc, traced |-> FALSE, entry |-> 0,
   pending |-> FALSE, open |-> {}, start |-> Zeros, n |-> Zeros, t |-> Zeros]

\* the states a history buffer can start in: between calls, or inside a
\* call (and sub-functions) whose entry was overwritten
GenStarts ==
  {GenIdle} \cup
  {[GenIdle EXCEPT !.inCall = TRUE, !.fn = fn, !.open = o] :
     fn \in Funcs, o \in SUBSET Subs}

\* a timed line of the current file carries cycle count t
Tick(t) == /\ t \in clock + 1 .. MaxTime
           /\ clock' = t

Parsing == phase = "parse" /\ gen.pending = FALSE

TraceEntry(fn, t) ==
  /\ Parsing /\ ~gen.inCall
  /\ Tick(t)
  /\ gen' = [GenIdle EXCEPT !.inCall = TRUE, !.fn = fn, !.traced = TRUE,
                            !.entry = t, !.pending = TRUE]
  /\ ReadLine(Line("entry", t, NoFunc, NoSub))
  /\ UNCHANGED <<others, calls>>

\* the structural line after the entryTime line names the function
TraceFuncName ==
  /\ phase = "parse" /\ gen.pending
  /\ gen' = [gen EXCEPT !.pending = FALSE]
  /\ ReadLine(Line("name", 0, gen.fn, NoSub))
  /\ UNCHANGED <<clock, others, calls>>

TraceSubStart(s, t) ==
  /\ Parsing /\ gen.inCall /\ s \notin gen.open
  /\ Tick(t)
  /\ gen' = [gen EXCEPT !.open = @ \cup {s}, !.start[s] = t]
  /\ ReadLine(Line("start", t, NoFunc, s))
  /\ UNCHANGED <<others, calls>>

TraceSubStop(s, t) ==
  /\ Parsing /\ s \in gen.open
  /\ Tick(t)
  /\ gen' = [gen EXCEPT !.open = @ \ {s}, !.n[s] = @ + 1,
                        !.t[s] = @ + (t - gen.start[s])]
  /\ ReadLine(Line("stop", t, NoFunc, s))
  /\ UNCHANGED <<others, calls>>

\* an anomaly (spec: reported and ignored): a Start of a sub-function
\* already started, or a Stop of one not started; it shares the budget
\* of odd lines
TraceSubAnomaly(s, t) ==
  /\ Parsing /\ gen.inCall /\ others < MaxOther
  /\ Tick(t) /\ others' = others + 1
  /\ ReadLine(Line(IF s \in gen.open THEN "start" ELSE "stop", t, NoFunc, s))
  /\ UNCHANGED <<gen, calls>>

TraceExit(t) ==
  /\ Parsing /\ gen.inCall
  /\ Tick(t)
  /\ gen' = GenIdle
  /\ calls' = IF gen.traced
              THEN [calls EXCEPT ![Argv[cur]] = Append(@,
                      [fn |-> gen.fn, dur |-> t - gen.entry,
                       n |-> gen.n, t |-> gen.t])]
              ELSE calls
  /\ ReadLine(Line("exit", t, NoFunc, NoSub))
  /\ UNCHANGED others

\* a line matching no pattern (e.g. an unresolved trace point), or a TTS
\* eye-catcher that is neither Start nor Stop
TraceOther(k) ==
  /\ phase = "parse" /\ others < MaxOther
  /\ others' = others + 1
  /\ ReadLine(Line(k, 0, NoFunc, NoSub))
  /\ UNCHANGED <<gen, clock, calls>>

-----------------------------------------------------------------------------
(* The program.                                                            *)

\* parseTraceFile: os.OpenFile succeeds; a fresh threadContext
OpenTraceFile ==
  /\ phase = "open"
  /\ phase' = "parse"
  /\ context' = NewContext
  /\ gen' \in GenStarts
  /\ clock' = 0 /\ others' = 0
  /\ UNCHANGED <<cur, threadData, allFuncs, mergeLeft, ranked, rankedAll,
                 calls, parsed>>

\* the next file of os.Args, or the report once all are read
NextFile ==
  IF cur < Len(Argv)
  THEN /\ cur' = cur + 1 /\ phase' = "open"
       /\ UNCHANGED mergeLeft
  ELSE /\ phase' = "merge" /\ UNCHANGED cur
       /\ mergeLeft' = DOMAIN threadData'

\* parseTraceFile: "Error opening infile", returns false; main goes on
OpenTraceFileFails ==
  /\ phase = "open"
  /\ UNCHANGED <<context, threadData, allFuncs, ranked, rankedAll, gen,
                 clock, others, calls, parsed>>
  /\ NextFile

\* io.EOF: data.threadData[shortFileName] = &context
EndOfTraceFile ==
  /\ phase = "parse"
  /\ threadData' = (BaseName[Argv[cur]] :> context) @@ threadData
  /\ parsed' = parsed \cup {Argv[cur]}
  /\ UNCHANGED <<context, allFuncs, ranked, rankedAll, gen, clock, others,
                 calls>>
  /\ NextFile

\* one iteration of printPerfReport's loop over data.threadData, whose
\* order Go leaves unspecified
MergeThread(b) ==
  /\ phase = "merge" /\ b \in mergeLeft
  /\ allFuncs' = MergeThreadFuncs(allFuncs, threadData[b].funcData)
  /\ mergeLeft' = mergeLeft \ {b}
  /\ UNCHANGED <<phase, cur, context, threadData, ranked, rankedAll, gen,
                 clock, others, calls, parsed>>

\* the printing part of printPerfReport: each thread's functions and then
\* the whole program's, ranked by sortTotalTime
PrintPerfReport ==
  /\ phase = "merge" /\ mergeLeft = {}
  /\ ranked' \in {r \in [DOMAIN threadData ->
                          UNION {Rankings(threadData[b].funcData) : b \in DOMAIN threadData}] :
                    \A b \in DOMAIN threadData : r[b] \in Rankings(threadData[b].funcData)}
  /\ rankedAll' \in Rankings(allFuncs)
  /\ phase' = "done"
  /\ UNCHANGED <<cur, context, threadData, allFuncs, mergeLeft, gen, clock,
                 others, calls, parsed>>

Init ==
  /\ phase = "open" /\ cur = 1
  /\ context = NewContext
  /\ threadData = EmptyMap /\ allFuncs = EmptyMap /\ mergeLeft = {}
  /\ ranked = EmptyMap /\ rankedAll = <<>>
  /\ gen = GenIdle /\ clock = 0 /\ others = 0
  /\ calls = [f \in Files |-> <<>>]
  /\ parsed = {}

Next ==
  \/ OpenTraceFile
  \/ OpenTraceFileFails
  \/ \E fn \in Funcs, t \in 1..MaxTime : TraceEntry(fn, t)
  \/ TraceFuncName
  \/ \E s \in Subs, t \in 1..MaxTime :
       TraceSubStart(s, t) \/ TraceSubStop(s, t) \/ TraceSubAnomaly(s, t)
  \/ \E t \in 1..MaxTime : TraceExit(t)
  \/ \E k \in {"other", "badtts"} : TraceOther(k)
  \/ EndOfTraceFile
  \/ \E b \in DOMAIN threadData : MergeThread(b)
  \/ PrintPerfReport

Spec == Init /\ [][Next]_vars

-----------------------------------------------------------------------------
(* Properties.                                                             *)

IsRat(r) == r \in [num : Nat, den : Nat \ {0}]
\* m is a Go map with keys in K and values satisfying P
IsMap(m, K, P(_)) == DOMAIN m \subseteq K /\ \A k \in DOMAIN m : P(m[k])
IsFuncData(f) ==
  /\ DOMAIN f = {"numCalls", "totalTime", "avgDuration", "fastestDuration",
                 "longestDuration", "subFuncs"}
  /\ {f.numCalls, f.totalTime, f.fastestDuration, f.longestDuration} \subseteq Nat
  /\ IsRat(f.avgDuration)
  /\ IsMap(f.subFuncs, Subs, LAMBDA d : IsRat(d.avgNumCalls) /\ d.totalTime \in Nat)

TypeOK ==
  /\ phase \in {"open", "parse", "merge", "done", "fatal"}
  /\ cur \in 1..Len(Argv)
  /\ context.state \in {"None", "FoundEntry", "InEngineFunc"}
  /\ context.currFunc \in Funcs \cup {NoFunc}
  /\ IsMap(context.funcData, Funcs, IsFuncData)
  /\ IsMap(context.subFuncContext, Subs,
           LAMBDA c : {c.startTime, c.numCalls, c.totalTime} \subseteq Nat)
  /\ {context.currEntryTime, context.firstTime, context.lastTime,
      context.totalEngineTime} \subseteq Nat
  /\ IsMap(allFuncs, Funcs, IsFuncData)
  /\ mergeLeft \subseteq DOMAIN threadData
  /\ parsed \subseteq Files

\* the calls of function fn in a sequence of completed calls
CallsOf(cs, fn) == SelectSeq(cs, LAMBDA c : c.fn = fn)
SumOf(cs, F(_)) == FoldLeft(LAMBDA a, c : a + F(c), 0, cs)
Durations(cs) == {cs[i].dur : i \in DOMAIN cs}

\* Per thread, parseTraceLine's statistics of every function agree with the
\* calls the thread completed inside the trace: the call count, the total,
\* the running float average times the count, and the fastest call.  This
\* is about the interplay of the three-state parser (entry, name line,
\* exit), history buffers that begin or end inside a call, and the
\* "zero means unset" convention of fastestDuration.
FunctionStatsMatchCalls ==
  phase = "parse" =>
    \A fn \in Funcs :
      LET mine == CallsOf(calls[Argv[cur]], fn)
          f    == context.funcData[fn]
      IN /\ (fn \in DOMAIN context.funcData) = (mine # <<>>)
         /\ fn \in DOMAIN context.funcData =>
              /\ f.numCalls = Len(mine)
              /\ f.totalTime = SumOf(mine, LAMBDA c : c.dur)
              /\ RatTimesIs(f.avgDuration, Len(mine), SumOf(mine, LAMBDA c : c.dur))
              /\ f.fastestDuration = Min(Durations(mine))

\* Per thread, every function's sub-function statistics agree with the
\* sub-function calls made inside its calls: average calls per outer call
\* times the outer call count is the number of sub-calls, and the total
\* time is their total.  trackSpecialFunctions keeps per-thread timers
\* across lines and updateSpecialFunctions folds and resets them at each
\* exit, over every sub-function the thread has ever seen.
SubFuncStatsMatchCalls ==
  phase = "parse" =>
    \A fn \in DOMAIN context.funcData, s \in Subs :
      LET mine == CallsOf(calls[Argv[cur]], fn)
          f    == context.funcData[fn]
          n    == SumOf(mine, LAMBDA c : c.n[s])
          t    == SumOf(mine, LAMBDA c : c.t[s])
      IN IF s \in DOMAIN f.subFuncs
         THEN /\ RatTimesIs(f.subFuncs[s].avgNumCalls, f.numCalls, n)
              /\ f.subFuncs[s].totalTime = t
         ELSE n = 0 /\ t = 0

\* Per thread, longestDuration is the longest call of the function (the
\* spec: fastest/longest with the initial-zero-means-unset convention).
LongestDurationIsMax ==
  phase = "parse" =>
    \A fn \in DOMAIN context.funcData :
      context.funcData[fn].longestDuration =
        Max(Durations(CallsOf(calls[Argv[cur]], fn)))

\* the calls of fn in every file whose data parseTraceFile stored
ProgramCalls(fn) ==
  UNION {{<<f, i>> : i \in {j \in DOMAIN calls[f] : calls[f][j].fn = fn}} :
           f \in parsed}
CallAt(p) == calls[p[1]][p[2]]

\* The whole-program statistics printPerfReport prints are those of all the
\* calls in all the trace files it parsed: counts and totals add up, the
\* merged average times the count is the total, the fastest call is the
\* fastest of all, and sub-function totals add up, whatever order Go's map
\* iteration merges the threads in.
WholeProgramStatsMatch ==
  phase = "done" =>
    \A fn \in Funcs :
      LET P == ProgramCalls(fn)
          a == allFuncs[fn]
          total == MapThenSumSet(LAMBDA p : CallAt(p).dur, P)
      IN /\ (fn \in DOMAIN allFuncs) = (P # {})
         /\ fn \in DOMAIN allFuncs =>
              /\ a.numCalls = Cardinality(P)
              /\ a.totalTime = total
              /\ RatTimesIs(a.avgDuration, Cardinality(P), total)
              /\ a.fastestDuration = Min({CallAt(p).dur : p \in P})
              /\ \A s \in Subs :
                   (IF s \in DOMAIN a.subFuncs THEN a.subFuncs[s].totalTime ELSE 0)
                     = MapThenSumSet(LAMBDA p : CallAt(p).t[s], P)

\* The merged sub-function average (spec: merged with call-count weights,
\* consistent with the underlying totals) times the merged call count is
\* the number of sub-function calls in all threads.
MergedSubFuncAvgConsistent ==
  phase = "done" =>
    \A fn \in DOMAIN allFuncs, s \in Subs :
      s \in DOMAIN allFuncs[fn].subFuncs =>
        RatTimesIs(allFuncs[fn].subFuncs[s].avgNumCalls, allFuncs[fn].numCalls,
                   MapThenSumSet(LAMBDA p : CallAt(p).n[s], ProgramCalls(fn)))

\* r lists exactly the keys of fd, by non-increasing total time
RankedBy(r, fd) ==
  /\ IsInjective(r) /\ ToSet(r) = DOMAIN fd
  /\ \A i \in 1..Len(r) - 1 : fd[r[i]].totalTime >= fd[r[i + 1]].totalTime

\* Every ranking sortTotalTime returns, for every thread and for the whole
\* program and whatever the map iteration order, lists each function once
\* in non-increasing order of total time.
RankedByTotalTime ==
  phase = "done" =>
    /\ \A b \in DOMAIN threadData : RankedBy(ranked[b], threadData[b].funcData)
    /\ RankedBy(rankedAll, allFuncs)

=============================================================================
