# TLA+ models of the trace history tools and the unit test looper

These are TLA+ models of the Go tools under `src/server_engine/`: the tools
that decode and analyse the engine's per-thread trace history, the trcfmt
indenter, the addbufval source rewriter, and the unit test looper. They are checked with TLC.

## The system

Two tools live in `src/server_engine/tracehistorybuffer/`. Both are sequential
batch programs.

`trchistfmt.go` is the trace formatter. It has these parts:

- **Source Catalog Builder.** `parseSourceDir`, `parseSourceFile`,
  `parseSourceLine` and `getFuncName` walk the `-s` directories. They find the
  `ieutTRACE…` statements and assign each one an identifier:
  `md5(base name)[0:4] << 32 | line`. The result is the `TracePoints`
  catalog: identifier → file, line, function and value label.
- **Column Width Calculator.** `setColumnWidths` computes the padding of the
  output columns.
- **Text Decoder.** `parseTraceFile` and `parseThreadData` read a
  `NEWTHREAD(-status): addr` / `TP[addr, n]: ident value` /
  `ENDTHREAD: addr` stream from a file (`-t`) or standard input. They write one
  `<file>[_status]<n>.fmt` per thread section that holds a TP line.
- **Raw Decoder.** `parseRawTraceDir`, `rawTraceDirWalkVisit` and
  `parseRawConcatTraceFile` read binary snapshots of the circular history
  buffer. The file name is
  `thread_<addr>_<status>_<bufCurPos>_<bufSize>.rawconcattrc`. The decoder
  puts the slots back in write order and writes `fromRaw_<status><n>.fmt`.
- **Renderer.** `outputTracePoint` is shared by both decoders. It keeps a
  per-thread `TraceParseContext`: the function in progress, entry cycles and
  last exit cycles. It annotates exits with "took" and entries with "delay".
  When `-b` gives a base time, it stamps entries and exits with
  `BaseTime + (cycles − LowCycles)·CyclesToNanos`. `main` then runs every
  decoder twice. A measurement pass (`findLowCycles`) finds `LowCycles`, the
  lowest entry or exit cycle count of all threads, and a render pass writes
  the files.

`trcperfreport.go` is the **Performance Analyzer**. It reads formatted trace
files and runs a per-thread state machine: `None → FoundEntry →
InEngineFunc`. Per function, it counts calls, total time, a running average,
and the fastest and longest call. It tracks `TTS_Start`/`TTS_Stop`
eye-catchers as sub-functions. `printPerfReport` then merges all threads into
whole-program statistics, with call-count-weighted averages, and ranks
functions by total time (`sortTotalTime`).

`play/trcfmt/trcfmt.go` indents ISM trace files by call depth per thread.

`play/addbufval.go` rewrites C sources. Each argument is copied to
`/tmp/parsed/<file>`. A one-line `ieutTRACEL(pThreadData, ..., __func__,
v...)` call becomes `ieutTRACEL_BV(pThreadData,v, ..., __func__,v...)`, via
one regular expression and one `Sprintf`. It is sequential, and it panics on
a read or write error.

`UnitTestLooper/src/unittestlooper.go` is the **unit test looper**. It
endlessly builds the product and runs the unit tests:
- **Setup.** `processFlags` checks the command line. `main` makes the test
  root and the initialisation log, and `setupEnv` sets up the environment.
- **Modes and log.** Each build picks an ASAN and an async mode (fixed by
  `-m`/`-a` or random). That sets `testLoops` (15, 7, or 1 for disk
  persistence) and opens the `<first>-<last>_looperlog` file.
- **Build loop.** `clearDownTrees`, then `getSource` (a git clone, or an RTC
  login/create/load/delete/logout sequence), then `buildProduct`. A failure
  is retried after 15 minutes. A build failure, and every fifth source
  failure, is emailed.
- **Test loop.** `testLoops` runs of `runTests` with a `cleanupTests` around
  them, each followed by a core-file check. A status email goes out at run
  20 and every 150th run, and stays due while it cannot be sent.
- **dieError.** When `EMAIL_ON_FAILURE` is set, it emails the failure,
  retrying every 5 minutes until the email goes out, and then calls
  `os.Exit(10)`.
- **RunCommand.** Every external command goes through `RunCommand`. It
  starts the child and arms a `time.AfterFunc` timer. The timer's goroutine
  sets `timedOut` and kills the child. Meanwhile the caller waits, stops the
  timer and checks `timedOut`. This is the one place in the repository where
  goroutines run concurrently.

Apart from RunCommand, nothing runs concurrently. The behaviours that are
hard to test come from other sources:
- **Map order.** Go's map iteration order is unspecified, and it decides the
  merge and the ranking.
- **Input content.** The input can be any trace a thread can produce.
- **Passes and ordering.** This covers the two passes over the same input, the
  rotation of a ring buffer, and file names assembled from counters.
- **Error paths.** `log.Fatalf` leaves the program half done.

## Modules

| Module | Models | State ↔ code |
|---|---|---|
| `TrcPerfReport` | trcperfreport.go, whole file | See below. |
| `TraceRender` | `outputTracePoint` and `TraceParseContext` | See below. |
| `TrcHistText` | main's text branch, `parseTraceFile`, `parseThreadData` | See below. |
| `TrcHistRaw` | main's `-r` branch, `parseRawTraceDir`, `rawTraceDirWalkVisit`, `parseRawConcatTraceFile` | See below. |
| `SourceCatalog` | `parseSourceFile`, `parseSourceLine`, `getFuncName` | See below. |
| `TrcFmtLines` | the line format of `play/trcfmt/trcfmt.go`, plus the reference indentation | Constants and operators only. |
| `TrcFmtFiles` | what trcfmt promises, one whole argument at a time | The abstract specification. |
| `TrcFmt` | all of `play/trcfmt/trcfmt.go` | See below. |
| `AddBufVal` | all of `play/addbufval.go` | See below. |
| `RunCommand` | `RunCommand` of the looper: child, timer goroutine, caller | See below. |
| `ColumnWidths` | `setColumnWidths`, and the column padding of `outputTracePoint` | See below. |
| `Looper` | the looper's `main`, `processFlags`, `getSource*`, `buildProduct`, `runTests`, `dieError`; extends `RunCommand` | See below. |

`TrcPerfReport` state and actions:
- `context` is the `threadContext`.
- `threadData` is `data.threadData`, keyed by base name.
- `allFuncs` is the merged map.
- `ranked` and `rankedAll` are the outputs of `sortTotalTime`.
- `ReadLine` is the loop body of `parseTraceFile`, with all of
  `parseTraceLine` in it.
- `MergeThread(b)` is one iteration of the merge loop. Picking `b` freely
  models the map order.
- An environment generator (`Trace*` actions) produces the lines a traced
  thread writes, and records the calls it made in the history `calls`.
  `TraceSubAnomaly` writes a `TTS_Start` for a sub-function already started
  or a `TTS_Stop` for one not started. The traced thread's calls are left
  as they were, because the spec says such markers are ignored.
- `OpenTraceFileFails` is a file that cannot be opened. It is printed and
  skipped (`trcperfreport.go:311`).

`TraceRender` is a pure operator. It takes (context, LowCycles, ident, value,
findLow) and returns the new context, the new LowCycles and the output line.
`RefRender` is the reference: it states the same output declaratively over a
thread's whole event sequence.

`TrcHistText` state and actions:
- `stream` is the lines read so far. The dump writes them lazily (`Emit`).
- `sections` is the dumper's record of each thread's events.
- `pos` is the reader position.
- `mode` is outer loop or inside `parseThreadData`.
- `buf` is the bufio buffer and `disk` the files.
- `ReadLine` reads a line and runs the whole handler: `OuterNewThread`,
  `OuterSkip`, `ThreadEnd`, `ThreadTracePoint` or `ThreadSkip`.

`TrcHistRaw` state and actions:
- `snaps` is the snapshot files. Each one is built from its entries in write
  order (`chrono`) by the engine's round-robin write (`RingSlots`).
- `ParseRawConcatTraceFile` is one whole call: placement, then the output loop
  folded over `OutputTracePoint`.
- `StartRawTraceDir` is the reset of `RawWalkThreadNum`.

`SourceCatalog` state and actions:
- `src` is one C source file, generated from a small grammar of the engine's
  layouts. Signatures are on one line or split after the return type. Braces
  sit on the signature line or the next. A statement is plain, an
  `ieutTRACEL`, an `ieutTRACEL` continued on the next line, or either of
  those guarded by `if (...) { ... }` on the same line. Each line is a record
  of what `parseSourceLine` reads from it: its words, its brace counts, and
  whether it has `(`, `ieutTRACE` and `;`. `prog` and the line `tag` are
  ghosts naming the function and statement a line belongs to.
- `depth`, `curFunc` and `incomplete` are `CurlyDepth`, `CurrentFunction`
  and `incompleteStatement`. `catalog` is the file's `TracePoints`, keyed by
  line, because the md5 part of the identifier is the same for the whole file.
- `ReadSourceLine` is one loop iteration. It joins the line to an incomplete
  statement (`Concat`), runs `ParseSourceLine`, and catalogues the result; a
  negative depth is `log.Fatalf`. `EndOfSourceFile` is `io.EOF`.

`TrcFmt` state and actions:
- `indents` is `threadIndents`, `buf` the bufio writer's lines, and `disk`
  the `.fmt` files.
- `reports` is the final loop's per-thread verdict: "processed" or
  "mismatched".
- `content` is a ghost holding the lines read from each argument. The lines
  are chosen as they are read, up to `MaxLines` over the whole run.
- `OpenFails` covers both `return false` paths. `OpenTraceFile` covers both
  opens, the truncation and the new map. `ReadTraceLine` is one iteration of
  the read loop, with all of `itfParseISMTraceLine` and `itfFormatTraceLine`.
  `EndOfTraceFile` is the report, the deferred Flush, and the step on to the
  next argument. `TraceFilePanics` is the `panic` on a read error
  (`trcfmt.go:136`) or a write error (`:100`). The deferred Flush runs, so
  the `.fmt` file keeps some prefix of its buffered lines, and the program
  stops at `"panicked"`.
- `RefFormat` and `RefReport` in `TrcFmtLines` state the promise: a line is
  indented by 3 spaces per call its own thread has open. They use a
  RECURSIVE `Depth` over the lines read, not the map.
- `TrcFmtFiles` processes one argument per step. `TrcFmt` implements it under
  a refinement mapping: `done` is `Len(results)`, `read` is the content of
  the finished arguments, and `disk` hides the file being written. Its
  `PanicArg` step reads one more argument, leaves a prefix of its formatted
  output on disk, and halts the specification. After a panic, `read` maps
  to the content of every argument read, the failed one included.

`RunCommand` state and actions:
- `proc` and `exitOk` are the child process and its exit status.
- `timer` is the `time.Timer`. `tfunc` is where its AfterFunc goroutine is:
  started, `timedOut = true` done, then `Kill` done.
- `rc` is where the caller is: waiting in `cmd.Wait`, about to call
  `timer.Stop`, or about to check `timedOut`. `rcErr` is the error it will
  return.
- Each goroutine's step is an action of its own, so TLC interleaves them in
  every order. `late` is a ghost: the timer fired while the child was still
  running.
- `holder` is a process the child started that still holds the log pipes.
  With a log file, `cmd.Stdout` and `cmd.Stderr` are `io.MultiWriter`s, so
  `exec` copies through pipes, and `cmd.Wait` (`:732`) returns only when
  every writer of the pipes has closed them. `StartCommand(withLog)` may
  create a holder. `Kill` (`:730`) signals the direct child only, so it
  leaves the holder alone. `HolderExits` ends it, and `WaitReturns` needs
  no holder.

`ColumnWidths` state and actions:
- `tracePoints` is `traceContext.TracePoints` as the catalog left it. It
  holds at most one entry per identifier, which is the base name and the line.
- `widths` is `ColumnWidths`, and `todo` holds the entries the `range` has
  not yet visited.
- `Init` is the reset to 0. `Visit(v)` is one iteration of the loop, with
  `v` any unvisited entry, because Go ranges over a map in random order.
- `Cells` is the `%*s:%-*v %*s` prefix of the two `Sprintf`s, with the
  value or `""`. `Decimal` is `FormatUint`, and `Base` is `filepath.Base`.

`Looper` state and actions:
- `phase` is where `main` is, and `cmd` the command it is running.
- `run`, `attempt`, `i` and `statusDue` are `totalRunNumber`,
  `buildAttempt`, the loop's `i` and `statusEmailDue`. `logRange` is the
  name of the current looperlog.
- `statusSent` is a ghost recording the status emails that went out.
- `loggedIn` and `wsLive` are ghosts. They record an open RTC login and a
  workspace created by `getSourceRTC` that is not yet deleted. The
  `LoginDone`, `CreateDone`, `DeleteDone` and `LogoutDone` actions set them.
- Each action runs from one RunCommand's return to the start of the next.
  For example, `LoadDone` sets `err` from the load and issues the workspace
  delete or the logout. `Issue` includes the log-file and `cmd.Start`
  failures, which call `dieError`.
- `Setup` covers the directories, the initialisation log and `setupEnv`.
  `SetupEnvOk` is `setupEnv`'s own condition: every `os.Setenv` succeeds,
  and with `-rtc` both `RTC_PASSWORD` and `RTC_USER` are set. Any failure
  goes to `dieError`.
- Every command's exit status, file operation and email outcome is chosen
  nondeterministically. An email is sent, not sent, or panics (`c.Data`
  failed and `doc.WriteTo` is given a nil writer).

`AddBufVal` state and actions:
- `arg` is main's `i`, and `mode` says whether main is between files,
  reading one, or has ended or panicked.
- `buf` is the `bufio.Writer` and `disk` the files under `/tmp/parsed`.
  `content` is a ghost holding each argument's lines.
- `OpenFails` covers either open failing. `OpenSourceFile` truncates the
  output.
- `ReadSourceLine` is one loop iteration, with all of `parseSourceLine` in
  it. `ReadFails` is the panic, and it runs the deferred `Flush`.
  `EndOfSourceFile` is `io.EOF`.
- `ParseSourceLine` is the regular expression and the `Sprintf`. A line is a
  sequence of characters, and the three literal words are single tokens.
  `Splits` lists every way the five groups can match. `FirstSplit` takes the
  one Go's leftmost-first matcher returns, which is the lexicographically
  greatest, because every quantifier is greedy. `RefLine` is the reference:
  the call as `ieutTRACEL_BV` takes it, built from the call's own parts.

Each model abstracts the data.
- **Lines and names.** Lines are records, and file names are (status, number)
  pairs.
- **Averages.** float64 averages are exact rationals.
- **Cycle counts.** They are multiples of 3700. This makes the float
  conversion `uint64(float64(d)/(2.9·1000))` equal to floor division; at
  exact multiples of 2900 the float product can round down.
- **Left out.** Millisecond figures and the volatile marker do not appear in
  the models. Column layout appears only in `ColumnWidths`.

`log.Fatalf` is the terminal phase `"fatal"`.

## Runs

| Run | Expect | Shows |
|---|---|---|
| perf_stats | pass | The statistics match the calls made; the ranking is by total time. |
| perf_subavg | violation | The merged sub-function average call count ignores threads that never called the sub-function, and depends on map order (`:416`). |
| text_render | pass | Every section is rendered as `RefRender` says, against the global lowest cycle count, in a file named by its status and sequence number. |
| text_flush | violation | A section without ENDTHREAD is fatal (spec 4.3 allows it), and `log.Fatalf` skips the deferred Flush, losing the buffered lines (`:313`). |
| raw_render | pass | Placement undoes the ring write for every size ≤ 3 and position. Every snapshot is rendered as the reference renderer says, against the lowest cycle count of all snapshots. |
| catalog | pass | Every trace statement is catalogued once, with its value and the function it is in. This covers plain, continued and brace-guarded statements. |
| catalog_braces | violation | A brace-guarded trace statement continued on the next line counts its `{` twice (`trchistfmt.go:549`, `:672`). The depth never returns to 0, and the next function's trace points are given the previous function's name. |
| trcfmt | pass | Each `.fmt` line is indented by its own thread's open calls. trcfmt implements `TrcFmtFiles`, with output and report a function of the text read, a panic part way through a file included. Under weak fairness every argument is processed, unless the program panics. |
| looper | pass | Each looperlog holds exactly the runs its name says. The first status email goes out once. On every path where `getSourceRTC` created a workspace or logged in, it attempts the delete and the logout before it returns; either may itself fail, and nothing retries it. Every RunCommand returns, a hung child included, unless a process the child started keeps the log pipes open for ever. |
| looper_timeout | violation | A command that exits 0 just as its timeout expires is reported "Timed out" (`unittestlooper.go:738`). For a test run, `dieError` then stops the looper. |
| addbufval | pass | Each output file holds its input with every one-line trace call rewritten, its value repeated after `pThreadData`, other lines unchanged. A file that fails to open leaves its output as it was. Every argument is processed. |
| columns | pass | In every range order over the catalog, `setColumnWidths` sizes the file, line and value columns so that every line `outputTracePoint` writes for a catalogued point has them aligned, and none is wider than its widest entry. |

Every property of a passing run has a mutant in `PROJECT.json`: a plausible
bug in the mapped code that TLC must catch. `PROJECT.json` also maps every
definition to its source lines and lists the hazards of the code.

## Bounds, and why they are enough

**perf_stats** has 2 files, 2 functions, 1 sub-function, 5 clock ticks and 1
junk line per file. That allows:
- two calls of one function in one thread, which the longest/fastest cases
  need;
- a function that ran with and without a sub-function;
- a tie in total time;
- the merge in both map orders.

**text_render** has 2 sections and 3 TP lines in total. It uses 6 identifiers:
0, an entry, an exit, a valued point, a point without a value, and one unknown
identifier. There are 3 ticks. That is enough for:
- entry–exit ("took");
- exit–entry ("delay");
- a baseline that comes from the second thread;
- a section with no TP line (no file, but its number is used);
- both passes.

**raw_render** allows buffers of size 1 to 3 at every position, filled with
empty slots, entries, exits and unknown identifiers. It has two snapshots in
one directory with the same status, so only the thread number tells their
files apart.

**catalog** allows files of one or two functions with distinct names. Each
function has one or two statements, of every layout and both value labels,
and its brace is on the signature line or the next. That is enough for:
- a trace point in the second function, after the first has closed;
- a continued statement followed by another statement;
- guarded statements next to unguarded ones.
`catalog_braces` adds the continued guarded layout. Split signatures are
left out of both runs, because with one `getFuncName` names the function
after `void)` (a hazard in `PROJECT.json`).

**trcfmt** has two arguments. Each may fail to open (input or output) or
be read, and the two files share 5 lines. The lines are of two named threads
or undated, with entry, exit or other statements. That is enough for:
- two threads with nested calls interleaved;
- an unmatched exit;
- an indent left open at the end of the first file and a second file after
  it, which the per-file reset must not carry over.

**addbufval** has two arguments, each of which may fail to open, and 3
lines in total. The lines are drawn from 21 call shapes and 2 other lines.
- A call may be indented or not. It has one or two format arguments, a value
  of one or two characters or none, and either `);` or more arguments after
  the value.
- One of the other lines has `pThreadData,` but no `ieutTRACEL`; the other
  is a `}`.
That is enough for:
- a later `, y` argument, which the greedy value group must not swallow;
- two calls in one file;
- a file read after a failed one;
- a panic part way through a file.

**columns** chooses the catalog from five candidate entries. That is
enough for:
- a base name of 3 and one of 4 characters;
- a short base name behind the longest path;
- lines of 1, 2 and 3 digits, 0 included;
- values of 0 to 2 characters;
- two paths with one base name and line, which are one map key.
Every catalog of distinct keys is checked, with every range order.

**looper** has four command lines:
- GHE with random modes;
- RTC creating a workspace, with fixed modes, a `cov` target and `-d`;
- RTC with an existing workspace and disk persistence;
- a refused `-w` with GHE.

`MaxRuns` = 22 takes the test loop past run 20, where the first status email
is due, and a failed send there can still be retried within the same build.
Every way of splitting runs 1–22 into builds of 15, 7 and 1 is reached.
`MaxAttempts` = 5 reaches the fifth source failure, which is emailed. The
timeout race needs only one command, so **looper_timeout** is bounded at 2
runs and 2 attempts.

## Fairness and termination

The decoders, the performance report and the catalog builder are checked
for safety only. Their cfgs say `CHECK_DEADLOCK FALSE`, because the program
really stops, at `"done"` or `"fatal"`.

`TrcFmt` states `WF_vars(Next)`. trcfmt is one sequential process, so it
takes its next step whenever it has one. The read loop ends at `io.EOF` of
a finite file. The line generator is bounded by `MaxLines`, and the end of
file is always enabled while reading. `AllArgsProcessed` checks that every
argument is processed and the program ends. The abstract `TrcFmtFiles!Spec`
is checked as a property: it is safety only, the argument-at-a-time steps.

`AddBufVal` states `WF_vars(Next)` on the same grounds: it is one
goroutine, each read returns, and the end of the file is always enabled.
`AllArgsParsed` checks that main goes through every argument unless a read
panics.

`Looper`'s spec has `RCFairness`: weak fairness on the timer firing, the
timer goroutine's two steps, and the caller's `Wait`, `Stop` and check. The
Go runtime fires a due timer and schedules every runnable goroutine. The
child's own exit gets no fairness, because a test may hang.
`CommandReturns` checks that every RunCommand still returns: the timer
kills a hung child. `HolderExits` gets no fairness, because nothing bounds
how long a grandchild of the command lives. `CommandReturns` therefore
exempts a behaviour in which a holder stays for ever. Stated without that
exemption, it is violated: after the timeout, `cmd.Wait` still blocks on the
pipes. This is a hazard in `PROJECT.json`. `main`'s own steps get no fairness, because the looper
is meant never to stop, and its mail retries may never succeed. The cfg
says `CHECK_DEADLOCK FALSE`, because the model stops at the `MaxRuns` and
`MaxAttempts` bounds and at exit.

## Not modelled, and the plan

- **Source Catalog Builder, partly.** The directory walk, the md5 file part
  of the identifier, comment removal and the value regexes are not
  modelled. Each line carries its value label. The identifier is anchored at
  the statement's last line, where spec property 4 says the first. No run
  checks the first-line claim, because the checks stop at 12 runs; it is a
  hazard in `PROJECT.json`.
- **Timestamp units.** `cyclesToNanos = 1/(GHz·1000)` (`trchistfmt.go:276`)
  converts cycles to microseconds, so the `[ns]` stamps are 1000 times too
  small. The models translate the factor as written. No run checks it,
  because the constant is visibly wrong and a run would only restate it.
- **Catalog open failure.** `parseSourceFile` prints an error and returns
  false when a source file cannot be opened (`trchistfmt.go:644-648`).
  `SourceCatalog`'s `Init` starts with the file open, so that path is not
  modelled. It adds nothing to the catalog.
- **Trace indenter, empty thread name.** The date-thread regex also matches
  an empty thread name. trcfmt never looks that name up, so its lines are
  not indented, and a balanced `""` thread ends with an ERROR.
  `MCThreadsEmpty` makes TLC report `FilesSpec` violated. No run is kept for
  it, because the checks stop at 12 runs. The same holds for the
  `x` / `x.fmt` name clash and the console messages.
- **Perf tie order.** Equal totals are ranked in Go's map order, where spec
  property 6 wants discovery order (`trcperfreport.go:352`). `RankedByTotalTime`
  checks that each function is listed once with totals not increasing,
  which every tie order satisfies.
  This is a hazard in `PROJECT.json` with no property.
- **Perf sub-function carry-over.** A sub-function left started at one
  call's exit must not count in the next call of the same function. That
  needs six timed lines on one thread. The passing run has `MaxTime` = 5, so
  it does not reach the case.
- **addbufval, two cases outside the passing run.** These are hazards in
  `PROJECT.json`.
  - The value group `[^,)]+` stops at the first `,` or `)`, so a cast or a
    call as the value is copied cut short. With `value |-> <<" ", "(", "x",
    ")", "y">>` in `MCCalls`, TLC reports `FilesRewritten` violated.
  - A line already rewritten matches again, and gets its value a second
    time. With such a line in `MCPlain`, TLC reports `FilesRewritten`
    violated.
  - A last line without a newline is dropped, as in trchistfmt. Every line
    the model reads ends with `\n`.
- **Unit test looper, partly.** The malloc mode and the make target only
  choose environment variables and arguments, so they are left out, except
  a `cov` target, which adds a `covrep` run. Email and log text is left out,
  so the empty bodies of the failure emails (`fmt.Sprintf` result discarded,
  `unittestlooper.go:258`) are not represented. Sleeps are single steps.
  The model reaches two more behaviours that no property claims against:
  - a status email that could not be sent on a build's last run is
    forgotten, because `statusEmailDue` is local to the build;
  - `dieError` loops for ever when the mail server never answers. Each retry
    is a step that leaves the state as it was.
  Both are hazards in `PROJECT.json`.
- **Runs given up.** There are at most 12 runs, so four violation runs were
  dropped: two for the looper, one for addbufval and one for the column
  widths. Their behaviours remain hazards in `PROJECT.json`:
  - The new `functionData` literal omits `longestDuration`, so it is 0 after
    one call (`trcperfreport.go:281`). With `INVARIANT LongestDurationIsMax`
    added to `MCTrcPerfReport.cfg`, TLC reports it violated.
  - With two `-r` directories, the second directory's snapshots overwrite
    the first's files, because `RawWalkThreadNum` restarts at 0
    (`trchistfmt.go:758`). With `Layout <- MCLayoutTwoDirs` in
    `MCTrcHistRaw.cfg`, TLC reports `OneFilePerSnapshot` violated.
    `raw_render` has one directory, where that property cannot fail, so it
    is not checked there.
  - Two perf input files with the same base name overwrite each other
    (`trcperfreport.go:344`). With `BaseName <- MCBaseNameClash` in `MCTrcPerfReport.cfg`,
    TLC reports `WholeProgramStatsMatch` violated.
  - With `-b` and standard input, the measurement pass consumes the stream,
    and the render pass writes nothing (`trchistfmt.go:867`). With
    `FromStdin = TRUE` in `MCTrcHistText.cfg`, TLC reports
    `RenderedAsReference` violated.
- **Raw decoder error paths.** A malformed file name, a short file, and a
  `bufCurPos > bufSize` panic are not modelled. The engine never writes
  such files.
- **Lines without a trailing newline** are not modelled in the decoders. Lines are records there, so
  the drop of a final line without `\n` cannot occur in the model.
