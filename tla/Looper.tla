--------------------------------- MODULE Looper ---------------------------------
(***************************************************************************)
(* main of UnitTestLooper/src/unittestlooper.go: processFlags, the setup, *)
(* and the endless loop of builds, each with randomly chosen ASAN and     *)
(* async modes, a build-retry loop (clearDownTrees, getSource over GHE or *)
(* RTC, buildProduct), and testLoops runs of the unit tests with the      *)
(* status-email schedule; dieError with its email retry loop.  Every      *)
(* external command goes through RunCommand, whose concurrent steps are   *)
(* those of the RunCommand module.                                         *)
(*                                                                         *)
(* The environment decides what each command, file operation and email   *)
(* does.  An email is sent, not sent (smtp.Dial fails) or crashes the     *)
(* looper (c.Data fails and doc.WriteTo is given a nil writer).  The      *)
(* malloc mode and the choice of make target only change environment      *)
(* variables and arguments, so they are left out; a -t target starting    *)
(* with "cov" is kept because it adds the covrep run.                      *)
(***************************************************************************)
EXTENDS RunCommand, Integers, Sequences

CONSTANTS
  FlagSets,     \* the command lines to consider: records of flag values
  MaxRuns,      \* bound on totalRunNumber
  MaxAttempts   \* bound on buildAttempt

\* main's constants
testLoopsPerBuild == 15
testLoopsPerASANBuild == 7
firstSuccessEmailAfter == 20
successEmailsEvery == 150
ASANMODE_ASAN_NOLEAKCHECK == 2
ASYNCMODE_DISKPERSISTENCE == 2

EmailOutcomes == {"sent", "notSent", "panic"}

\* the commands RunCommand is given a log stem for: the workspace load,
\* the build and every runTests call
LogCmds == {"load", "build", "test", "covrep", "cleanup", "cleanup0"}

VARIABLES
  flags,       \* the parsed command line
  phase,       \* where main is (see Next)
  cmd,         \* the command RunCommand is running for main
  emailOnFailure,  \* EMAIL_ON_FAILURE
  run,         \* totalRunNumber
  asanMode, asyncMode, testLoops,
  logRange,    \* the <first>-<last>_looperlog file the log goes to
  attempt,     \* buildAttempt
  srcErr,      \* getSourceRTC's err
  i,           \* the test loop's i
  statusDue,   \* statusEmailDue
  statusSent,  \* the runs a "Unit Test successful" email went out at (ghost)
  loggedIn,    \* an RTC login succeeded and no logout has been run (ghost)
  wsLive       \* a workspace getSourceRTC created is not deleted yet (ghost)

lVars == <<flags, phase, cmd, emailOnFailure, run, asanMode, asyncMode, testLoops,
           logRange, attempt, srcErr, i, statusDue, statusSent,
           loggedIn, wsLive>>
vars == <<lVars, rcVars>>

\* processFlags' checks
ValidFlags(f) ==
  /\ ~(f.workspace /\ f.stream) /\ ~(f.workspace /\ ~f.useRTC)
  /\ ~(~f.gheKey /\ ~f.useRTC)
  /\ f.async \in -1..2 /\ f.asan \in -1..2

-----------------------------------------------------------------------------
(* Helpers: running a command, sending an email, dying                      *)

\* RunCommand(cmd, ...) is called for command c: the log files open and
\* cmd.Start succeeds, or one of them fails and dieError is called
Issue(c) ==
  \/ StartCommand(c \in LogCmds) /\ cmd' = c /\ phase' = "cmd"
  \/ phase' = "dying" /\ UNCHANGED <<cmd, rcVars>>

\* the command main waits for has returned
Returned(c) == phase = "cmd" /\ rc = "done" /\ cmd = c

\* dieError: with EMAIL_ON_FAILURE, "Fatal error in unit tests" is sent
\* until it goes out (sleeping 5 minutes between tries), then os.Exit(10)
DieError ==
  /\ phase = "dying"
  /\ \E o \in EmailOutcomes :
       CASE ~emailOnFailure -> phase' = "exited"
         [] o = "panic"     -> phase' = "crashed"
         [] o = "sent"      -> phase' = "exited"
         [] OTHER           -> UNCHANGED phase
  /\ UNCHANGED <<flags, cmd, emailOnFailure, run, asanMode, asyncMode, testLoops,
                 logRange, attempt, srcErr, i, statusDue, statusSent, loggedIn, wsLive>>
  /\ UNCHANGED rcVars

-----------------------------------------------------------------------------
(* main up to the loop                                                      *)

\* processFlags: invalid flags are fatal (EMAIL_ON_FAILURE is still false)
ProcessFlags ==
  /\ phase = "flags"
  /\ phase' = IF ValidFlags(flags) THEN "setup" ELSE "dying"
  /\ UNCHANGED <<flags, cmd, emailOnFailure, run, asanMode, asyncMode, testLoops,
                 logRange, attempt, srcErr, i, statusDue, statusSent, rcVars, loggedIn, wsLive>>

\* setupEnv: each os.Setenv (of nine variables) may fail, and with -rtc the
\* RTC_PASSWORD and RTC_USER variables must be non-empty; env says which did
SetupEnvOk(f, env) == env.setenv /\ (f.useRTC => env.password /\ env.user)

\* the test root and store directories, the initialisation log and
\* setupEnv, any failure calling dieError; then totalRunNumber++ and
\* EMAIL_ON_FAILURE
Setup ==
  /\ phase = "setup"
  /\ \E dirsOk \in BOOLEAN, env \in [setenv : BOOLEAN, password : BOOLEAN, user : BOOLEAN] :
       IF dirsOk /\ SetupEnvOk(flags, env)
       THEN phase' = "modes" /\ run' = run + 1 /\ emailOnFailure' = ~flags.dryRun
       ELSE phase' = "dying" /\ UNCHANGED <<run, emailOnFailure>>
  /\ UNCHANGED <<flags, cmd, asanMode, asyncMode, testLoops, logRange, attempt,
                 srcErr, i, statusDue, statusSent, rcVars, loggedIn, wsLive>>

\* mutant: the log is named for a full build of testLoopsPerBuild runs
ChooseModesFullLogRange ==
  /\ phase = "modes" /\ run <= MaxRuns
  /\ \E a \in IF flags.asan >= 0 THEN {flags.asan} ELSE {0, ASANMODE_ASAN_NOLEAKCHECK},
        y \in IF flags.async >= 0 THEN {flags.async} ELSE 0..2 :
       LET tl == IF y = ASYNCMODE_DISKPERSISTENCE THEN 1
                 ELSE IF a # 0 THEN testLoopsPerASANBuild ELSE testLoopsPerBuild
       IN /\ asanMode' = a /\ asyncMode' = y /\ testLoops' = tl
          /\ \/ phase' = "dying" /\ UNCHANGED <<logRange, attempt>>
             \/ /\ logRange' = <<run, run + testLoopsPerBuild - 1>>
                /\ attempt' = 0 /\ phase' = "clear"
  /\ UNCHANGED <<flags, cmd, emailOnFailure, run, srcErr, i, statusDue,
                 statusSent, rcVars, loggedIn, wsLive>>

\* the top of the outer loop: the ASAN and async modes (fixed by a flag or
\* random), testLoops, and the <run>-<run+testLoops-1>_looperlog file
ChooseModes ==
  /\ phase = "modes" /\ run <= MaxRuns
  /\ \E a \in IF flags.asan >= 0 THEN {flags.asan} ELSE {0, ASANMODE_ASAN_NOLEAKCHECK},
        y \in IF flags.async >= 0 THEN {flags.async} ELSE 0..2 :
       LET tl == IF y = ASYNCMODE_DISKPERSISTENCE THEN 1
                 ELSE IF a # 0 THEN testLoopsPerASANBuild ELSE testLoopsPerBuild
       IN /\ asanMode' = a /\ asyncMode' = y /\ testLoops' = tl
          /\ \/ phase' = "dying" /\ UNCHANGED <<logRange, attempt>>
             \/ /\ logRange' = <<run, run + tl - 1>>
                /\ attempt' = 0 /\ phase' = "clear"
  /\ UNCHANGED <<flags, cmd, emailOnFailure, run, srcErr, i, statusDue,
                 statusSent, rcVars, loggedIn, wsLive>>

-----------------------------------------------------------------------------
(* the build-retry loop                                                     *)

\* sendTestStatusEmail from main: the result is ignored, a panic ends it
StatusMailThen(next) ==
  \E o \in EmailOutcomes :
    IF o = "panic" THEN phase' = "crashed" ELSE next

\* clearDownTrees (and getSourceGHE's MkdirAll), each of which may die, then
\* the first command of getSource: "git clone" or "RTC login"
GetSource ==
  /\ phase = "clear" /\ attempt < MaxAttempts
  /\ Issue(IF flags.useRTC THEN "login" ELSE "clone")
  /\ UNCHANGED <<flags, emailOnFailure, run, asanMode, asyncMode, testLoops,
                 logRange, attempt, srcErr, i, statusDue, statusSent, loggedIn, wsLive>>

\* main, once getSource has returned err: buildProduct, or the retry with
\* its "Failed to get source from RTC" email on every fifth attempt
SourceDone(err) ==
  /\ UNCHANGED <<flags, emailOnFailure, run, asanMode, asyncMode, testLoops,
                 logRange, srcErr, i, statusDue, statusSent>>
  /\ IF ~err
     THEN Issue("build") /\ UNCHANGED attempt
     ELSE /\ UNCHANGED <<cmd, rcVars>>
          /\ attempt' = attempt + 1
          /\ IF attempt % 5 = 4 THEN StatusMailThen(phase' = "clear")
                                ELSE phase' = "clear"

\* getSourceGHE returns RunCommand's err
CloneDone == Returned("clone") /\ SourceDone(rcErr) /\ UNCHANGED <<loggedIn, wsLive>>

\* a failed login skips everything, logout included; an existing -w
\* workspace is loaded, otherwise a new one is created
LoginDone ==
  /\ Returned("login")
  /\ IF rcErr THEN SourceDone(TRUE) /\ UNCHANGED <<loggedIn, wsLive>>
     ELSE /\ Issue(IF flags.workspace THEN "load" ELSE "create")
          /\ loggedIn' = TRUE
          /\ UNCHANGED <<flags, emailOnFailure, run, asanMode, asyncMode, testLoops,
                         logRange, attempt, srcErr, i, statusDue, statusSent, wsLive>>

\* a failed creation goes straight to the logout with err set
CreateDone ==
  /\ Returned("create")
  /\ Issue(IF rcErr THEN "logout" ELSE "load")
  /\ srcErr' = rcErr /\ wsLive' = ~rcErr
  /\ UNCHANGED <<flags, emailOnFailure, run, asanMode, asyncMode, testLoops,
                 logRange, attempt, i, statusDue, statusSent, loggedIn>>

\* mutant: the new workspace is deleted only after a successful load
LoadDoneNoDeleteOnError ==
  /\ Returned("load")
  /\ Issue(IF flags.workspace \/ rcErr THEN "logout" ELSE "delete")
  /\ srcErr' = rcErr
  /\ UNCHANGED <<flags, emailOnFailure, run, asanMode, asyncMode, testLoops,
                 logRange, attempt, i, statusDue, statusSent, loggedIn, wsLive>>

\* err = the load's; a workspace this call created is deleted
LoadDone ==
  /\ Returned("load")
  /\ Issue(IF flags.workspace THEN "logout" ELSE "delete")
  /\ srcErr' = rcErr
  /\ UNCHANGED <<flags, emailOnFailure, run, asanMode, asyncMode, testLoops,
                 logRange, attempt, i, statusDue, statusSent, loggedIn, wsLive>>

\* the delete's result is ignored
DeleteDone ==
  /\ Returned("delete")
  /\ Issue("logout") /\ wsLive' = FALSE
  /\ UNCHANGED <<flags, emailOnFailure, run, asanMode, asyncMode, testLoops,
                 logRange, attempt, srcErr, i, statusDue, statusSent, loggedIn>>

\* the logout's result is ignored; getSourceRTC returns err
LogoutDone ==
  Returned("logout") /\ SourceDone(srcErr) /\ loggedIn' = FALSE /\ UNCHANGED wsLive

\* a built product ends the retry loop and runs cleanupTests; a failed
\* build sends "Failed to build product" and retries
BuildDone ==
  /\ Returned("build")
  /\ UNCHANGED <<flags, emailOnFailure, run, asanMode, asyncMode, testLoops,
                 logRange, srcErr, i, statusDue, statusSent, loggedIn, wsLive>>
  /\ IF ~rcErr
     THEN Issue("cleanup0") /\ UNCHANGED attempt
     ELSE /\ UNCHANGED <<cmd, rcVars>> /\ attempt' = attempt + 1
          /\ StatusMailThen(phase' = "clear")

-----------------------------------------------------------------------------
(* the test loop                                                            *)

\* runTests after its RunCommand (die on failure): the search for core files
\* fails, core files are found, or the next step follows
TestsDone(c, next) ==
  /\ Returned(c)
  /\ IF rcErr THEN phase' = "dying" /\ UNCHANGED <<cmd, rcVars, i, run, statusDue>>
     ELSE \/ phase' = "dying" /\ UNCHANGED <<cmd, rcVars, i, run, statusDue>>
          \/ next
  /\ UNCHANGED <<flags, emailOnFailure, asanMode, asyncMode, testLoops, logRange,
                 attempt, srcErr, statusSent, loggedIn, wsLive>>

\* the first cleanupTests; statusEmailDue := false; i := 0
Cleanup0Done ==
  TestsDone("cleanup0", phase' = "loop" /\ i' = 0 /\ statusDue' = FALSE
                        /\ UNCHANGED <<cmd, rcVars, run>>)

\* mutant: statusEmailDue is not cleared once the email has gone out
LoopTopNoReset ==
  /\ phase = "loop" /\ i < testLoops /\ run <= MaxRuns
  /\ LET due == statusDue \/ run = firstSuccessEmailAfter
                 \/ (run >= successEmailsEvery /\ run % successEmailsEvery = 0)
     IN IF due /\ ~flags.dryRun
        THEN \E o \in EmailOutcomes :
               CASE o = "panic" -> phase' = "crashed"
                                   /\ UNCHANGED <<cmd, rcVars, statusDue, statusSent>>
                 [] o = "sent" -> Issue("test") /\ statusDue' = TRUE
                                  /\ statusSent' = statusSent \cup {run}
                 [] OTHER -> Issue("test") /\ statusDue' = TRUE
                             /\ UNCHANGED statusSent
        ELSE Issue("test") /\ statusDue' = due /\ UNCHANGED statusSent
  /\ UNCHANGED <<flags, emailOnFailure, run, asanMode, asyncMode, testLoops,
                 logRange, attempt, srcErr, i, loggedIn, wsLive>>

\* mutant: the loop runs testLoops+1 times
LoopTopOffByOne ==
  /\ phase = "loop" /\ i <= testLoops /\ run <= MaxRuns
  /\ LET due == statusDue \/ run = firstSuccessEmailAfter
                 \/ (run >= successEmailsEvery /\ run % successEmailsEvery = 0)
     IN IF due /\ ~flags.dryRun
        THEN \E o \in EmailOutcomes :
               CASE o = "panic" -> phase' = "crashed"
                                   /\ UNCHANGED <<cmd, rcVars, statusDue, statusSent>>
                 [] o = "sent" -> Issue("test") /\ statusDue' = FALSE
                                  /\ statusSent' = statusSent \cup {run}
                 [] OTHER -> Issue("test") /\ statusDue' = TRUE
                             /\ UNCHANGED statusSent
        ELSE Issue("test") /\ statusDue' = due /\ UNCHANGED statusSent
  /\ UNCHANGED <<flags, emailOnFailure, run, asanMode, asyncMode, testLoops,
                 logRange, attempt, srcErr, i, loggedIn, wsLive>>

\* one iteration's start: the status email when due (a due email that
\* cannot be sent stays due for the next iteration), then the tests
LoopTop ==
  /\ phase = "loop" /\ i < testLoops /\ run <= MaxRuns
  /\ LET due == statusDue \/ run = firstSuccessEmailAfter
                 \/ (run >= successEmailsEvery /\ run % successEmailsEvery = 0)
     IN IF due /\ ~flags.dryRun
        THEN \E o \in EmailOutcomes :
               CASE o = "panic" -> phase' = "crashed"
                                   /\ UNCHANGED <<cmd, rcVars, statusDue, statusSent>>
                 [] o = "sent" -> Issue("test") /\ statusDue' = FALSE
                                  /\ statusSent' = statusSent \cup {run}
                 [] OTHER -> Issue("test") /\ statusDue' = TRUE
                             /\ UNCHANGED statusSent
        ELSE Issue("test") /\ statusDue' = due /\ UNCHANGED statusSent
  /\ UNCHANGED <<flags, emailOnFailure, run, asanMode, asyncMode, testLoops,
                 logRange, attempt, srcErr, i, loggedIn, wsLive>>

\* after the tests: covrep for a "cov" target, then cleanupTests
TestDone ==
  TestsDone("test", Issue(IF flags.cov THEN "covrep" ELSE "cleanup")
                    /\ UNCHANGED <<i, run, statusDue>>)

CovrepDone ==
  TestsDone("covrep", Issue("cleanup") /\ UNCHANGED <<i, run, statusDue>>)

\* after cleanupTests: totalRunNumber++, i++
CleanupDone ==
  TestsDone("cleanup", /\ phase' = "loop" /\ run' = run + 1 /\ i' = i + 1
                       /\ UNCHANGED <<cmd, rcVars, statusDue>>)

\* testLoops runs done: back to the top of the outer loop
LoopEnd ==
  /\ phase = "loop" /\ i = testLoops
  /\ phase' = "modes"
  /\ UNCHANGED <<flags, cmd, emailOnFailure, run, asanMode, asyncMode, testLoops,
                 logRange, attempt, srcErr, i, statusDue, statusSent,
                 rcVars, loggedIn, wsLive>>

-----------------------------------------------------------------------------

Init ==
  /\ flags \in FlagSets /\ phase = "flags" /\ cmd = "none"
  /\ emailOnFailure = FALSE /\ run = 0 /\ asanMode = 0 /\ asyncMode = 0
  /\ testLoops = testLoopsPerBuild /\ logRange = <<0, 0>> /\ attempt = 0
  /\ srcErr = FALSE /\ i = 0 /\ statusDue = FALSE
  /\ statusSent = {} /\ loggedIn = FALSE /\ wsLive = FALSE
  /\ RCInit

\* main's steps, each one from the return of one RunCommand to the start of
\* the next, interleaved with the child's and the timer goroutine's
Next ==
  \/ ProcessFlags \/ Setup \/ ChooseModes \/ DieError
  \/ GetSource \/ CloneDone \/ LoginDone \/ CreateDone \/ LoadDone
  \/ DeleteDone \/ LogoutDone \/ BuildDone
  \/ Cleanup0Done \/ LoopTop \/ TestDone \/ CovrepDone \/ CleanupDone \/ LoopEnd
  \/ RCStep /\ UNCHANGED lVars

Spec == Init /\ [][Next]_vars /\ RCFairness

-----------------------------------------------------------------------------

Phases == {"flags", "setup", "modes", "clear", "cmd", "loop", "dying",
           "exited", "crashed"}
Cmds == {"none", "clone", "login", "create", "load", "delete", "logout",
         "build", "cleanup0", "test", "covrep", "cleanup"}

TypeOK ==
  /\ flags \in FlagSets /\ phase \in Phases /\ cmd \in Cmds
  /\ emailOnFailure \in BOOLEAN /\ run \in 0..MaxRuns + 1
  /\ asanMode \in 0..2 /\ asyncMode \in 0..2
  /\ testLoops \in {1, testLoopsPerASANBuild, testLoopsPerBuild}
  /\ logRange \in (0..MaxRuns) \X (0..MaxRuns + testLoopsPerBuild)
  /\ attempt \in 0..MaxAttempts /\ srcErr \in BOOLEAN /\ i \in 0..testLoopsPerBuild
  /\ statusDue \in BOOLEAN /\ statusSent \subseteq 1..MaxRuns
  /\ proc \in {"none", "running", "exited", "reaped"} /\ exitOk \in BOOLEAN
  /\ killed \in BOOLEAN /\ timer \in {"off", "armed", "fired", "stopped"}
  /\ tfunc \in {"none", "started", "set", "done"} /\ timedOut \in BOOLEAN
  /\ rc \in {"idle", "wait", "stop", "check", "done"} /\ rcErr \in BOOLEAN
  /\ late \in BOOLEAN /\ loggedIn \in BOOLEAN /\ wsLive \in BOOLEAN

\* main is in the test loop of a build
InTests == phase = "loop" \/ (phase = "cmd" /\ cmd \in {"test", "covrep", "cleanup"})

\* The <first>-<last>_looperlog file opened at the top of the outer loop is
\* named for exactly the runs the following test loop makes: the run in
\* progress is first+i, and last is first+testLoops-1 after the ASAN and
\* async modes have shortened testLoops.
LogNamesCoverRuns ==
  InTests => /\ run = logRange[1] + i
             /\ logRange[2] = logRange[1] + testLoops - 1

\* A scheduled "Unit Test successful" email goes out once: after it is
\* sent (possibly some runs late, after failed sends), later runs before
\* the next scheduled one send nothing.
StatusEmailOnce ==
  \A r1, r2 \in statusSent :
    r1 < r2 => \E r \in r1 + 1..r2 :
                 r = firstSuccessEmailAfter \/ r % successEmailsEvery = 0

\* getSourceRTC leaves nothing open on the RTC server that it did not try
\* to close: once it has returned, every login that succeeded has been
\* followed by a logout and every workspace it created by a delete,
\* whichever of the login, creation and load failed.  (The delete or the
\* logout may itself fail, and nothing retries it; a fatal error in between
\* ends the looper with the session open.)
RTCSessionClosed ==
  (phase \in {"modes", "clear", "loop"}
     \/ (phase = "cmd" /\ cmd \notin {"login", "create", "load", "delete", "logout"}))
  => ~loggedIn /\ ~wsLive

\* Every RunCommand returns unless a process its child started holds the
\* log pipes open for ever: a child that never exits is killed by the
\* timer, and cmd.Wait then returns once the output copies end.  (A hung
\* descendant of a load, build or test keeps cmd.Wait from returning
\* whatever the timer does.)
CommandReturns == rc = "wait" ~> (rc = "done" \/ []holder)

\* RunCommand reports an error only for a child that failed, or that was
\* still running when the timeout expired.
CommandErrorMeansFailure ==
  rc = "done" /\ rcErr => ~exitOk \/ late

=============================================================================
