------------------------------- MODULE RunCommand -------------------------------
(***************************************************************************)
(* RunCommand of UnitTestLooper/src/unittestlooper.go: the child process  *)
(* started by cmd.Start, the time.AfterFunc timer whose goroutine sets    *)
(* timedOut and kills the process, and the calling goroutine's cmd.Wait,  *)
(* timer.Stop and timedOut check.  The three run concurrently; timedOut is *)
(* shared without synchronisation, so the calling goroutine may read it   *)
(* before or after the timer goroutine writes it.                          *)
(*                                                                         *)
(* With a log stem the child's stdout and stderr are io.MultiWriters, so  *)
(* exec copies them through pipes, and cmd.Wait returns only when those   *)
(* copies end: when every process holding the pipes' write ends has       *)
(* closed them.  Kill signals only the direct child (make, buildism, scm); *)
(* a process it started (a test, a server) inherits the pipes and may     *)
(* outlive it.  `holder` is such a process.                                *)
(*                                                                         *)
(* Every caller passes a positive timeout, so the timer is always armed.  *)
(* Once RunCommand has returned, what is left of the timer goroutine acts *)
(* on that call's own timedOut and on an already waited-for process       *)
(* (Kill returns ErrProcessDone), so it is dropped at the return.         *)
(***************************************************************************)

VARIABLES
  proc,      \* the child: "none", "running", "exited", "reaped"
  exitOk,    \* its exit status was 0
  killed,    \* it was ended by the timer's Kill
  timer,     \* "off", "armed", "fired", "stopped"
  tfunc,     \* the AfterFunc goroutine: "none", "started", "set", "done"
  timedOut,  \* RunCommand's timedOut
  rc,        \* the caller: "idle", "wait", "stop", "check", "done"
  rcErr,     \* the error RunCommand returns is not nil
  late,      \* the timer fired while the child was still running (ghost)
  holder     \* a descendant of the child holds the output pipes open

rcVars == <<proc, exitOk, killed, timer, tfunc, timedOut, rc, rcErr, late, holder>>

RCInit ==
  /\ proc = "none" /\ exitOk = TRUE /\ killed = FALSE /\ timer = "off"
  /\ tfunc = "none" /\ timedOut = FALSE /\ rc = "idle" /\ rcErr = FALSE
  /\ late = FALSE /\ holder = FALSE

\* mutant: the timer is not armed
StartCommandNoTimer(withLog) ==
  /\ rc \in {"idle", "done"}
  /\ proc' = "running" /\ exitOk' = TRUE /\ killed' = FALSE
  /\ timer' = "off" /\ tfunc' = "none" /\ timedOut' = FALSE
  /\ rc' = "wait" /\ rcErr' = FALSE /\ late' = FALSE
  /\ holder' \in IF withLog THEN BOOLEAN ELSE {FALSE}

\* cmd.Start succeeded (the caller is not inside another RunCommand);
\* timedOut := false; time.AfterFunc(timeOutDuration, ...).  With a log
\* stem, the child may start a process that keeps the pipes (only then
\* does one matter: without, the child writes to os.Stdout directly)
StartCommand(withLog) ==
  /\ rc \in {"idle", "done"}
  /\ proc' = "running" /\ exitOk' = TRUE /\ killed' = FALSE
  /\ timer' = "armed" /\ tfunc' = "none" /\ timedOut' = FALSE
  /\ rc' = "wait" /\ rcErr' = FALSE /\ late' = FALSE
  /\ holder' \in IF withLog THEN BOOLEAN ELSE {FALSE}

\* the child exits by itself, successfully or not (or never: a hung test)
ProcessExits ==
  /\ proc = "running"
  /\ proc' = "exited" /\ exitOk' \in BOOLEAN
  /\ UNCHANGED <<killed, timer, tfunc, timedOut, rc, rcErr, late, holder>>

\* the process holding the pipes exits (or never: a hung test)
HolderExits ==
  /\ holder
  /\ holder' = FALSE
  /\ UNCHANGED <<proc, exitOk, killed, timer, tfunc, timedOut, rc, rcErr, late>>

\* the timeout expires and the AfterFunc goroutine starts
TimerFires ==
  /\ timer = "armed"
  /\ timer' = "fired" /\ tfunc' = "started" /\ late' = (proc = "running")
  /\ UNCHANGED <<proc, exitOk, killed, timedOut, rc, rcErr, holder>>

\* timedOut = true
TimerSetsTimedOut ==
  /\ tfunc = "started"
  /\ timedOut' = TRUE /\ tfunc' = "set"
  /\ UNCHANGED <<proc, exitOk, killed, timer, rc, rcErr, late, holder>>

\* cmd.Process.Kill(): ends a running child, not the processes it started;
\* an exited one is unaffected
TimerKills ==
  /\ tfunc = "set"
  /\ tfunc' = "done"
  /\ IF proc = "running"
     THEN proc' = "exited" /\ exitOk' = FALSE /\ killed' = TRUE
     ELSE UNCHANGED <<proc, exitOk, killed>>
  /\ UNCHANGED <<timer, timedOut, rc, rcErr, late, holder>>

\* err = cmd.Wait(): returns once the child has exited and the output
\* copies have reached the end of the pipes
WaitReturns ==
  /\ rc = "wait" /\ proc = "exited" /\ ~holder
  /\ proc' = "reaped" /\ rc' = "stop" /\ rcErr' = ~exitOk
  /\ UNCHANGED <<exitOk, killed, timer, tfunc, timedOut, late, holder>>

\* timer.Stop(): prevents a timer that has not fired yet
StopTimer ==
  /\ rc = "stop"
  /\ timer' = IF timer = "armed" THEN "stopped" ELSE timer
  /\ rc' = "check"
  /\ UNCHANGED <<proc, exitOk, killed, tfunc, timedOut, rcErr, late, holder>>

\* if timedOut && err == nil { err = "Timed out" }; return err
CheckTimedOut ==
  /\ rc = "check"
  /\ rcErr' = (rcErr \/ timedOut) /\ rc' = "done" /\ tfunc' = "none"
  /\ UNCHANGED <<proc, exitOk, killed, timer, timedOut, late, holder>>

\* the steps that run concurrently with the caller's
RCStep ==
  \/ ProcessExits \/ HolderExits \/ TimerFires \/ TimerSetsTimedOut \/ TimerKills
  \/ WaitReturns \/ StopTimer \/ CheckTimedOut

\* the Go runtime fires a due timer and schedules every runnable goroutine;
\* the child and its descendants may hang, so their exits get no fairness
RCFairness ==
  /\ WF_rcVars(TimerFires) /\ WF_rcVars(TimerSetsTimedOut) /\ WF_rcVars(TimerKills)
  /\ WF_rcVars(WaitReturns) /\ WF_rcVars(StopTimer) /\ WF_rcVars(CheckTimedOut)

=============================================================================
