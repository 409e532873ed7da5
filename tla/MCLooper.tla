-------------------------------- MODULE MCLooper --------------------------------
(* Looper for TLC: four command lines, runs up to just past the first     *)
(* status email.                                                           *)
EXTENDS Looper

\* GHE with random modes; RTC creating a workspace, fixed non-ASAN modes,
\* a "cov" target and -dryrun; RTC with an existing workspace and disk
\* persistence (one run per build); and -w with GHE, which is refused
MCFlagSets ==
  {[useRTC |-> FALSE, gheKey |-> TRUE, workspace |-> FALSE, stream |-> FALSE,
    asan |-> -1, async |-> -1, dryRun |-> FALSE, cov |-> FALSE],
   [useRTC |-> TRUE, gheKey |-> FALSE, workspace |-> FALSE, stream |-> TRUE,
    asan |-> 0, async |-> 0, dryRun |-> TRUE, cov |-> TRUE],
   [useRTC |-> TRUE, gheKey |-> FALSE, workspace |-> TRUE, stream |-> FALSE,
    asan |-> -1, async |-> 2, dryRun |-> FALSE, cov |-> FALSE],
   [useRTC |-> FALSE, gheKey |-> TRUE, workspace |-> TRUE, stream |-> FALSE,
    asan |-> 1, async |-> 0, dryRun |-> FALSE, cov |-> FALSE]}

=============================================================================
