----------------------------- MODULE TrcFmtFiles -----------------------------
(***************************************************************************)
(* What trcfmt promises of a run, one whole argument at a time: each file *)
(* named on the command line is either not processed (it or its output   *)
(* cannot be opened) or read in full, its formatted text written to      *)
(* <file>.fmt and its threads reported; or a read or write error panics   *)
(* while it is read, <file>.fmt keeps a prefix of its formatted text and  *)
(* the program ends.  `read` records the text of each argument as it was  *)
(* read, so the output can be stated as a function of it.                 *)
(***************************************************************************)
EXTENDS TrcFmtLines

CONSTANTS
  Args,      \* os.Args[1:]
  MaxLines   \* bound on the lines of a file

VARIABLES done, read, disk, results, reports

avars == <<done, read, disk, results, reports>>

Init ==
  /\ done = 0 /\ read = <<>> /\ disk = [o \in {} |-> <<>>]
  /\ results = <<>> /\ reports = <<>>

\* a panic has ended the run: an argument was read but not finished
Halted == Len(read) > done

\* the next argument is processed, successfully or not
ProcessArg ==
  /\ ~Halted /\ done < Len(Args)
  /\ done' = done + 1
  /\ read' = Append(read, Last(read'))
  /\ \/ /\ Last(read') = <<>>
        /\ results' = Append(results, FALSE) /\ reports' = Append(reports, <<>>)
        /\ UNCHANGED disk
     \/ LET ls == Last(read') IN
        /\ ls \in Seq(Lines) /\ Len(ls) <= MaxLines
        /\ disk' = (OutName(Args[done + 1]) :> RefFormat(ls)) @@ disk
        /\ results' = Append(results, TRUE)
        /\ reports' = Append(reports, RefReport(ls))

\* the next argument panics part way: its output is a prefix of its
\* formatted text, nothing is reported and no argument follows
PanicArg ==
  /\ ~Halted /\ done < Len(Args)
  /\ Len(read') = Len(read) + 1 /\ read' = Append(read, Last(read'))
  /\ LET ls == Last(read') IN
     /\ ls \in Seq(Lines) /\ Len(ls) <= MaxLines
     /\ \E k \in 0..Len(ls) : disk' = (OutName(Args[done + 1]) :> SubSeq(RefFormat(ls), 1, k)) @@ disk
  /\ UNCHANGED <<done, results, reports>>

Spec == Init /\ [][ProcessArg \/ PanicArg]_avars

=============================================================================
