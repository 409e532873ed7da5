----------------------------- MODULE TrcFmtLines -----------------------------
(***************************************************************************)
(* The lines of play/trcfmt/trcfmt.go, the ISM trace indenter, and what  *)
(* the indenter promises of its output.                                    *)
(*                                                                         *)
(* An input line either matches the date-thread regex, "<date> <name>:  *)
(* <statement>" (dated), or does not.  A statement is abstracted  *)
(* to its kind: ">>>" (function entry), "<<<" (function exit) or other.   *)
(* A formatted dated line is <date> <thread>: <pad><prefix><statement>   *)
(* and is abstracted to its thread, statement, pad and prefix.            *)
(***************************************************************************)
EXTENDS Naturals, Sequences, SequencesExt

CONSTANT Threads   \* thread names; "" is the empty name the regex allows

\* TRACE_INDENT: spaces of indentation per call level
TRACE_INDENT == 3

Stmts == {"entry", "exit", "other"}
Undated == [dated |-> FALSE, thread |-> "", stmt |-> "other"]
Lines == [dated : {TRUE}, thread : Threads, stmt : Stmts] \cup {Undated}

OutLine(l, pad, prefix) ==
  [dated |-> TRUE, thread |-> l.thread, stmt |-> l.stmt, pad |-> pad, prefix |-> prefix]

-----------------------------------------------------------------------------
(* What the indenter promises: each dated line is indented by TRACE_INDENT *)
(* spaces per call its thread has open (an exit line by those still open  *)
(* after it), entries are marked "{" and matched exits "}"; an exit with *)
(* no open call changes nothing.  At the end, a thread is reported       *)
(* "processed" exactly when all its calls returned.                       *)

\* the number of calls thread t has open after the lines ls
RECURSIVE Depth(_, _)
Depth(ls, t) ==
  IF ls = <<>> THEN 0
  ELSE LET d == Depth(Front(ls), t)
           l == Last(ls)
           mine == l.dated /\ l.thread = t
       IN CASE mine /\ l.stmt = "entry"        -> d + 1
            [] mine /\ l.stmt = "exit" /\ d > 0 -> d - 1
            [] OTHER                            -> d

RefLine(ls, i) ==
  LET l == ls[i]
      d == Depth(SubSeq(ls, 1, i - 1), l.thread)
  IN CASE ~l.dated                    -> l
       [] l.stmt = "entry"            -> OutLine(l, TRACE_INDENT * d, "{")
       [] l.stmt = "exit" /\ d > 0    -> OutLine(l, TRACE_INDENT * (d - 1), "}")
       [] OTHER                       -> OutLine(l, TRACE_INDENT * d, "")

RefFormat(ls) == [i \in 1..Len(ls) |-> RefLine(ls, i)]

\* the threads named by dated lines, each with whether it ended balanced
RefReport(ls) ==
  LET named == {ls[i].thread : i \in {j \in DOMAIN ls : ls[j].dated}}
  IN [t \in named |-> Depth(ls, t) = 0]

\* "<file>.fmt"
OutName(f) == <<f, "fmt">>

=============================================================================
