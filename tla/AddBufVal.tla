------------------------------- MODULE AddBufVal -------------------------------
(***************************************************************************)
(* src/server_engine/src/play/addbufval.go: for each argument, copy the   *)
(* source file to /tmp/parsed/<file>, rewriting every line that matches   *)
(* the regular expression of five groups  .* ieutTRACEL .* pThreadData,   *)
(* .* __func__, [^,)]+ .+  (written without the spaces and with each of    *)
(* the five in parentheses) into a call of ieutTRACEL_BV that repeats    *)
(* the argument after __func__ right after pThreadData.                    *)
(*                                                                         *)
(* A line is a sequence of characters.  The three words the regular       *)
(* expression names are single tokens; nothing in the regular expression  *)
(* can end a group inside them.  The line read by ReadString ends with    *)
(* "\n", which "." does not match.                                         *)
(*                                                                         *)
(* Go's regexp is leftmost-first: of all the ways the groups can split    *)
(* the line, it returns the one a backtracking matcher finds first.  Every *)
(* quantifier is greedy, so that is the split whose first group is        *)
(* longest, then whose second group is longest, and so on.                *)
(***************************************************************************)
EXTENDS Naturals, Sequences, SequencesExt

CONSTANTS
  Args,      \* os.Args[1:], distinct file names
  Calls,     \* the one-line ieutTRACEL calls a file may hold (records)
  Plain,     \* the other lines a file may hold, without their "\n"
  Stale,     \* the content /tmp/parsed/<file> has before the run
  MaxLines   \* bound on the lines read over the whole run

NL == "\n"

\* a call ieutTRACEL(pThreadData,<args>__func__[,<value>]<rest> on a line
\* after <pre>; <args> ends with the format's ", "
CallText(r) ==
  r.pre \o <<"ieutTRACEL", "(", "pThreadData", ",">> \o r.args \o <<"__func__">>
        \o (IF r.value = <<>> THEN <<>> ELSE <<",">> \o r.value) \o r.rest \o <<NL>>

Lines == {CallText(r) : r \in Calls} \cup {t \o <<NL>> : t \in Plain}

-----------------------------------------------------------------------------
(* parseSourceLine                                                          *)

\* the splits l = g1 ieutTRACEL g2 pThreadData, g3 __func__, g4 g5 NL, as
\* the positions of ieutTRACEL, pThreadData and __func__ and the last
\* position of g4, which is non-empty and holds no "," or ")"; g5 is
\* non-empty
Splits(l) ==
  LET n == Len(l) - 1
      at(w) == {k \in 1..n - 1 : l[k] = w}
  IN {s \in (at("ieutTRACEL") \X at("pThreadData") \X at("__func__") \X (1..n - 1)) :
        /\ s[1] < s[2] /\ l[s[2] + 1] = "," /\ s[2] + 1 < s[3]
        /\ l[s[3] + 1] = "," /\ s[3] + 2 <= s[4]
        /\ \A k \in s[3] + 2..s[4] : l[k] \notin {",", ")"}}

\* s comes before o in the order the backtracking matcher tries them
TriedBefore(s, o) ==
  \E k \in 1..4 : s[k] > o[k] /\ \A j \in 1..k - 1 : s[j] = o[j]

\* the groups of a split
Groups(l, s) ==
  << SubSeq(l, 1, s[1] - 1), SubSeq(l, s[1] + 1, s[2] - 1),
     SubSeq(l, s[2] + 2, s[3] - 1), SubSeq(l, s[3] + 2, s[4]),
     SubSeq(l, s[4] + 1, Len(l) - 1) >>

\* fmt.Sprintf("%vieutTRACEL_BV%vpThreadData,%v, %v__func__,%v%v\n",
\*             matches[1], matches[2], matches[4], matches[3], matches[4], matches[5])
BVLine(m) ==
  m[1] \o <<"ieutTRACEL", "_BV">> \o m[2] \o <<"pThreadData", ",">> \o m[4]
       \o <<",", " ">> \o m[3] \o <<"__func__", ",">> \o m[4] \o m[5] \o <<NL>>

\* the split FindStringSubmatch returns
FirstSplit(l) == CHOOSE s \in Splits(l) : \A o \in Splits(l) \ {s} : TriedBefore(s, o)

\* mutant: ([^,)]+?), the value group matched lazily
ParseSourceLineLazyValue(l) ==
  LET LazyBefore(s, o) ==
        \/ \E k \in 1..3 : s[k] > o[k] /\ \A j \in 1..k - 1 : s[j] = o[j]
        \/ s[4] < o[4] /\ \A j \in 1..3 : s[j] = o[j]
  IN IF Splits(l) = {} THEN l
     ELSE BVLine(Groups(l, CHOOSE s \in Splits(l) :
                             \A o \in Splits(l) \ {s} : LazyBefore(s, o)))

\* mutant: the format's "\n" left out
ParseSourceLineNoNewline(l) ==
  IF Splits(l) = {} THEN l
  ELSE LET m == BVLine(Groups(l, FirstSplit(l))) IN SubSeq(m, 1, Len(m) - 1)

\* the line written for a source line: the rewrite if FindStringSubmatch
\* finds the six matches, else the line itself
ParseSourceLine(l) ==
  IF Splits(l) = {} THEN l ELSE BVLine(Groups(l, FirstSplit(l)))

-----------------------------------------------------------------------------
(* main and parseSourceFile                                                 *)

OutName(f) == <<"/tmp/parsed", f>>

VARIABLES
  arg,       \* main's i, as an index into Args
  mode,      \* "main", "reading", "done" or "panicked"
  buf,       \* the lines held by the bufio.Writer
  content,   \* the lines read from each argument (ghost)
  disk,      \* the files under /tmp/parsed
  results,   \* parseSourceFile's result for each argument
  lines      \* lines read so far, for the bound

vars == <<arg, mode, buf, content, disk, results, lines>>

Init ==
  /\ arg = 1 /\ mode = "main" /\ buf = <<>> /\ content = <<>>
  /\ disk = [a \in {OutName(Args[k]) : k \in DOMAIN Args} |-> Stale]
  /\ results = <<>> /\ lines = 0

\* the input, or the output (O_WRONLY|O_TRUNC|O_CREATE), fails to open:
\* the error is printed and false returned; the output is untouched
OpenFails ==
  /\ mode = "main" /\ arg <= Len(Args)
  /\ results' = Append(results, FALSE) /\ content' = Append(content, <<>>)
  /\ arg' = arg + 1
  /\ UNCHANGED <<mode, buf, disk, lines>>

\* both files open; the output is truncated
OpenSourceFile ==
  /\ mode = "main" /\ arg <= Len(Args)
  /\ disk' = [disk EXCEPT ![OutName(Args[arg])] = <<>>]
  /\ content' = Append(content, <<>>) /\ buf' = <<>> /\ mode' = "reading"
  /\ UNCHANGED <<arg, results, lines>>

\* one iteration of the read loop: ReadString and parseSourceLine
ReadSourceLine ==
  /\ mode = "reading" /\ lines < MaxLines
  /\ \E l \in Lines :
       /\ content' = [content EXCEPT ![arg] = Append(@, l)]
       /\ buf' = Append(buf, ParseSourceLine(l))
  /\ lines' = lines + 1
  /\ UNCHANGED <<arg, mode, disk, results>>

\* a read error panics (as does a write error, which bufio reports once its
\* buffer fills); the deferred Flush still writes what is buffered
ReadFails ==
  /\ mode = "reading"
  /\ disk' = [disk EXCEPT ![OutName(Args[arg])] = buf]
  /\ mode' = "panicked"
  /\ UNCHANGED <<arg, buf, content, results, lines>>

\* io.EOF: return true, and the deferred Flush writes the buffer
EndOfSourceFile ==
  /\ mode = "reading"
  /\ disk' = [disk EXCEPT ![OutName(Args[arg])] = buf]
  /\ results' = Append(results, TRUE) /\ arg' = arg + 1 /\ mode' = "main"
  /\ UNCHANGED <<buf, content, lines>>

\* mutant: the loop stops one argument early
EndOfArgsEarly ==
  /\ mode = "main" /\ arg >= Len(Args)
  /\ mode' = "done"
  /\ UNCHANGED <<arg, buf, content, disk, results, lines>>

\* the loop's i < len(os.Args) fails (or there were no arguments)
EndOfArgs ==
  /\ mode = "main" /\ arg > Len(Args)
  /\ mode' = "done"
  /\ UNCHANGED <<arg, buf, content, disk, results, lines>>

Next ==
  \/ OpenFails \/ OpenSourceFile \/ ReadSourceLine \/ ReadFails
  \/ EndOfSourceFile \/ EndOfArgs

\* one sequential goroutine; each read returns
Fairness == WF_vars(Next)

Spec == Init /\ [][Next]_vars /\ Fairness

-----------------------------------------------------------------------------
(* what the rewrite is for                                                  *)

\* the call with the argument after __func__ added after pThreadData, as
\* ieutTRACEL_BV takes it; a call without one, and any other line, is kept
Intended(r) ==
  IF r.value = <<>> THEN CallText(r)
  ELSE r.pre \o <<"ieutTRACEL", "_BV", "(", "pThreadData", ",">> \o r.value
             \o <<",", " ">> \o r.args \o <<"__func__", ",">> \o r.value \o r.rest \o <<NL>>

RefLine(l) == IF \E r \in Calls : CallText(r) = l
              THEN Intended(CHOOSE r \in Calls : CallText(r) = l) ELSE l

TypeOK ==
  /\ arg \in 1..Len(Args) + 1 /\ mode \in {"main", "reading", "done", "panicked"}
  /\ content \in Seq(Seq(Lines)) /\ results \in Seq(BOOLEAN)
  /\ lines \in 0..MaxLines /\ DOMAIN disk = {OutName(Args[k]) : k \in DOMAIN Args}
  \* every line written, rewritten or not, is a whole line
  /\ \A o \in DOMAIN disk : \A j \in DOMAIN disk[o] : Last(disk[o][j]) = NL
  /\ \A j \in DOMAIN buf : Last(buf[j]) = NL

\* When main has gone through every argument, /tmp/parsed/<file> of each
\* file parsed holds its lines in order, each trace call rewritten to
\* ieutTRACEL_BV with its value argument (the one after __func__) repeated
\* after pThreadData and every other line unchanged; a file that failed to
\* open leaves its output as it was.
FilesRewritten ==
  mode = "done" =>
    \A k \in DOMAIN results :
      disk[OutName(Args[k])] =
        IF results[k] THEN [j \in DOMAIN content[k] |-> RefLine(content[k][j])]
        ELSE Stale

\* main goes through every argument, or a read error panics.
AllArgsParsed ==
  <>(mode = "panicked" \/ (mode = "done" /\ Len(results) = Len(Args)))

=============================================================================
