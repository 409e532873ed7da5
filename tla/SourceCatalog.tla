----------------------------- MODULE SourceCatalog -----------------------------
(***************************************************************************)
(* The source catalog builder of tracehistorybuffer/trchistfmt.go:        *)
(* parseSourceFile reading one C source file line by line, parseSourceLine *)
(* (brace depth, current function, trace statement detection and          *)
(* continuation) and getFuncName.                                          *)
(*                                                                         *)
(* The source file is generated from a small C grammar: functions with a  *)
(* signature (on one line, or with the return type on a line of its own), *)
(* the opening brace on the signature line or the next, and a body of     *)
(* plain statements and ieutTRACEL statements, possibly guarded by an      *)
(* `if (...) { ... }` on the same line, possibly continued on the next    *)
(* line.  A line is abstracted to what parseSourceLine reads from it after *)
(* the comment removers: the words funcNameSplitter splits it into, its   *)
(* counts of "{" and "}", whether it has "(", "ieutTRACE" and ";", and the *)
(* trace value and kind the ieutTRACEL regexes extract.  `tag` is a ghost *)
(* naming the function and statement a line belongs to.                    *)
(*                                                                         *)
(* The identifier's file part, the first four bytes of md5(base name), is *)
(* the same for every line of a file, so a catalog key is the line number. *)
(***************************************************************************)
EXTENDS Naturals, Sequences, FiniteSets, Functions, SequencesExt, TLC

CONSTANTS
  FuncNames,    \* names of the functions in the file
  Values,       \* value labels of the trace statements
  MaxFuncs,     \* bound on functions in the file
  MaxStmts,     \* bound on statements in a function body
  SigStyles,    \* signature layouts: "oneline", "split"
  StmtStyles,   \* statement layouts: "plain", "trace", "contd", "guarded", "guardedContd"
  NoFunc,       \* CurrentFunction "" (outside a function)
  Unknown       \* getFuncName's "Unknown"

ASSUME /\ SigStyles \subseteq {"oneline", "split"}
       /\ StmtStyles \subseteq {"plain", "trace", "contd", "guarded", "guardedContd"}
       /\ NoFunc \notin FuncNames /\ Unknown \notin FuncNames

\* a physical line as parseSourceLine sees it
L(words, open, close, paren, trace, semi, value, tag) ==
  [words |-> words, open |-> open, close |-> close, paren |-> paren,
   trace |-> trace, semi |-> semi, value |-> value, tag |-> tag]
NoTag == [fn |-> NoFunc, s |-> 0]

-----------------------------------------------------------------------------
(* The source file                                                         *)

StmtLines(fn, s, st) ==
  LET t == [fn |-> fn, s |-> s] IN
  CASE st.style = "plain" ->         \* x = f(y);
         <<L(<<>>, 0, 0, TRUE, FALSE, TRUE, st.value, NoTag)>>
    [] st.style = "trace" ->         \* ieutTRACEL(pThreadData, v, FUNCTION_ENTRY "...");
         <<L(<<>>, 0, 0, TRUE, TRUE, TRUE, st.value, t)>>
    [] st.style = "contd" ->         \* ieutTRACEL(pThreadData, v, FUNCTION_IDENT "...",
         <<L(<<>>, 0, 0, TRUE, TRUE, FALSE, st.value, t),   \*       arg);
           L(<<>>, 0, 0, FALSE, FALSE, TRUE, st.value, t)>>
    [] st.style = "guarded" ->       \* if (rc) { ieutTRACEL(pThreadData, v, ...); }
         <<L(<<>>, 1, 1, TRUE, TRUE, TRUE, st.value, t)>>
    [] st.style = "guardedContd" ->  \* if (rc) { ieutTRACEL(pThreadData, v, ...,
         <<L(<<>>, 1, 0, TRUE, TRUE, FALSE, st.value, t),   \*       arg); }
           L(<<>>, 0, 1, FALSE, FALSE, TRUE, st.value, t)>>

\* static int <name>(void) {   or   static int / <name>(void) {, with the
\* brace at the end of the signature or on the next line
SigLines(f) ==
  LET brace == IF f.sameLineBrace THEN <<"{">> ELSE <<>>
      opens == IF f.sameLineBrace THEN 1 ELSE 0
      sig   == IF f.sig = "oneline"
               THEN <<L(<<"static", "int", f.name, "void)">> \o brace,
                        opens, 0, TRUE, FALSE, FALSE, Unknown, NoTag)>>
               ELSE <<L(<<"static", "int">>, 0, 0, FALSE, FALSE, FALSE, Unknown, NoTag),
                      L(<<f.name, "void)">> \o brace,
                        opens, 0, TRUE, FALSE, FALSE, Unknown, NoTag)>>
  IN IF f.sameLineBrace THEN sig
     ELSE sig \o <<L(<<"{">>, 1, 0, FALSE, FALSE, FALSE, Unknown, NoTag)>>

FuncLines(f) ==
  SigLines(f) \o
  FoldLeft(LAMBDA acc, s : acc \o StmtLines(f.name, s, f.body[s]), <<>>,
           [s \in DOMAIN f.body |-> s]) \o
  <<L(<<"}">>, 0, 1, FALSE, FALSE, FALSE, Unknown, NoTag)>>

SourceLines(prog) == FoldLeft(LAMBDA acc, f : acc \o FuncLines(f), <<>>, prog)

Stmts == [style : StmtStyles, value : Values]
Bodies == UNION {[1..k -> Stmts] : k \in 1..MaxStmts}
Funcs(n) == [name : FuncNames, sig : SigStyles, sameLineBrace : BOOLEAN, body : Bodies]
Programs ==
  UNION {{p \in [1..n -> Funcs(n)] : IsInjective([i \in 1..n |-> p[i].name])} :
           n \in 1..MaxFuncs}

-----------------------------------------------------------------------------
(* getFuncName, parseSourceLine, parseSourceFile                          *)

Reserved == {"static", "inline", "XAPI", "WARN_CHECKRC"}

\* mutant: "static" is not skipped
GetFuncNameNoReserved(words) ==
  IF Len(words) >= 2 THEN words[2] ELSE Unknown

\* the second word that is not a qualifier ("*" removal: no pointer
\* returns are generated)
GetFuncName(words) ==
  LET names == SelectSeq(words, LAMBDA w : w \notin Reserved)
  IN IF Len(names) >= 2 THEN names[2] ELSE Unknown

VARIABLES
  src,         \* the source file's lines
  prog,        \* the program they are the text of (ghost)
  lineNum,     \* lines read so far
  depth,       \* parseContext.CurlyDepth
  curFunc,     \* parseContext.CurrentFunction
  incomplete,  \* incompleteStatement: the statement so far, or <<>>
  catalog,     \* traceContext.TracePoints of this file: line -> entry
  phase        \* "run", "done" or "fatal"

vars == <<src, prog, lineNum, depth, curFunc, incomplete, catalog, phase>>

\* incompleteStatement + " " + TrimLeft(srcline): the words and counts of
\* both parts; the regexes find the trace macro of the first part
Concat(a, l) ==
  [a EXCEPT !.words = a.words \o l.words, !.open = a.open + l.open,
            !.close = a.close + l.close, !.paren = a.paren \/ l.paren,
            !.trace = a.trace \/ l.trace, !.semi = a.semi \/ l.semi]

\* mutant: a function starts on a "(" line that leaves the depth at 0
ParseSourceLineNewDepth(st, d, fn) ==
  LET newDepth == d + st.open - st.close
      newFunc  == CASE newDepth = 0 /\ st.paren   -> GetFuncName(st.words)
                    [] d # 0 /\ newDepth = 0    -> NoFunc
                    [] OTHER                    -> fn
  IN [depth |-> newDepth, fn |-> newFunc, complete |-> ~st.trace \/ st.semi]

\* parseSourceLine on a whole statement: the new depth, function and
\* whether the statement is complete
ParseSourceLine(st, d, fn) ==
  LET newDepth == d + st.open - st.close
      newFunc  == CASE d = 0 /\ st.paren        -> GetFuncName(st.words)
                    [] d # 0 /\ newDepth = 0    -> NoFunc
                    [] OTHER                    -> fn
  IN [depth |-> newDepth, fn |-> newFunc, complete |-> ~st.trace \/ st.semi]

\* mutant: each line is parsed on its own, the incomplete part dropped
ReadSourceLineNoJoin ==
  /\ phase = "run" /\ lineNum < Len(src)
  /\ LET st == src[lineNum + 1]
         r  == ParseSourceLine(st, depth, curFunc)
     IN IF r.depth < 0
        THEN phase' = "fatal" /\ UNCHANGED <<depth, curFunc, incomplete, catalog>>
        ELSE /\ depth' = r.depth /\ curFunc' = r.fn
             /\ incomplete' = IF r.complete THEN <<>> ELSE <<st>>
             /\ catalog' = IF r.complete /\ st.trace
                           THEN (lineNum + 1 :> [fn |-> r.fn, value |-> st.value]) @@ catalog
                           ELSE catalog
             /\ UNCHANGED phase
  /\ lineNum' = lineNum + 1
  /\ UNCHANGED <<src, prog>>

\* one iteration of parseSourceFile's loop: line lineNum + 1 is read,
\* joined to an incomplete statement, parsed, and catalogued when it
\* completes a trace statement
ReadSourceLine ==
  /\ phase = "run" /\ lineNum < Len(src)
  /\ LET line == src[lineNum + 1]
         st   == IF incomplete # <<>> THEN Concat(incomplete[1], line) ELSE line
         r    == ParseSourceLine(st, depth, curFunc)
     IN IF r.depth < 0
        THEN phase' = "fatal" /\ UNCHANGED <<depth, curFunc, incomplete, catalog>>
        ELSE /\ depth' = r.depth /\ curFunc' = r.fn
             /\ incomplete' = IF r.complete THEN <<>> ELSE <<st>>
             /\ catalog' = IF r.complete /\ st.trace
                           THEN (lineNum + 1 :> [fn |-> r.fn, value |-> st.value])
                                  @@ catalog
                           ELSE catalog
             /\ UNCHANGED phase
  /\ lineNum' = lineNum + 1
  /\ UNCHANGED <<src, prog>>

\* io.EOF: the loop ends, an incomplete statement with it
EndOfSourceFile ==
  /\ phase = "run" /\ lineNum = Len(src)
  /\ phase' = "done"
  /\ UNCHANGED <<src, prog, lineNum, depth, curFunc, incomplete, catalog>>

Init ==
  /\ prog \in Programs /\ src = SourceLines(prog)
  /\ lineNum = 0 /\ depth = 0 /\ curFunc = NoFunc /\ incomplete = <<>>
  /\ catalog = [l \in {} |-> [fn |-> NoFunc, value |-> Unknown]]
  /\ phase = "run"

Next == ReadSourceLine \/ EndOfSourceFile

Spec == Init /\ [][Next]_vars

-----------------------------------------------------------------------------
(* Properties                                                              *)

\* a continued guarded statement can leave one brace too many per statement
MaxDepth == 1 + MaxFuncs * MaxStmts
\* the words that can stand second after the qualifiers on a "(" line
\* at depth 0: a name, or the parameter list of a split signature
Words == FuncNames \cup {"void)"}

\* The variables keep their types; the current function is always a word
\* getFuncName can take from a signature.

TypeOK ==
  /\ prog \in Programs /\ lineNum \in 0..Len(src)
  /\ depth \in 0..MaxDepth
  /\ curFunc \in Words \cup {NoFunc, Unknown}
  /\ Len(incomplete) <= 1
  /\ DOMAIN catalog \subseteq 1..Len(src)
  /\ phase \in {"run", "done", "fatal"}

\* the trace statements of the file, and the lines each is written on
TraceStmts == {src[i].tag : i \in DOMAIN src} \ {NoTag}
StmtLinesOf(t) == {i \in DOMAIN src : src[i].tag = t}

\* Once the file is read, every trace statement, one-line or continued,
\* guarded or not, is in the catalog once, under one of its own lines and
\* with its value; nothing else is (the incompleteStatement continuation
\* of parseSourceFile and the trace detection of parseSourceLine).
CatalogHasEveryTracePoint ==
  phase = "done" =>
    /\ DOMAIN catalog \subseteq UNION {StmtLinesOf(t) : t \in TraceStmts}
    /\ \A t \in TraceStmts :
         \E i \in StmtLinesOf(t) :
           /\ StmtLinesOf(t) \cap DOMAIN catalog = {i}
           /\ catalog[i].value = src[i].value

\* Every catalogued trace point is attributed to the function it is written
\* in (CurlyDepth and CurrentFunction of parseSourceLine, getFuncName).
CatalogFunctionsMatchSource ==
  \A t \in TraceStmts :
    \A i \in StmtLinesOf(t) \cap DOMAIN catalog : catalog[i].fn = t.fn

=============================================================================
