----------------------------- MODULE TraceRender -----------------------------
(***************************************************************************)
(* outputTracePoint of tracehistorybuffer/trchistfmt.go: one decoded      *)
(* trace point (identifier, value) of one thread turned into a formatted  *)
(* line, with the per-thread TraceParseContext that carries function      *)
(* entry/exit cycles from one point to the next and the run-wide          *)
(* LowCycles baseline.  Shared by the textual (TrcHistText) and the       *)
(* circular-buffer (TrcHistRaw) decoders.                                 *)
(*                                                                         *)
(* A formatted line is abstracted to what a reader of it can tell apart:  *)
(* which trace point it is (or that the identifier was unexpected), the   *)
(* "[<n>ns]" timestamp, the "<func> took ... (<n> cycles)" annotation and *)
(* the "delay ... (<n> cycles)" annotation.  Column layout, the hex value *)
(* and the millisecond figures are left out.                              *)
(***************************************************************************)
EXTENDS Naturals, Sequences

CONSTANTS
  TracePoints,  \* the catalog: identifier -> [fn |-> Function, value |-> Value]
  BaseTime,     \* the -b flag; 0 when no base time is given
  NoFunc,       \* the empty function name ""
  MaxUint64     \* math.MaxUint64, the initial LowCycles; above every cycle count

ASSUME /\ BaseTime \in Nat
       /\ 0 \notin DOMAIN TracePoints
       /\ \A i \in DOMAIN TracePoints :
            TracePoints[i].value \in {"entryTime", "exitTime", "", "other"}

\* TraceParseContext as parseThreadData/parseRawConcatTraceFile create it
NewParseContext ==
  [inFunc |-> NoFunc, funcEntry |-> FALSE,
   funcEntryCycles |-> 0, funcExitCycles |-> 0]

\* uint64(float64(cycles) * CyclesToNanos) with cpuGHz = 2.9 and
\* CyclesToNanos = 1/(2.9*1000), for cycle counts that are not a multiple
\* of 2900 (for those the float product can round to one less)
ToNanos(cycles) == (cycles * 10) \div 29000

\* the "[<n>ns] " prefix, present only when a base time was given
Stamp(low, cycles) ==
  IF BaseTime # 0 THEN <<BaseTime + ToNanos(cycles - low)>> ELSE <<>>

\* "!!!Unexpected TracePoint: ..." (the value is not printed)
Unexpected(ident) ==
  [ident |-> ident, known |-> FALSE, v |-> 0, ns |-> <<>>, took |-> <<>>, delay |-> <<>>]
\* a catalogued point; the value is printed only when the point has a Value
PointLine(ident, v, ns, took, delay) ==
  [ident |-> ident, known |-> TRUE, v |-> v, ns |-> ns, took |-> took, delay |-> delay]

Min2(a, b) == IF a < b THEN a ELSE b

\* mutant: an exit leaves InFunc set, so a later exit reports "took" again
OutputTracePointKeepInFunc(pc, low, ident, v, findLow) ==
  LET tp  == TracePoints[ident]
      pc1 == IF pc.funcEntry
             THEN [pc EXCEPT !.inFunc = tp.fn, !.funcEntry = FALSE] ELSE pc
      Took == IF ~findLow /\ pc1.inFunc # NoFunc
              THEN <<[fn |-> pc1.inFunc, cycles |-> v - pc1.funcEntryCycles]>>
              ELSE <<>>
      Delay == IF ~findLow /\ pc.funcExitCycles # 0
               THEN <<v - pc.funcExitCycles>> ELSE <<>>
      Ns  == IF findLow THEN <<>> ELSE Stamp(low, v)
      Low == IF findLow THEN Min2(low, v) ELSE low
  IN CASE ident = 0 -> [pc |-> pc, low |-> low, out |-> <<>>]
       [] ident \notin DOMAIN TracePoints ->
            [pc |-> pc, low |-> low, out |-> <<Unexpected(ident)>>]
       [] tp.value = "" ->
            [pc |-> pc, low |-> low, out |-> <<PointLine(ident, 0, <<>>, <<>>, <<>>)>>]
       [] tp.value = "exitTime" ->
            [pc |-> [pc1 EXCEPT !.funcExitCycles = v], low |-> Low,
             out |-> <<PointLine(ident, v, Ns, Took, <<>>)>>]
       [] tp.value = "entryTime" ->
            [pc  |-> [pc1 EXCEPT !.funcEntry = TRUE, !.funcEntryCycles = v],
             low |-> Low, out |-> <<PointLine(ident, v, Ns, <<>>, Delay)>>]
       [] OTHER ->
            [pc |-> pc1, low |-> low, out |-> <<PointLine(ident, v, <<>>, <<>>, <<>>)>>]

\* outputTracePoint(writer, ident, value, ...): the new parse context, the
\* new LowCycles and the line written (nothing for identifier 0).  With
\* findLow the line is computed but there is no writer to write it to.
OutputTracePoint(pc, low, ident, v, findLow) ==
  LET tp  == TracePoints[ident]
      pc1 == IF pc.funcEntry
             THEN [pc EXCEPT !.inFunc = tp.fn, !.funcEntry = FALSE]
             ELSE pc
      Took  == IF ~findLow /\ pc1.inFunc # NoFunc
               THEN <<[fn |-> pc1.inFunc, cycles |-> v - pc1.funcEntryCycles]>>
               ELSE <<>>
      Delay == IF ~findLow /\ pc.funcExitCycles # 0
               THEN <<v - pc.funcExitCycles>> ELSE <<>>
      Ns    == IF findLow THEN <<>> ELSE Stamp(low, v)
      Low   == IF findLow THEN Min2(low, v) ELSE low
  IN CASE ident = 0 ->
            [pc |-> pc, low |-> low, out |-> <<>>]
       [] ident \notin DOMAIN TracePoints ->
            [pc |-> pc, low |-> low, out |-> <<Unexpected(ident)>>]
       [] tp.value = "" ->
            [pc |-> pc, low |-> low, out |-> <<PointLine(ident, 0, <<>>, <<>>, <<>>)>>]
       [] tp.value = "exitTime" ->
            [pc  |-> [pc1 EXCEPT !.funcExitCycles = v,
                                 !.inFunc = IF findLow THEN @ ELSE NoFunc],
             low |-> Low,
             out |-> <<PointLine(ident, v, Ns, Took, <<>>)>>]
       [] tp.value = "entryTime" ->
            [pc  |-> [pc1 EXCEPT !.funcEntry = TRUE, !.funcEntryCycles = v],
             low |-> Low,
             out |-> <<PointLine(ident, v, Ns, <<>>, Delay)>>]
       [] OTHER ->
            [pc |-> pc1, low |-> low, out |-> <<PointLine(ident, v, <<>>, <<>>, <<>>)>>]

-----------------------------------------------------------------------------
(* What a formatted thread trace should say, stated over the whole        *)
(* sequence of a thread's events at once (the spec, Renderer).  evts is a *)
(* sequence of <<identifier, value>>; low the run-wide lowest entry/exit  *)
(* cycle count.                                                            *)

Known(e) == e[1] \in DOMAIN TracePoints
ValueOf(e) == TracePoints[e[1]].value
IsTiming(e) == Known(e) /\ ValueOf(e) \in {"entryTime", "exitTime"}
IsValued(e) == Known(e) /\ ValueOf(e) # ""

\* the last entry or exit before position i
LastTiming(evts, i) == {j \in 1..i - 1 : IsTiming(evts[j]) /\
                          \A k \in j + 1..i - 1 : ~IsTiming(evts[k])}

RefTook(evts, i) ==
  LET J == LastTiming(evts, i)
  IN IF J = {} THEN <<>>
     ELSE LET j == CHOOSE j \in J : TRUE
              \* the first valued point after the entry names the function
              k == CHOOSE k \in j + 1..i :
                     IsValued(evts[k]) /\ \A m \in j + 1..k - 1 : ~IsValued(evts[m])
              fn == TracePoints[evts[k][1]].fn
          IN IF ValueOf(evts[j]) = "entryTime" /\ fn # NoFunc
             THEN <<[fn |-> fn, cycles |-> evts[i][2] - evts[j][2]]>>
             ELSE <<>>

RefDelay(evts, i) ==
  LET X == {j \in 1..i - 1 : IsTiming(evts[j]) /\ ValueOf(evts[j]) = "exitTime"}
  IN IF X = {} THEN <<>>
     ELSE <<evts[i][2] - evts[CHOOSE j \in X : \A m \in X : m <= j][2]>>

RefLine(evts, i, low) ==
  LET e == evts[i] IN
  CASE ~Known(e) -> Unexpected(e[1])
    [] ValueOf(e) = "exitTime" ->
         PointLine(e[1], e[2], Stamp(low, e[2]), RefTook(evts, i), <<>>)
    [] ValueOf(e) = "entryTime" ->
         PointLine(e[1], e[2], Stamp(low, e[2]), <<>>, RefDelay(evts, i))
    [] ValueOf(e) = "" -> PointLine(e[1], 0, <<>>, <<>>, <<>>)
    [] OTHER -> PointLine(e[1], e[2], <<>>, <<>>, <<>>)

\* the formatted trace of a thread: one line per event with a nonzero
\* identifier
RefRender(evts, low) ==
  LET nz == SelectSeq(evts, LAMBDA e : e[1] # 0)
  IN [i \in 1..Len(nz) |-> RefLine(nz, i, low)]

=============================================================================
