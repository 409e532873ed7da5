------------------------------ MODULE TrcHistRaw ------------------------------
(***************************************************************************)
(* The circular-buffer decoder of tracehistorybuffer/trchistfmt.go: main  *)
(* (the -r branch), parseRawTraceDir with rawTraceDirWalkVisit, and       *)
(* parseRawConcatTraceFile, with the rendering of TraceRender.            *)
(*                                                                         *)
(* A snapshot file thread_<addr>_<status>_<bufCurPos>_<bufSize>.rawconcattrc*)
(* holds the bufSize identifier slots and then the bufSize value slots of *)
(* one thread's history buffer, in slot order.  The buffer is written     *)
(* round-robin, so the oldest entry is in slot bufCurPos.  `snaps` holds  *)
(* the snapshots the walks visit, by directory and place in walk order,   *)
(* each with `chrono`, its entries oldest first as the engine wrote them; *)
(* slots never written hold identifier 0.                                 *)
(***************************************************************************)
EXTENDS TraceRender, FiniteSets, SequencesExt, TLC

CONSTANTS
  Layout,     \* the -r directories: for each, the statuses of its snapshots
  Idents,     \* identifiers a slot may hold (0, catalogued, unknown)
  CycleUnit,  \* cycle counts are multiples of it
  MaxTick,    \* largest cycle count is MaxTick * CycleUnit
  MaxSize     \* bound on bufSize

ASSUME /\ Layout \in Seq(Seq({"active", "saved"}))
       /\ DOMAIN TracePoints \subseteq Idents /\ 0 \in Idents
       /\ MaxSize \in Nat \ {0}
       /\ MaxUint64 > MaxTick * CycleUnit

VARIABLES
  snaps,      \* <<dir, index in its walk>> -> snapshot (the input)
  pass,       \* "measure" (findLowCycles) or "render"
  phase,      \* "run" or "done"
  dir, file,  \* the walk: index of the -r directory and of the snapshot in it
  threadNum,  \* RawWalkThreadNum
  low,        \* traceContext.LowCycles
  disk        \* output file name -> formatted lines

vars == <<snaps, pass, phase, dir, file, threadNum, low, disk>>

IsTimingIdent(i) ==
  i \in DOMAIN TracePoints /\ TracePoints[i].value \in {"entryTime", "exitTime"}

\* what a history-buffer slot can hold: timing points carry a cycle count
Slots == {<<i, 0>> : i \in {i \in Idents : ~IsTimingIdent(i)}} \cup
         {<<i, t * CycleUnit>> : i \in {i \in Idents : IsTimingIdent(i)},
                                 t \in 1..MaxTick}

\* buffer contents oldest first, with cycle counts increasing over time
Chronos(n) ==
  {c \in [1..n -> Slots] :
     \A a, b \in 1..n : a < b /\ IsTimingIdent(c[a][1]) /\ IsTimingIdent(c[b][1])
                          => c[a][2] < c[b][2]}

\* the engine's round-robin writes: entry k (from 0) of the last bufSize
\* sits in slot (bufCurPos + k) % bufSize
RingSlots(chrono, p) ==
  [s \in 1..Len(chrono) |-> chrono[((s - 1 - p) % Len(chrono)) + 1]]

\* a snapshot: bufCurPos and the slots of the buffer as dumped; the status
\* in the file name is Layout's
Snapshots ==
  UNION {{[pos |-> p, chrono |-> c,
           idents |-> [k \in 1..n |-> RingSlots(c, p)[k][1]],
           values |-> [k \in 1..n |-> RingSlots(c, p)[k][2]]] :
            p \in 0..n - 1, c \in Chronos(n)} : n \in 1..MaxSize}

\* the snapshot files the walks visit: <<dir, index in the walk>>
WalkFiles == UNION {{<<d, f>> : f \in DOMAIN Layout[d]} : d \in DOMAIN Layout}

-----------------------------------------------------------------------------
(* parseRawConcatTraceFile                                                 *)

\* mutant: a strict comparison with bufCurPos
PlacedStrictCompare(raw, bufCurPos) ==
  LET bufSize == Len(raw)
      Idx(i) == IF i > bufCurPos THEN i - bufCurPos ELSE i + bufSize - bufCurPos
  IN FoldLeft(LAMBDA arr, i : [arr EXCEPT ![Idx(i) + 1] = raw[i + 1]],
              [k \in 1..bufSize |-> 0], [k \in 1..bufSize |-> k - 1])

\* the two read loops: slot i (from 0) goes to index i - bufCurPos, or
\* i + bufSize - bufCurPos when i < bufCurPos
Placed(raw, bufCurPos) ==
  LET bufSize == Len(raw)
      Idx(i) == IF i >= bufCurPos THEN i - bufCurPos ELSE i + bufSize - bufCurPos
  IN FoldLeft(LAMBDA arr, i : [arr EXCEPT ![Idx(i) + 1] = raw[i + 1]],
              [k \in 1..bufSize |-> 0], [k \in 1..bufSize |-> k - 1])

FindLow == pass = "measure"

\* the output loop: outputTracePoint for every slot, oldest first
RenderSlots(traceIdents, traceValues, low0) ==
  FoldLeft(LAMBDA acc, i :
             LET r == OutputTracePoint(acc.pc, acc.low, traceIdents[i],
                                       traceValues[i], FindLow)
             IN [pc |-> r.pc, low |-> r.low, out |-> acc.out \o r.out],
           [pc |-> NewParseContext, low |-> low0, out |-> <<>>],
           [k \in 1..Len(traceIdents) |-> k])

\* getFmtTraceFileName(outDir, "fromRaw", status, threadNum)
FromRawName(status, n) == [status |-> status, num |-> n]

\* mutant: the value slots are taken unrotated
ParseRawConcatTraceFileValuesUnrotated ==
  /\ phase = "run" /\ dir <= Len(Layout) /\ file \in 1..Len(Layout[dir])
  /\ LET s == snaps[<<dir, file>>]
         r == RenderSlots(Placed(s.idents, s.pos), s.values, low)
     IN /\ low' = r.low
        /\ disk' = IF FindLow THEN disk
                   ELSE (FromRawName(Layout[dir][file], threadNum) :> r.out) @@ disk
  /\ threadNum' = threadNum + 1 /\ file' = file + 1
  /\ UNCHANGED <<snaps, pass, phase, dir>>

\* mutant: RawWalkThreadNum is not advanced
ParseRawConcatTraceFileNoIncrement ==
  /\ phase = "run" /\ dir <= Len(Layout) /\ file \in 1..Len(Layout[dir])
  /\ LET s == snaps[<<dir, file>>]
         r == RenderSlots(Placed(s.idents, s.pos), Placed(s.values, s.pos), low)
     IN /\ low' = r.low
        /\ disk' = IF FindLow THEN disk
                   ELSE (FromRawName(Layout[dir][file], threadNum) :> r.out) @@ disk
  /\ UNCHANGED threadNum /\ file' = file + 1
  /\ UNCHANGED <<snaps, pass, phase, dir>>

\* rawTraceDirWalkVisit on a snapshot: parseRawConcatTraceFile, then
\* RawWalkThreadNum++.  In render mode the output file is created
\* (truncated) and written.
ParseRawConcatTraceFile ==
  /\ phase = "run" /\ dir <= Len(Layout) /\ file \in 1..Len(Layout[dir])
  /\ LET s == snaps[<<dir, file>>]
         r == RenderSlots(Placed(s.idents, s.pos), Placed(s.values, s.pos), low)
     IN /\ low' = r.low
        /\ disk' = IF FindLow THEN disk
                   ELSE (FromRawName(Layout[dir][file], threadNum) :> r.out) @@ disk
  /\ threadNum' = threadNum + 1 /\ file' = file + 1
  /\ UNCHANGED <<snaps, pass, phase, dir>>

\* mutant: parseRawTraceDir does not reset RawWalkThreadNum
StartRawTraceDirNoReset ==
  /\ phase = "run" /\ dir <= Len(Layout) /\ file = 0
  /\ file' = 1
  /\ UNCHANGED <<snaps, pass, phase, dir, threadNum, low, disk>>

\* parseRawTraceDir: RawWalkThreadNum = 0, then the walk of the directory
StartRawTraceDir ==
  /\ phase = "run" /\ dir <= Len(Layout) /\ file = 0
  /\ file' = 1 /\ threadNum' = 0
  /\ UNCHANGED <<snaps, pass, phase, dir, low, disk>>

\* the walk of a directory is over; main goes on to the next -r directory
EndRawTraceDir ==
  /\ phase = "run" /\ dir <= Len(Layout) /\ file > Len(Layout[dir])
  /\ dir' = dir + 1 /\ file' = 0
  /\ UNCHANGED <<snaps, pass, phase, threadNum, low, disk>>

\* every -r directory is walked: after the measurement pass main walks
\* them all again in render mode
EndOfDirs ==
  /\ phase = "run" /\ dir > Len(Layout)
  /\ IF pass = "measure"
     THEN pass' = "render" /\ dir' = 1 /\ file' = 0 /\ UNCHANGED phase
     ELSE phase' = "done" /\ UNCHANGED <<pass, dir, file>>
  /\ UNCHANGED <<snaps, threadNum, low, disk>>

Init ==
  /\ snaps \in [WalkFiles -> Snapshots]
  /\ pass = IF BaseTime # 0 THEN "measure" ELSE "render"
  /\ phase = "run" /\ dir = 1 /\ file = 0 /\ threadNum = 0
  /\ low = MaxUint64 /\ disk = [f \in {} |-> <<>>]

Next == StartRawTraceDir \/ ParseRawConcatTraceFile \/ EndRawTraceDir \/ EndOfDirs

Spec == Init /\ [][Next]_vars

-----------------------------------------------------------------------------
(* Properties                                                              *)

MaxWalk == Cardinality(WalkFiles)
Names == {FromRawName(st, n) : st \in {"active", "saved"}, n \in 0..MaxWalk}

TypeOK ==
  /\ snaps \in [WalkFiles -> Snapshots]
  /\ pass \in {"measure", "render"} /\ phase \in {"run", "done"}
  /\ dir \in 1..Len(Layout) + 1 /\ file \in 0..MaxWalk + 1 /\ threadNum \in 0..MaxWalk
  /\ low \in {MaxUint64} \cup {t * CycleUnit : t \in 1..MaxTick}
  /\ DOMAIN disk \subseteq Names

\* Reading the dumped slots from bufCurPos on puts back the order in which
\* the engine wrote them: the index arithmetic of the two read loops of
\* parseRawConcatTraceFile undoes the round-robin write, for every buffer
\* size and position the snapshots take.
PlacementRestoresWriteOrder ==
  \A w \in WalkFiles :
    LET s == snaps[w] IN
    /\ Placed(s.idents, s.pos) = [k \in DOMAIN s.chrono |-> s.chrono[k][1]]
    /\ Placed(s.values, s.pos) = [k \in DOMAIN s.chrono |-> s.chrono[k][2]]

\* the cycle counts of all entry and exit slots of all snapshots
TimingCycles ==
  UNION {{e[2] : e \in {e \in ToSet(snaps[w].chrono) : IsTimingIdent(e[1])}} :
           w \in WalkFiles}

RefLow == IF TimingCycles = {} THEN MaxUint64
          ELSE CHOOSE c \in TimingCycles : \A d \in TimingCycles : c <= d

\* the spec's naming: the status and a sequential thread number, counting
\* the snapshots of all directories in walk order
SnapshotFile(w) ==
  FromRawName(Layout[w[1]][w[2]],
              Cardinality({v \in WalkFiles : v[1] < w[1] \/ (v[1] = w[1] /\ v[2] < w[2])}))

\* When the decoder finishes, every snapshot's formatted file holds its
\* entries oldest first, each timestamped against the lowest cycle count
\* of all snapshots, with its took/delay annotations (the measurement
\* walk, the rotation and the output loop of parseRawConcatTraceFile).
RawRenderedAsReference ==
  phase = "done" =>
    \A w \in WalkFiles :
      /\ SnapshotFile(w) \in DOMAIN disk
      /\ disk[SnapshotFile(w)] = RefRender(snaps[w].chrono, RefLow)

\* Every snapshot of every -r directory gets a formatted file of its own:
\* none is overwritten by a later one (getFmtTraceFileName with
\* RawWalkThreadNum).
OneFilePerSnapshot ==
  phase = "done" => Cardinality(DOMAIN disk) = Cardinality(WalkFiles)

=============================================================================
