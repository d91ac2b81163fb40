---------------------------- MODULE CommitProofs ----------------------------
(***************************************************************************)
(* Proofs about what the scheduler relies on when it commits a window: the *)
(* accounting of the records it exports, and the file its cursor is kept   *)
(* in.  Each part is about its own component, for every number of records, *)
(* failures, collectors and cursors.                                       *)
(***************************************************************************)
EXTENDS ExportCommit, CheckpointFile, TLAPS

-----------------------------------------------------------------------------
(* ExportCommit: commits, for any number of records and failures.           *)

\* An export under way is a batch, never the absence of one.
LEMMA BatchTyped ==
  ASSUME NEW b \in SUBSET Nat, NEW a \in SUBSET Nat, NEW by \in Callers
  PROVE  /\ Batch(b, a, by) \in ExportType /\ Batch(b, a, by) # NoBatch
         /\ Batch(b, a, by).batch = b /\ Batch(b, a, by).after = a
         /\ Batch(b, a, by).by = by
  <1>1. Batch(b, a, by) \in BatchType
    BY DEF Batch, BatchType
  <1>2. /\ Batch(b, a, by).batch = b /\ Batch(b, a, by).after = a
        /\ Batch(b, a, by).by = by
    BY DEF Batch
  <1> QED
    BY <1>1, <1>2, NoBatchAssumption DEF ExportType

LEMMA ExportTyped ==
  ASSUME NEW x \in ExportType, x # NoBatch
  PROVE  x.batch \in SUBSET Nat /\ x.after \in SUBSET Nat /\ x.by \in Callers
  BY DEF ExportType, BatchType

-----------------------------------------------------------------------------
(* The observer. *)

\* Recording a failure keeps the list complete up to the count.
LEMMA RecordObserver ==
  ASSUME ObserverOK, NEW kind \in Kinds, Record(kind)
  PROVE  ObserverOK' /\ seq' = seq + 1
  <1> DEFINE f == [seq |-> seq + 1, kind |-> kind]
  <1> DEFINE longer == Append(failures, f)
  <1>1. seq \in Nat /\ failures \in Seq(FailureType) /\ f \in FailureType
    BY DEF ObserverOK, FailureType
  <1>2. seq' = seq + 1 /\ failures' = Capped(longer)
    BY DEF Record
  <1>3. /\ longer \in Seq(FailureType) /\ Len(longer) = Len(failures) + 1
        /\ \A i \in 1 .. Len(longer) : longer[i].seq = seq + 1 - Len(longer) + i
    <2> HIDE DEF f
    <2>1. longer \in Seq(FailureType) /\ Len(longer) = Len(failures) + 1
      BY <1>1
    <2>2. \A i \in 1 .. Len(failures) : longer[i] = failures[i]
      BY <1>1
    <2>3. longer[Len(failures) + 1] = f
      BY <1>1
    <2>4. f.seq = seq + 1
      BY DEF f
    <2>5. Len(failures) \in Nat
      BY <1>1
    <2> HIDE DEF longer
    <2>6. ASSUME NEW i \in 1 .. Len(longer)
          PROVE  longer[i].seq = seq + 1 - Len(longer) + i
      <3>1. CASE i \in 1 .. Len(failures)
        <4>1. longer[i].seq = seq - Len(failures) + i
          BY <2>2, <3>1 DEF ObserverOK
        <4> QED
          BY <1>1, <2>1, <2>5, <4>1
      <3>2. CASE i = Len(failures) + 1
        BY <1>1, <2>1, <2>3, <2>4, <2>5, <3>2
      <3> QED
        BY <2>1, <2>5, <3>1, <3>2
    <2> QED
      BY <2>1, <2>6
  <1> HIDE DEF longer
  <1>4. CASE Len(longer) > Cap
    <2>1. failures' = SubSeq(longer, Len(longer) - Cap + 1, Len(longer))
      BY <1>2, <1>4 DEF Capped
    <2>2. Len(longer) = Cap + 1
      BY <1>1, <1>3, <1>4, ExportAssumption DEF ObserverOK
    <2>3. failures' \in Seq(FailureType) /\ Len(failures') = Cap
      BY <1>3, <2>1, <2>2, ExportAssumption
    <2>4. \A i \in 1 .. Cap : failures'[i] = longer[i + 1]
      BY <1>3, <2>1, <2>2, ExportAssumption
    <2>5. ASSUME NEW i \in 1 .. Cap PROVE failures'[i].seq = seq' - Cap + i
      <3>1. i + 1 \in 1 .. Len(longer)
        BY <2>2, ExportAssumption
      <3>2. longer[i + 1].seq = seq + 1 - Len(longer) + (i + 1)
        BY <1>3, <3>1
      <3>3. failures'[i] = longer[i + 1]
        BY <2>4
      <3>4. Cap \in Nat /\ i \in Nat /\ seq' = seq + 1 /\ seq \in Nat
        BY <1>1, <1>2, ExportAssumption
      <3>5. seq + 1 - Len(longer) + (i + 1) = seq' - Cap + i
        BY <2>2, <3>4
      <3> HIDE DEF longer
      <3> QED BY <3>2, <3>3, <3>5
    <2> QED
      BY <1>1, <1>2, <2>3, <2>5, ExportAssumption DEF ObserverOK
  <1>5. CASE ~(Len(longer) > Cap)
    <2>1. failures' = longer
      BY <1>2, <1>5 DEF Capped
    <2>2. Len(longer) = seq + 1
      BY <1>1, <1>3, <1>5, ExportAssumption DEF ObserverOK
    <2>3. Len(longer) <= Cap
      BY <1>1, <1>3, <1>5, ExportAssumption
    <2> QED
      BY <1>1, <1>2, <1>3, <2>1, <2>2, <2>3 DEF ObserverOK
  <1> QED
    BY <1>4, <1>5

\* What an export changes: nothing is undelivered, success delivers the batch,
\* and a failure is counted.
LEMMA ExportedFacts ==
  ASSUME TypeOK, NEW batch \in SUBSET Nat, NEW result \in Results, Exported(batch, result)
  PROVE  /\ ObserverOK' /\ seq <= seq' /\ seen' \subseteq Kinds
         /\ delivered \subseteq delivered' /\ delivered' \subseteq Nat
         /\ result = "ok" => batch \subseteq delivered' /\ seq' = seq
         /\ result # "ok" => seq' = seq + 1
  <1>1. CASE result = "ok"
    <2>1. /\ delivered' = delivered \cup batch
          /\ seq' = seq /\ failures' = failures /\ seen' = seen
      BY <1>1 DEF Exported, observer
    <2>2. seq \in Nat
      BY DEF TypeOK, ObserverOK
    <2>3. ObserverOK'
      BY <2>1 DEF TypeOK, ObserverOK
    <2>4. delivered' \subseteq Nat /\ seen' \subseteq Kinds
      BY <2>1 DEF TypeOK
    <2> QED
      BY <1>1, <2>1, <2>2, <2>3, <2>4
  <1>2. CASE result = "rejected"
    <2>1. Record("rejected")
      BY <1>2 DEF Exported
    <2>2. ObserverOK' /\ seq' = seq + 1 /\ seq \in Nat
      BY <2>1, RecordObserver DEF Kinds, TypeOK, ObserverOK
    <2>3. seen' \subseteq Kinds
      BY <2>1 DEF Record, TypeOK, Kinds
    <2>4. delivered \subseteq delivered' /\ delivered' \subseteq Nat
      BY <1>2 DEF Exported, TypeOK
    <2> QED
      BY <1>2, <2>2, <2>3, <2>4
  <1>3. CASE result = "failed"
    <2>1. Record("failed")
      BY <1>3 DEF Exported
    <2>2. ObserverOK' /\ seq' = seq + 1 /\ seq \in Nat
      BY <2>1, RecordObserver DEF Kinds, TypeOK, ObserverOK
    <2>3. seen' \subseteq Kinds
      BY <2>1 DEF Record, TypeOK, Kinds
    <2>4. delivered \subseteq delivered' /\ delivered' \subseteq Nat
      BY <1>3 DEF Exported, TypeOK
    <2> QED
      BY <1>3, <2>2, <2>3, <2>4
  <1> QED
    BY <1>1, <1>2, <1>3 DEF Results, Kinds

-----------------------------------------------------------------------------
(* The type of the variables. *)

LEMMA TypeInit == Init => TypeOK
  <1> SUFFICES ASSUME Init PROVE TypeOK
    OBVIOUS
  <1>1. ObserverOK
    BY ExportAssumption DEF Init, ObserverOK
  <1>2. flushed \in [Signals -> FlushType]
    BY DEF Init, NotFlushed, FlushType
  <1> QED
    BY <1>1, <1>2 DEF Init, TypeOK, ExportType, Phases, Kinds, Results

LEMMA EmitLogTyped ==
  ASSUME TypeOK, NEW r \in Nat, NEW by \in Callers, EmitLog(r, by)
  PROVE  logPending' \subseteq Nat /\ logExport' \in ExportType
  <1>1. logPending \in SUBSET Nat /\ {r} \in SUBSET Nat /\ {} \in SUBSET Nat
        /\ logPending \cup {r} \in SUBSET Nat
    BY DEF TypeOK
  <1>2. Batch(logPending \cup {r}, {}, by) \in ExportType
    BY <1>1, BatchTyped
  <1>3. Batch(logPending, {r}, by) \in ExportType
    BY <1>1, BatchTyped
  <1> QED
    BY <1>1, <1>2, <1>3 DEF EmitLog, ExportType

LEMMA TypeStep == TypeOK /\ [Next]_vars => TypeOK'
  <1> SUFFICES ASSUME TypeOK, [Next]_vars PROVE TypeOK'
    OBVIOUS
  <1> USE DEF observer, logs, spans, committer
  <1>0. ASSUME UNCHANGED observer PROVE ObserverOK'
    BY <1>0 DEF TypeOK, ObserverOK
  <1>01. seq \in Nat /\ since \in Nat /\ since <= seq
    BY DEF TypeOK, ObserverOK
  <1>1. ASSUME BeginCommit PROVE TypeOK'
    BY <1>0, <1>01, <1>1 DEF BeginCommit, TypeOK, Phases
  <1>2. ASSUME ReplayLog PROVE TypeOK'
    <2>1. created' \in Nat
      BY <1>2 DEF ReplayLog, TypeOK
    <2>2. logPending' \subseteq Nat /\ logExport' \in ExportType
      BY <1>2, <2>1, EmitLogTyped DEF ReplayLog, Callers
    <2>3. mine' \subseteq Nat
      BY <1>2, <2>1 DEF ReplayLog, TypeOK
    <2> QED
      BY <1>0, <1>2, <2>1, <2>2, <2>3 DEF ReplayLog, TypeOK, Phases
  <1>3. ASSUME ReplaySpan PROVE TypeOK'
    BY <1>0, <1>3 DEF ReplaySpan, TypeOK
  <1>4. ASSUME Abort PROVE TypeOK'
    BY <1>0, <1>4 DEF Abort, TypeOK, Phases, Results, Kinds
  <1>5. ASSUME StartFlush PROVE TypeOK'
    BY <1>0, <1>5 DEF StartFlush, TypeOK, Phases, FlushType
  <1>6. ASSUME FlushLogs PROVE TypeOK'
    <2>1. Batch(logPending, {}, "flush") \in ExportType
      BY BatchTyped DEF TypeOK, Callers
    <2>2. logPending' \subseteq Nat /\ logExport' \in ExportType
      BY <1>6, <2>1 DEF FlushLogs, TypeOK
    <2>3. flushed' \in [Signals -> FlushType]
      BY <1>6 DEF FlushLogs, TypeOK, FlushType, Results
    <2> QED
      BY <1>0, <1>6, <2>2, <2>3 DEF FlushLogs, TypeOK
  <1>7. ASSUME FlushSpans PROVE TypeOK'
    <2>1. Batch(spanPending, {}, "flush") \in ExportType
      BY BatchTyped DEF TypeOK, Callers
    <2>2. spanPending' \subseteq Nat /\ spanExport' \in ExportType
      BY <1>7, <2>1 DEF FlushSpans, TypeOK
    <2>3. flushed' \in [Signals -> FlushType]
      BY <1>7 DEF FlushSpans, TypeOK, FlushType, Results
    <2> QED
      BY <1>0, <1>7, <2>2, <2>3 DEF FlushSpans, TypeOK
  <1>8. ASSUME SpanDeadline PROVE TypeOK'
    <2>1. flushed' \in [Signals -> FlushType]
      BY <1>8 DEF SpanDeadline, TypeOK, FlushType, Results, Kinds
    <2> QED
      BY <1>0, <1>8, <2>1 DEF SpanDeadline, TypeOK
  <1>9. ASSUME Judge PROVE TypeOK'
    <2>1. flushed' \in [Signals -> FlushType]
      BY <1>9 DEF Judge, NotFlushed, FlushType
    <2>2. Verdict(FlushLines) \in Results
      BY DEF Verdict, Results, Kinds
    <2>3. phase' \in Phases /\ outcome' \in {"none"} \cup Results
      BY <1>9, <2>2 DEF Judge, Phases, TypeOK
    <2> QED
      BY <1>0, <1>9, <2>1, <2>3 DEF Judge, TypeOK
  <1>10. ASSUME NextChunk PROVE TypeOK'
    BY <1>0, <1>01, <1>10 DEF NextChunk, TypeOK, Phases, Results
  <1>11. ASSUME OtherLog PROVE TypeOK'
    <2>1. created' \in Nat
      BY <1>11 DEF OtherLog, TypeOK
    <2>2. logPending' \subseteq Nat /\ logExport' \in ExportType
      BY <1>11, <2>1, EmitLogTyped DEF OtherLog, Callers
    <2> QED
      BY <1>0, <1>11, <2>1, <2>2 DEF OtherLog, TypeOK
  <1>12. ASSUME LogTick PROVE TypeOK'
    <2>1. logExport' \in ExportType
      BY <1>12, BatchTyped DEF LogTick, TypeOK, Callers
    <2> QED
      BY <1>0, <1>12, <2>1 DEF LogTick, TypeOK
  <1>13. ASSUME SpanTick PROVE TypeOK'
    <2>1. spanExport' \in ExportType
      BY <1>13, BatchTyped DEF SpanTick, TypeOK, Callers
    <2> QED
      BY <1>0, <1>13, <2>1 DEF SpanTick, TypeOK
  <1>14. ASSUME NEW result \in Results, LogExportEnds(result) PROVE TypeOK'
    <2>1. logExport \in ExportType /\ logExport # NoBatch
      BY <1>14 DEF LogExportEnds, TypeOK
    <2>2. /\ logExport.batch \in SUBSET Nat /\ logExport.after \in SUBSET Nat
          /\ logExport.by \in Callers
      BY <2>1, ExportTyped
    <2>3. /\ ObserverOK' /\ seq <= seq' /\ seen' \subseteq Kinds
          /\ delivered' \subseteq Nat
      BY <1>14, <2>2, ExportedFacts DEF LogExportEnds
    <2>4. Batch(logExport.after, {}, logExport.by) \in ExportType
      BY <2>2, BatchTyped
    <2>5. logPending' \subseteq Nat /\ logExport' \in ExportType
      BY <1>14, <2>2, <2>4 DEF LogExportEnds, LogsReleased, ExportType
    <2>6. phase' \in Phases /\ flushed' \in [Signals -> FlushType]
      BY <1>14 DEF LogExportEnds, LogsAnswered, TypeOK, Phases, FlushType
    <2>7. since' \in 0 .. seq'
      BY <1>01, <1>14, <2>3 DEF LogExportEnds, ObserverOK
    <2> QED
      BY <1>14, <2>3, <2>5, <2>6, <2>7 DEF LogExportEnds, TypeOK
  <1>15. ASSUME NEW result \in Results, SpanExportEnds(result) PROVE TypeOK'
    <2>1. spanExport \in ExportType /\ spanExport # NoBatch
      BY <1>15 DEF SpanExportEnds, TypeOK
    <2>2. spanExport.batch \in SUBSET Nat
      BY <2>1, ExportTyped
    <2>3. /\ ObserverOK' /\ seq <= seq' /\ seen' \subseteq Kinds
          /\ delivered' \subseteq Nat
      BY <1>15, <2>2, ExportedFacts DEF SpanExportEnds
    <2>4. flushed' \in [Signals -> FlushType]
      BY <1>15 DEF SpanExportEnds, TypeOK, FlushType
    <2>5. since' \in 0 .. seq'
      BY <1>01, <1>15, <2>3 DEF SpanExportEnds, ObserverOK
    <2>6. spanExport' \in ExportType
      BY <1>15 DEF SpanExportEnds, ExportType
    <2> QED
      BY <1>15, <2>3, <2>4, <2>5, <2>6 DEF SpanExportEnds, TypeOK
  <1>16. ASSUME UNCHANGED vars PROVE TypeOK'
    BY <1>0, <1>16 DEF vars, TypeOK
  <1> QED
    BY <1>1, <1>2, <1>3, <1>4, <1>5, <1>6, <1>7, <1>8, <1>9, <1>10, <1>11, <1>12, <1>13,
       <1>14, <1>15, <1>16 DEF Next, Commit

\* Every variable keeps its type and the observer's bounded list stays the
\* gapless tail of all failures, for every limit Cap.
THEOREM TypeCorrect == Spec => []TypeOK
  BY TypeInit, TypeStep, PTL DEF Spec

-----------------------------------------------------------------------------
(* Delivery.  Tracked is inductive relative to TypeOK. *)

LEMMA TrackedInit == Init => Tracked
  BY DEF Init, Tracked, NotFlushed, InSpans, Signals

\* What an emitted log leaves in the batcher: nothing is lost.
LEMMA EmitLogKeeps ==
  ASSUME TypeOK, NEW r \in Nat, NEW by \in {"commit", "other"}, EmitLog(r, by)
  PROVE  /\ InLogs \subseteq InLogs' /\ r \in InLogs'
         /\ logExport = NoBatch
         /\ logExport' # NoBatch => logPending' = {} /\ logExport'.by = by
  <1>1. logPending \in SUBSET Nat /\ {r} \in SUBSET Nat /\ {} \in SUBSET Nat
        /\ logPending \cup {r} \in SUBSET Nat /\ by \in Callers
    BY DEF TypeOK, Callers
  <1>2. logExport = NoBatch /\ InLogs = logPending
    BY DEF EmitLog, InLogs
  <1>3. CASE logPending' = logPending \cup {r} /\ logExport' = NoBatch
    BY <1>2, <1>3 DEF InLogs
  <1>4. CASE logPending' = {} /\ logExport' = Batch(logPending \cup {r}, {}, by)
    BY <1>1, <1>2, <1>4, BatchTyped DEF InLogs
  <1>5. CASE logPending' = {} /\ logExport' = Batch(logPending, {r}, by)
    BY <1>1, <1>2, <1>5, BatchTyped DEF InLogs
  <1> QED
    BY <1>3, <1>4, <1>5 DEF EmitLog

\* Steps that start an export move records from pending to the export.
LEMMA StartKeeps ==
  ASSUME TypeOK, NEW by \in Callers
  PROVE  /\ logExport = NoBatch /\ logExport' = Batch(logPending, {}, by) /\ logPending' = {}
              => InLogs' = InLogs /\ logExport' # NoBatch /\ logExport'.by = by
                 /\ logExport'.after = {}
         /\ spanExport = NoBatch /\ spanExport' = Batch(spanPending, {}, by) /\ spanPending' = {}
              => InSpans' = InSpans /\ spanExport' # NoBatch /\ spanExport'.by = by
  <1>1. logPending \in SUBSET Nat /\ spanPending \in SUBSET Nat /\ {} \in SUBSET Nat
    BY DEF TypeOK
  <1> QED
    BY <1>1, BatchTyped DEF InLogs, InSpans

LEMMA TrackedStep == TypeOK /\ Tracked /\ [Next]_vars => Tracked'
  <1> SUFFICES ASSUME TypeOK, Tracked, [Next]_vars PROVE Tracked'
    OBVIOUS
  <1> USE DEF observer, logs, spans, committer
  <1>0. seq \in Nat /\ since \in Nat /\ since <= seq
    BY DEF TypeOK, ObserverOK
  <1>1. ASSUME BeginCommit PROVE Tracked'
    BY <1>1 DEF BeginCommit, Tracked, InLogs, InSpans, Unflushed
  <1>2. ASSUME ReplayLog PROVE Tracked'
    <2>1. created' \in Nat /\ EmitLog(created', "commit")
      BY <1>2 DEF ReplayLog, TypeOK
    <2>2. /\ InLogs \subseteq InLogs' /\ created' \in InLogs'
          /\ logExport' # NoBatch => logPending' = {} /\ logExport'.by = "commit"
      BY <2>1, EmitLogKeeps
    <2>3. InSpans' = InSpans
      BY <1>2 DEF ReplayLog, InSpans
    <2>4. flushed = NotFlushed /\ flushed' = NotFlushed
      BY <1>2 DEF ReplayLog, Tracked
    <2>5. phase' \in {"replay", "emit"} /\ (logExport' # NoBatch => phase' = "emit")
      BY <1>2 DEF ReplayLog
    <2>6. seq' = since' => mine' \subseteq delivered' \cup InLogs' \cup InSpans'
      BY <1>2, <2>2, <2>3, <2>4 DEF ReplayLog, Tracked, Unflushed, NotFlushed, Signals
    <2> QED
      BY <1>2, <2>2, <2>3, <2>4, <2>5, <2>6
      DEF ReplayLog, Tracked, Unflushed, NotFlushed, Signals
  <1>3. ASSUME ReplaySpan PROVE Tracked'
    <2>1. flushed = NotFlushed /\ flushed' = NotFlushed
      BY <1>3 DEF ReplaySpan, Tracked
    <2> QED
      BY <1>3, <2>1 DEF ReplaySpan, Tracked, InLogs, InSpans, Unflushed, NotFlushed, Signals
  <1>4. ASSUME Abort PROVE Tracked'
    BY <1>4 DEF Abort, Tracked, InSpans
  <1>5. ASSUME StartFlush PROVE Tracked'
    <2>1. flushed = NotFlushed
      BY <1>5 DEF StartFlush, Tracked
    <2> QED
      BY <1>5, <2>1 DEF StartFlush, Tracked, InLogs, InSpans, Unflushed, NotFlushed, Signals
  <1>6. ASSUME FlushLogs PROVE Tracked'
    <2>1. phase = "flush" /\ flushed["logs"] = "waiting" /\ logExport = NoBatch
      BY <1>6 DEF FlushLogs, Tracked, NotFlushed, Signals
    <2>2. InSpans' = InSpans
      BY <1>6 DEF FlushLogs, InSpans
    <2>3. CASE logPending = {}
      <3>1. flushed' = [flushed EXCEPT !["logs"] = "ok"] /\ UNCHANGED logs
        BY <1>6, <2>3 DEF FlushLogs
      <3>2. InLogs = {}
        BY <2>1, <2>3 DEF InLogs
      <3>3. flushed'["logs"] = "ok" /\ flushed'["traces"] = flushed["traces"]
        BY <3>1 DEF TypeOK, Signals
      <3> QED
        BY <1>6, <2>1, <2>2, <3>1, <3>2, <3>3 DEF FlushLogs, Tracked, Unflushed, Signals
    <2>4. CASE logPending # {}
      <3>1. /\ flushed' = [flushed EXCEPT !["logs"] = "running"]
            /\ logExport' = Batch(logPending, {}, "flush") /\ logPending' = {}
        BY <1>6, <2>4 DEF FlushLogs
      <3>2. /\ InLogs' = InLogs /\ logExport' # NoBatch /\ logExport'.by = "flush"
            /\ logExport'.after = {}
        BY <2>1, <3>1, StartKeeps DEF Callers
      <3>3. flushed'["logs"] = "running" /\ flushed'["traces"] = flushed["traces"]
        BY <3>1 DEF TypeOK, Signals
      <3> QED
        BY <1>6, <2>1, <2>2, <3>1, <3>2, <3>3 DEF FlushLogs, Tracked, Unflushed, Signals
    <2> QED
      BY <2>3, <2>4
  <1>7. ASSUME FlushSpans PROVE Tracked'
    <2>1. phase = "flush" /\ flushed["traces"] = "waiting" /\ spanExport = NoBatch
      BY <1>7 DEF FlushSpans, Tracked, NotFlushed, Signals
    <2>2. InLogs' = InLogs
      BY <1>7 DEF FlushSpans, InLogs
    <2>3. CASE spanPending = {}
      <3>1. flushed' = [flushed EXCEPT !["traces"] = "ok"] /\ UNCHANGED spans
        BY <1>7, <2>3 DEF FlushSpans
      <3>2. InSpans = {} /\ InSpans' = {}
        BY <2>1, <2>3, <3>1 DEF InSpans
      <3>3. flushed'["traces"] = "ok" /\ flushed'["logs"] = flushed["logs"]
        BY <3>1 DEF TypeOK, Signals
      <3> QED
        BY <1>7, <2>1, <2>2, <3>1, <3>2, <3>3 DEF FlushSpans, Tracked, Unflushed, Signals
    <2>4. CASE spanPending # {}
      <3>1. /\ flushed' = [flushed EXCEPT !["traces"] = "running"]
            /\ spanExport' = Batch(spanPending, {}, "flush") /\ spanPending' = {}
        BY <1>7, <2>4 DEF FlushSpans
      <3>2. InSpans' = InSpans /\ spanExport' # NoBatch /\ spanExport'.by = "flush"
        BY <2>1, <3>1, StartKeeps DEF Callers
      <3>3. flushed'["traces"] = "running" /\ flushed'["logs"] = flushed["logs"]
        BY <3>1 DEF TypeOK, Signals
      <3> QED
        BY <1>7, <2>1, <2>2, <3>1, <3>2, <3>3 DEF FlushSpans, Tracked, Unflushed, Signals
    <2> QED
      BY <2>3, <2>4
  <1>8. ASSUME SpanDeadline PROVE Tracked'
    <2>1. phase = "flush" /\ flushed["traces"] \in {"waiting", "running"}
      BY <1>8 DEF SpanDeadline, Tracked, NotFlushed, Signals
    <2>2. flushed'["traces"] = "failed" /\ flushed'["logs"] = flushed["logs"]
      BY <1>8 DEF SpanDeadline, TypeOK, Signals
    <2>3. InLogs' = InLogs /\ InSpans' = InSpans
      BY <1>8 DEF SpanDeadline, InLogs, InSpans
    <2> QED
      BY <1>8, <2>1, <2>2, <2>3 DEF SpanDeadline, Tracked, Unflushed, Signals
  <1>9. ASSUME Judge PROVE Tracked'
    <2>1. flushed' = NotFlushed /\ phase = "flush"
      BY <1>9 DEF Judge
    <2>2. logExport = NoBatch \/ logExport.by \notin {"commit", "flush"}
      <3>1. flushed["logs"] # "running"
        BY <1>9 DEF Judge, BothFlushed, Signals
      <3> QED
        BY <2>1, <3>1 DEF Tracked
    <2>3. CASE FlushLines = {}
      <3>1. phase' = "judged" /\ outcome' = outcome
        BY <1>9, <2>3 DEF Judge
      <3>2. seq = since
        BY <2>3 DEF FlushLines, FailedSince
      <3>3. \A s \in Signals : flushed[s] = "ok"
        <4> SUFFICES ASSUME NEW s \in Signals PROVE flushed[s] = "ok"
          OBVIOUS
        <4>1. flushed[s] \notin Kinds
          BY <2>3 DEF FlushLines
        <4>2. flushed[s] \notin {"no", "waiting", "running"}
          BY <1>9, <2>1 DEF Judge, BothFlushed, Tracked
        <4> QED
          BY <4>1, <4>2 DEF TypeOK, FlushType, Results
      <3>4. mine \subseteq delivered
        BY <2>1, <3>2, <3>3 DEF Tracked, Unflushed, Signals
      <3> QED
        BY <1>9, <2>1, <2>2, <3>1, <3>4 DEF Judge, Tracked, NotFlushed, Signals, InSpans
    <2>4. CASE FlushLines # {}
      <3>1. phase' = "idle" /\ outcome' # "ok"
        BY <1>9, <2>4 DEF Judge, Verdict
      <3> QED
        BY <1>9, <2>1, <2>2, <3>1 DEF Judge, Tracked, NotFlushed, Signals, InSpans
    <2> QED
      BY <2>3, <2>4
  <1>10. ASSUME NextChunk PROVE Tracked'
    BY <1>10 DEF NextChunk, Tracked, InLogs, InSpans, Unflushed
  <1>11. ASSUME OtherLog PROVE Tracked'
    <2>1. created' \in Nat /\ EmitLog(created', "other")
      BY <1>11 DEF OtherLog, TypeOK
    <2>2. /\ InLogs \subseteq InLogs' /\ logExport = NoBatch
          /\ logExport' # NoBatch => logPending' = {} /\ logExport'.by = "other"
      BY <2>1, EmitLogKeeps
    <2>3. InSpans' = InSpans
      BY <1>11 DEF OtherLog, InSpans
    <2> QED
      BY <1>11, <2>2, <2>3 DEF OtherLog, Tracked, Unflushed
  <1>12. ASSUME LogTick PROVE Tracked'
    <2>1. /\ InLogs' = InLogs /\ logExport' # NoBatch /\ logExport'.by = "timer"
          /\ logPending' = {} /\ logExport = NoBatch
      BY <1>12, StartKeeps DEF LogTick, Callers
    <2>2. InSpans' = InSpans
      BY <1>12 DEF LogTick, InSpans
    <2> QED
      BY <1>12, <2>1, <2>2 DEF LogTick, Tracked, Unflushed
  <1>13. ASSUME SpanTick PROVE Tracked'
    <2>1. InSpans' = InSpans /\ spanExport' # NoBatch /\ spanPending' = {}
      BY <1>13, StartKeeps DEF SpanTick, Callers
    <2>2. InLogs' = InLogs
      BY <1>13 DEF SpanTick, InLogs
    <2> QED
      BY <1>13, <2>1, <2>2 DEF SpanTick, Tracked, Unflushed
  <1>14. ASSUME NEW result \in Results, LogExportEnds(result) PROVE Tracked'
    <2>1. logExport \in ExportType /\ logExport # NoBatch /\ logPending = {}
      BY <1>14 DEF LogExportEnds, TypeOK, Tracked
    <2>2. /\ logExport.batch \in SUBSET Nat /\ logExport.after \in SUBSET Nat
          /\ logExport.by \in Callers
      BY <2>1, ExportTyped
    <2>3. /\ delivered \subseteq delivered' /\ seq <= seq' /\ seq' \in Nat
          /\ result = "ok" => logExport.batch \subseteq delivered' /\ seq' = seq
          /\ result # "ok" => seq' = seq + 1
      BY <1>14, <2>2, ExportedFacts DEF LogExportEnds, ObserverOK
    <2>4. since' = since /\ mine' = mine /\ outcome' = outcome /\ InSpans' = InSpans
          /\ UNCHANGED spans
      BY <1>14 DEF LogExportEnds, InSpans
    <2>5. result # "ok" => seq' # since'
      BY <1>0, <2>3, <2>4
    <2>6. /\ logExport' # NoBatch => logPending' = {} /\ logExport'.by = logExport.by
                                     /\ logExport.after # {} /\ logExport'.after = {}
          /\ result = "ok" => InLogs' = logExport.after
      <3>1. CASE logPending' = (IF result = "ok" THEN logExport.after ELSE {})
                 /\ logExport' = NoBatch
        BY <3>1 DEF InLogs
      <3>2. CASE /\ result = "ok" /\ logExport.after # {}
                 /\ logPending' = {} /\ logExport' = Batch(logExport.after, {}, logExport.by)
        <4>1. {} \in SUBSET Nat
          OBVIOUS
        <4>2. /\ logExport' # NoBatch /\ logExport'.by = logExport.by
              /\ logExport'.batch = logExport.after /\ logExport'.after = {}
          BY <2>2, <3>2, <4>1, BatchTyped
        <4> QED
          BY <3>2, <4>2 DEF InLogs
      <3> QED
        BY <1>14, <3>1, <3>2 DEF LogExportEnds, LogsReleased
    <2>7. result = "ok" => InLogs \subseteq delivered' \cup InLogs'
      BY <2>1, <2>3, <2>6 DEF InLogs
    <2>8. CASE logExport.by = "commit"
      <3>1. phase = "emit" /\ flushed = NotFlushed /\ flushed' = flushed
            /\ phase' \in {"replay", "emit"} /\ (logExport' # NoBatch => phase' = "emit")
        BY <1>14, <2>1, <2>8 DEF LogExportEnds, LogsAnswered, Tracked
      <3> QED
        BY <2>3, <2>4, <2>5, <2>6, <2>7, <2>8, <3>1 DEF Tracked, Unflushed, NotFlushed, Signals
    <2>9. CASE logExport.by = "flush"
      <3>1. phase = "flush" /\ flushed["logs"] = "running" /\ logExport.after = {}
        BY <2>1, <2>9 DEF Tracked
      <3>2. phase' = phase /\ flushed' = [flushed EXCEPT !["logs"] = result]
        BY <1>14, <2>9 DEF LogExportEnds, LogsAnswered
      <3>3. flushed'["logs"] = result /\ flushed'["traces"] = flushed["traces"]
        BY <3>2 DEF TypeOK, Signals
      <3>4. logExport' = NoBatch
        BY <2>6, <3>1
      <3>5. result \notin {"no", "running"}
        BY DEF Results, Kinds
      <3>6. result = "ok" => InLogs \subseteq delivered'
        BY <2>6, <2>7, <3>1
      <3> QED
        BY <2>3, <2>4, <2>5, <3>1, <3>2, <3>3, <3>4, <3>5, <3>6
        DEF Tracked, Unflushed, Signals
    <2>10. CASE logExport.by \in {"other", "timer"}
      <3>1. phase' = phase /\ flushed' = flushed
        BY <1>14, <2>10 DEF LogExportEnds, LogsAnswered
      <3>2. flushed["logs"] # "running"
        BY <2>1, <2>10 DEF Tracked
      <3> QED
        BY <2>3, <2>4, <2>5, <2>6, <2>7, <2>10, <3>1, <3>2 DEF Tracked, Unflushed
    <2> QED
      BY <2>2, <2>8, <2>9, <2>10 DEF Callers
  <1>15. ASSUME NEW result \in Results, SpanExportEnds(result) PROVE Tracked'
    <2>1. spanExport \in ExportType /\ spanExport # NoBatch
      BY <1>15 DEF SpanExportEnds, TypeOK
    <2>2. spanExport.batch \in SUBSET Nat
      BY <2>1, ExportTyped
    <2>3. /\ delivered \subseteq delivered' /\ seq <= seq' /\ seq' \in Nat
          /\ result = "ok" => spanExport.batch \subseteq delivered' /\ seq' = seq
          /\ result # "ok" => seq' = seq + 1
      BY <1>15, <2>2, ExportedFacts DEF SpanExportEnds, ObserverOK
    <2>4. /\ since' = since /\ mine' = mine /\ outcome' = outcome /\ phase' = phase
          /\ InLogs' = InLogs /\ UNCHANGED logs
      BY <1>15 DEF SpanExportEnds, InLogs
    <2>5. result # "ok" => seq' # since'
      BY <1>0, <2>3, <2>4
    <2>6. InSpans' = spanPending /\ InSpans = spanPending \cup spanExport.batch
          /\ spanExport' = NoBatch /\ spanPending' = spanPending
      BY <1>15, <2>1 DEF SpanExportEnds, InSpans
    <2>7. result = "ok" => InSpans \subseteq delivered' \cup InSpans'
      BY <2>3, <2>6
    <2>8. CASE spanExport.by = "flush" /\ flushed["traces"] = "running"
      <3>1. flushed'["traces"] = result /\ flushed'["logs"] = flushed["logs"]
        BY <1>15, <2>8 DEF SpanExportEnds, TypeOK, Signals
      <3>2. phase = "flush" /\ spanPending = {}
        BY <2>8 DEF Tracked, NotFlushed, Signals
      <3>3. result \notin {"no", "running"}
        BY DEF Results, Kinds
      <3> QED
        BY <2>3, <2>4, <2>5, <2>6, <2>7, <3>1, <3>2, <3>3 DEF Tracked, Unflushed, Signals
    <2>9. CASE ~(spanExport.by = "flush" /\ flushed["traces"] = "running")
      <3>1. flushed' = flushed
        BY <1>15, <2>9 DEF SpanExportEnds
      <3>2. flushed["traces"] # "running"
        BY <2>9 DEF Tracked
      <3> QED
        BY <2>3, <2>4, <2>5, <2>6, <2>7, <3>1, <3>2 DEF Tracked, Unflushed
    <2> QED
      BY <2>8, <2>9
  <1>16. ASSUME UNCHANGED vars PROVE Tracked'
    BY <1>16 DEF vars, Tracked, InLogs, InSpans, Unflushed
  <1> QED
    BY <1>1, <1>2, <1>3, <1>4, <1>5, <1>6, <1>7, <1>8, <1>9, <1>10, <1>11, <1>12, <1>13,
       <1>14, <1>15, <1>16 DEF Next, Commit

\* A commit that reports success has had every record of its window accepted,
\* for any number of records, chunks, failures and concurrent emitters.
THEOREM Delivered == Spec => []CommitDelivered
  <1>1. Tracked => CommitDelivered
    BY DEF Tracked, CommitDelivered
  <1> QED
    BY <1>1, TypeCorrect, TrackedInit, TrackedStep, PTL DEF Spec

-----------------------------------------------------------------------------
(* Verdicts.  What the observer's list says of the failures since the commit *)
(* began is what happened, as far as the list reaches.                       *)

Since(n) == {i \in DOMAIN failures : failures[i].seq > n}
KindsSince(n) == {failures[i].kind : i \in Since(n)}

\* While a commit runs, the kinds of the failures since its BeginCommit are all
\* in the list unless some were trimmed, and a failed flush left its kind there.
Witnessed ==
  phase # "idle" =>
    /\ seq = since <=> seen = {}
    /\ KindsSince(since) \subseteq seen
    /\ seq - since <= Len(failures) => seen \subseteq KindsSince(since)
    /\ flushed["logs"] \in Kinds => flushed["logs"] \in seen
    /\ flushed["traces"] = "rejected" => "rejected" \in seen

LEMMA NothingSince == ASSUME ObserverOK PROVE KindsSince(seq) = {}
  <1> SUFFICES ASSUME NEW i \in DOMAIN failures PROVE ~(failures[i].seq > seq)
    BY DEF KindsSince, Since
  <1>1. i \in 1 .. Len(failures) /\ Len(failures) \in Nat /\ seq \in Nat
    BY DEF ObserverOK
  <1> QED
    BY <1>1 DEF ObserverOK

\* The list after one more failure: its kind is added to those since n, and
\* nothing since n is trimmed unless the list is too short for all of them.
LEMMA RecordKinds ==
  ASSUME ObserverOK, NEW kind \in Kinds, Record(kind), NEW n \in 0 .. seq
  PROVE  /\ KindsSince(n)' \subseteq KindsSince(n) \cup {kind}
         /\ seq' - n <= Len(failures') =>
              /\ seq - n <= Len(failures)
              /\ KindsSince(n) \cup {kind} \subseteq KindsSince(n)'
  <1> DEFINE f == [seq |-> seq + 1, kind |-> kind]
  <1> DEFINE longer == Append(failures, f)
  <1> DEFINE cut == Len(longer) - Len(failures')
  <1>1. /\ seq \in Nat /\ failures \in Seq(FailureType) /\ f \in FailureType
        /\ Len(failures) \in Nat /\ n \in Nat /\ n <= seq
    BY DEF ObserverOK, FailureType
  <1>2. seq' = seq + 1 /\ failures' = Capped(longer)
    BY DEF Record
  <1>3. f.seq = seq + 1 /\ f.kind = kind
    OBVIOUS
  <1> HIDE DEF f
  <1>4. /\ longer \in Seq(FailureType) /\ Len(longer) = Len(failures) + 1
        /\ \A i \in 1 .. Len(failures) : longer[i] = failures[i]
        /\ longer[Len(failures) + 1] = f
    BY <1>1
  <1> HIDE DEF longer
  <1>5. /\ failures' \in Seq(FailureType) /\ Len(failures') \in Nat
        /\ cut \in Nat /\ cut <= 1 /\ Len(failures') >= 1
        /\ \A i \in 1 .. Len(failures') : failures'[i] = longer[i + cut]
    <2>1. CASE Len(longer) > Cap
      <3>1. failures' = SubSeq(longer, Len(longer) - Cap + 1, Len(longer))
        BY <1>2, <2>1 DEF Capped
      <3>2. Len(longer) = Cap + 1
        BY <1>1, <1>4, <2>1, ExportAssumption DEF ObserverOK
      <3>3. /\ failures' \in Seq(FailureType) /\ Len(failures') = Cap
            /\ \A i \in 1 .. Cap : failures'[i] = longer[i + 1]
        BY <1>4, <3>1, <3>2, ExportAssumption
      <3>4. cut = 1
        BY <3>2, <3>3, ExportAssumption
      <3> HIDE DEF cut
      <3> QED
        BY <3>3, <3>4, ExportAssumption
    <2>2. CASE ~(Len(longer) > Cap)
      <3>1. failures' = longer
        BY <1>2, <2>2 DEF Capped
      <3>2. cut = 0
        BY <1>1, <1>4, <3>1
      <3> HIDE DEF cut
      <3>3. \A i \in 1 .. Len(failures') : i + cut = i
        BY <3>2
      <3> QED
        BY <1>1, <1>4, <3>1, <3>2, <3>3
    <2> QED
      BY <2>1, <2>2
  <1>6. /\ Len(failures') + cut = Len(failures) + 1
        /\ DOMAIN failures = 1 .. Len(failures) /\ DOMAIN failures' = 1 .. Len(failures')
    BY <1>1, <1>4, <1>5
  <1> HIDE DEF cut
  <1>7. ASSUME NEW i \in DOMAIN failures', failures'[i].seq > n
        PROVE  failures'[i].kind \in KindsSince(n) \cup {kind}
    <2>1. i \in 1 .. Len(failures') /\ i + cut \in 1 .. Len(failures) + 1
      BY <1>1, <1>5, <1>6, <1>7
    <2>2. failures'[i] = longer[i + cut]
      BY <1>5, <2>1
    <2>3. CASE i + cut = Len(failures) + 1
      BY <1>3, <1>4, <2>2, <2>3
    <2>4. CASE i + cut \in 1 .. Len(failures)
      <3>1. failures'[i] = failures[i + cut] /\ i + cut \in DOMAIN failures
        BY <1>4, <1>6, <2>2, <2>4
      <3> QED
        BY <1>7, <3>1 DEF KindsSince, Since
    <2> QED
      BY <1>1, <2>1, <2>3, <2>4
  <1>8. ASSUME seq' - n <= Len(failures')
        PROVE  /\ seq - n <= Len(failures)
               /\ KindsSince(n) \cup {kind} \subseteq KindsSince(n)'
    <2>1. seq - n <= Len(failures)
      BY <1>1, <1>2, <1>5, <1>6, <1>8
    <2>2. kind \in KindsSince(n)'
      <3>1. Len(failures') \in DOMAIN failures' /\ Len(failures') + cut = Len(failures) + 1
        BY <1>5, <1>6
      <3>2. failures'[Len(failures')] = f
        BY <1>4, <1>5, <1>6, <3>1
      <3>3. f.seq > n
        BY <1>1, <1>3
      <3> QED
        BY <1>3, <3>1, <3>2, <3>3 DEF KindsSince, Since
    <2>3. ASSUME NEW i \in DOMAIN failures, failures[i].seq > n
          PROVE  failures[i].kind \in KindsSince(n)'
      <3>1. i \in 1 .. Len(failures) /\ failures[i].seq = seq - Len(failures) + i
        BY <1>6 DEF ObserverOK
      <3>2. i > cut
        BY <1>1, <1>2, <1>5, <1>6, <1>8, <2>3, <3>1
      <3>3. i - cut \in DOMAIN failures' /\ (i - cut) + cut = i
        BY <1>1, <1>5, <1>6, <3>1, <3>2
      <3>4. failures'[i - cut] = failures[i]
        BY <1>4, <1>5, <1>6, <3>1, <3>3
      <3> QED
        BY <2>3, <3>3, <3>4, SMTT(30) DEF KindsSince, Since
    <2>4. KindsSince(n) \subseteq KindsSince(n)'
      BY <2>3 DEF KindsSince, Since
    <2> QED
      BY <2>1, <2>2, <2>4
  <1>9. KindsSince(n)' \subseteq KindsSince(n) \cup {kind}
    BY <1>7 DEF KindsSince, Since
  <1> QED
    BY <1>8, <1>9

\* Steps that count no failure and let no flush end by one.
LEMMA WitnessedFrame ==
  ASSUME Witnessed, UNCHANGED <<observer, since, seen>>,
         phase' # "idle" => phase # "idle",
         flushed'["logs"] \in Kinds => flushed'["logs"] = flushed["logs"],
         flushed'["traces"] = "rejected" => flushed'["traces"] = flushed["traces"]
  PROVE  Witnessed'
  BY DEF Witnessed, KindsSince, Since, observer

\* An export that ends is recorded, if it failed, before its flush returns.
LEMMA WitnessedExport ==
  ASSUME TypeOK, Witnessed, NEW batch, NEW result \in Results, Exported(batch, result),
         since' = since, phase' # "idle" => phase # "idle",
         \A s \in Signals : flushed'[s] \in {flushed[s], result}
  PROVE  Witnessed'
  <1> USE DEF Signals, Results, Kinds
  <1>1. CASE result = "ok"
    <2>1. UNCHANGED <<observer, seen>>
      BY <1>1 DEF Exported
    <2> QED
      BY <1>1, <2>1, WitnessedFrame
  <1>2. CASE result \in Kinds
    <2>1. Record(result)
      BY <1>2 DEF Exported
    <2>2. since \in 0 .. seq /\ ObserverOK /\ seq \in Nat
      BY DEF TypeOK, ObserverOK
    <2>3. /\ KindsSince(since)' \subseteq KindsSince(since) \cup {result}
          /\ seq' - since <= Len(failures') =>
               /\ seq - since <= Len(failures)
               /\ KindsSince(since) \cup {result} \subseteq KindsSince(since)'
      <3>1. PICK n \in 0 .. seq : n = since
        BY <2>2
      <3>2. /\ KindsSince(n)' \subseteq KindsSince(n) \cup {result}
            /\ seq' - n <= Len(failures') =>
                 /\ seq - n <= Len(failures)
                 /\ KindsSince(n) \cup {result} \subseteq KindsSince(n)'
        <4> HIDE DEF Kinds
        <4> QED
          BY <1>2, <2>1, <2>2, RecordKinds
      <3>3. KindsSince(since) = KindsSince(n) /\ KindsSince(since)' = KindsSince(n)'
        BY <3>1 DEF KindsSince, Since
      <3> QED
        BY <3>1, <3>2, <3>3
    <2>4. seen' = seen \cup {result} /\ seq' # since
      BY <2>1, <2>2 DEF Record
    <2> QED
      BY <1>2, <2>3, <2>4 DEF Witnessed
  <1> QED
    BY <1>1, <1>2

LEMMA WitnessedStep == TypeOK /\ Tracked /\ Witnessed /\ [Next]_vars => Witnessed'
  <1> SUFFICES ASSUME TypeOK, Tracked, Witnessed, [Next]_vars PROVE Witnessed'
    OBVIOUS
  <1> USE DEF observer, Kinds, Signals
  <1>1. CASE BeginCommit \/ NextChunk
    <2>1. flushed' = NotFlushed /\ since' = seq /\ seq' = seq /\ failures' = failures /\ seen' = {}
      BY <1>1 DEF BeginCommit, NextChunk, Tracked
    <2>2. KindsSince(seq) = {}
      BY NothingSince DEF TypeOK
    <2>3. KindsSince(since)' = {}
      BY <2>1, <2>2 DEF KindsSince, Since
    <2> QED
      BY <2>1, <2>3 DEF Witnessed, NotFlushed
  <1>2. CASE \/ ReplayLog \/ ReplaySpan \/ Abort \/ StartFlush \/ OtherLog \/ LogTick \/ SpanTick
             \/ UNCHANGED vars
    <2>1. /\ UNCHANGED <<observer, since, seen>> /\ (phase' # "idle" => phase # "idle")
          /\ flushed' = flushed \/ flushed' = [s \in Signals |-> "waiting"]
      BY <1>2 DEF ReplayLog, ReplaySpan, Abort, StartFlush, OtherLog, LogTick, SpanTick, vars,
                  committer
    <2> QED
      BY <2>1, WitnessedFrame
  <1>3. CASE FlushLogs \/ FlushSpans \/ SpanDeadline
    <2>1. UNCHANGED <<observer, since, seen, phase>>
      BY <1>3 DEF FlushLogs, FlushSpans, SpanDeadline
    <2>2. /\ flushed'["logs"] \in {flushed["logs"], "ok", "running"}
          /\ flushed'["traces"] \in {flushed["traces"], "ok", "running", "failed"}
      BY <1>3 DEF FlushLogs, FlushSpans, SpanDeadline, TypeOK
    <2> QED
      BY <2>1, <2>2, WitnessedFrame
  <1>4. CASE Judge
    <2>1. UNCHANGED <<observer, since, seen>> /\ phase # "idle" /\ flushed' = NotFlushed
      BY <1>4 DEF Judge
    <2> QED
      BY <2>1, WitnessedFrame DEF NotFlushed
  <1>5. ASSUME NEW result \in Results, LogExportEnds(result) PROVE Witnessed'
    <2>1. Exported(logExport.batch, result) /\ since' = since /\ logExport # NoBatch
      BY <1>5 DEF LogExportEnds
    <2>2. phase' # "idle" => phase # "idle"
      BY <1>5, <2>1 DEF LogExportEnds, LogsAnswered, Tracked
    <2>3. \A s \in Signals : flushed'[s] \in {flushed[s], result}
      BY <1>5 DEF LogExportEnds, LogsAnswered, TypeOK
    <2> QED
      BY <2>1, <2>2, <2>3, WitnessedExport
  <1>6. ASSUME NEW result \in Results, SpanExportEnds(result) PROVE Witnessed'
    <2>1. Exported(spanExport.batch, result) /\ since' = since /\ phase' = phase
      BY <1>6 DEF SpanExportEnds
    <2>2. \A s \in Signals : flushed'[s] \in {flushed[s], result}
      BY <1>6 DEF SpanExportEnds, TypeOK
    <2> QED
      BY <2>1, <2>2, WitnessedExport
  <1> QED
    BY <1>1, <1>2, <1>3, <1>4, <1>5, <1>6 DEF Next, Commit

\* The error lines of FlushCommit tell the kinds of failure apart.
LEMMA VerdictOfJudge ==
  ASSUME TypeOK, Tracked, Witnessed, Judge
  PROVE  /\ outcome' = "rejected" => seen = {"rejected"}
         /\ seen = {"rejected"} /\ seq - since <= Cap /\ flushed["traces"] # "failed"
              => outcome' = "rejected"
  <1>1. /\ seq \in Nat /\ since \in Nat /\ since <= seq /\ seen \subseteq Kinds
        /\ Len(failures) \in Nat /\ Len(failures) <= Cap
        /\ Len(failures) = Cap \/ Len(failures) = seq
        /\ \A i \in 1 .. Len(failures) : failures[i].seq = seq - Len(failures) + i
        /\ failures = << >> <=> Len(failures) = 0
    BY DEF TypeOK, ObserverOK
  <1>2. phase = "flush"
    BY DEF Judge
  <1>3. seq # since /\ seq - since <= Len(failures) =>
          failures # << >> /\ ~(since + 1 < failures[1].seq)
    BY <1>1
  <1>4. seq # since /\ ~(seq - since <= Len(failures)) => "omitted" \in FailedSince(since)
    BY <1>1 DEF FailedSince
  <1>5. seq # since =>
          /\ "background" \in FailedSince(since)
          /\ FailedSince(since) \ {"background", "omitted"} = KindsSince(since)
          /\ seq - since <= Len(failures) => "omitted" \notin FailedSince(since)
    BY <1>1, <1>2, <1>3 DEF FailedSince, Witnessed, KindsSince, Since, Kinds
  <1>6. ASSUME outcome' = "rejected" PROVE seen = {"rejected"}
    <2>1. outcome # "rejected"
      BY <1>2 DEF Tracked
    <2>2. Verdict(FlushLines) = "rejected"
      BY <1>6, <2>1 DEF Judge
    <2>3. "rejected" \in FlushLines /\ FlushLines \subseteq {"background", "rejected"}
      BY <2>2 DEF Verdict, PayloadRejected
    <2>4. "rejected" \in seen
      <3>1. CASE \E s \in Signals : flushed[s] = "rejected"
        BY <1>2, <3>1 DEF Witnessed, Signals, Kinds
      <3>2. CASE "rejected" \in FailedSince(since)
        BY <1>1, <1>2, <1>5, <3>2 DEF Witnessed, FailedSince
      <3> QED
        BY <2>3, <3>1, <3>2 DEF FlushLines
    <2>5. seq # since
      BY <1>2, <2>4 DEF Witnessed
    <2>6. seq - since <= Len(failures)
      BY <1>4, <2>3, <2>5 DEF FlushLines
    <2>7. seen \subseteq KindsSince(since)
      BY <1>2, <2>6 DEF Witnessed
    <2>8. KindsSince(since) \subseteq {"background", "rejected"}
      BY <1>5, <2>3, <2>5 DEF FlushLines
    <2> QED
      BY <1>1, <2>4, <2>7, <2>8 DEF Kinds
  <1>7. ASSUME seen = {"rejected"}, seq - since <= Cap, flushed["traces"] # "failed"
        PROVE  outcome' = "rejected"
    <2>1. seq # since
      BY <1>2, <1>7 DEF Witnessed
    <2>2. seq - since <= Len(failures)
      BY <1>1, <1>7
    <2>3. KindsSince(since) = {"rejected"}
      BY <1>2, <1>7, <2>2 DEF Witnessed
    <2>4. "rejected" \in FailedSince(since) /\ FailedSince(since) \subseteq {"background", "rejected"}
      BY <1>5, <2>1, <2>2, <2>3
    <2>5. flushed["logs"] # "failed"
      BY <1>2, <1>7 DEF Witnessed, Kinds
    <2>6. {flushed[s] : s \in Signals} \cap Kinds \subseteq {"rejected"}
      BY <1>7, <2>5 DEF Signals, Kinds
    <2>7. "rejected" \in FlushLines /\ FlushLines \subseteq {"background", "rejected"}
      BY <2>4, <2>6 DEF FlushLines
    <2>8. FlushLines # {}
      BY <2>7
    <2>9. Verdict(FlushLines) = "rejected"
      BY <2>7, <2>8 DEF Verdict, PayloadRejected
    <2> QED
      BY <2>8, <2>9 DEF Judge
  <1> QED
    BY <1>6, <1>7

\* A window is called rejected exactly when every failure since its commit began was
\* a payload rejection: failures trimmed from the bounded list are never taken for
\* rejections, for every size of the list.
THEOREM Judged == Spec => VerdictExact
  <1>1. Init => Witnessed
    BY DEF Init, Witnessed
  <1>2. TypeOK /\ Tracked /\ Witnessed /\ [Next]_vars =>
          [phase = "flush" /\ phase' # "flush" =>
             /\ outcome' = "rejected" => seen = {"rejected"}
             /\ seen = {"rejected"} /\ seq - since <= Cap /\ flushed["traces"] # "failed"
                  => outcome' = "rejected"]_vars
    <2> SUFFICES ASSUME TypeOK, Tracked, Witnessed, Next, phase = "flush", phase' # "flush"
                 PROVE  /\ outcome' = "rejected" => seen = {"rejected"}
                        /\ seen = {"rejected"} /\ seq - since <= Cap /\ flushed["traces"] # "failed"
                             => outcome' = "rejected"
      OBVIOUS
    <2>1. Judge
      <3>1. ASSUME NEW result \in Results, LogExportEnds(result) PROVE FALSE
        BY <3>1 DEF LogExportEnds, LogsAnswered, Tracked
      <3>2. ASSUME NEW result \in Results, SpanExportEnds(result) PROVE FALSE
        BY <3>2 DEF SpanExportEnds
      <3> QED
        BY <3>1, <3>2 DEF Next, Commit, BeginCommit, ReplayLog, ReplaySpan, Abort, StartFlush,
           FlushLogs, FlushSpans, SpanDeadline, NextChunk, OtherLog, LogTick, SpanTick, committer
    <2> QED
      BY <2>1, VerdictOfJudge
  <1> QED
    BY <1>1, <1>2, TypeCorrect, TrackedInit, TrackedStep, WitnessedStep, PTL
    DEF Spec, VerdictExact

-----------------------------------------------------------------------------
(* CheckpointFile: FileStore, for every set of collectors and every cursor. *)

\* A map with one more cursor set is a map of cursors.
LEMMA UpdatedType ==
  ASSUME values \in Cursors, NEW n \in Names, NEW t \in Nat
  PROVE  Updated(n, t) \in Cursors
  BY DEF Updated, Cursors

\* The empty map.
LEMMA EmptyType == Empty \in Cursors
  BY DEF Empty, Cursors

-----------------------------------------------------------------------------
(* The type of the variables.  disk stays free of torn files because Rename  *)
(* only ever follows Sync, so the invariant carries synced along.            *)

SyncFirst == \A n \in Names : pc[n] = "rename" => synced[n]

FileTypeInv == FileTypeOK /\ SyncFirst

LEMMA FileTypeInit == FileInit => FileTypeInv
  BY EmptyType DEF FileInit, FileTypeInv, FileTypeOK, SyncFirst, Labels

LEMMA FileTypeStep == FileTypeInv /\ [FileNext]_fileVars => FileTypeInv'
  <1> SUFFICES ASSUME FileTypeInv, [FileNext]_fileVars PROVE FileTypeInv'
    OBVIOUS
  <1> USE DEF FileTypeInv, FileTypeOK, SyncFirst, Labels
  <1>1. ASSUME NEW n \in Names, Begin(n) PROVE FileTypeInv'
    <2>1. PICK t \in 1 .. MaxTime : next' = [next EXCEPT ![n] = Updated(n, t)]
      BY <1>1 DEF Begin
    <2>2. Updated(n, t) \in Cursors
      BY <2>1, UpdatedType, FileAssumption
    <2> QED
      BY <1>1, <2>1, <2>2 DEF Begin, Goto
  <1>2. ASSUME NEW n \in Names, Write(n) PROVE FileTypeInv'
    BY <1>2 DEF Write, Goto
  <1>3. ASSUME NEW n \in Names, Sync(n) PROVE FileTypeInv'
    BY <1>3 DEF Sync, SyncData, Goto
  <1>4. ASSUME NEW n \in Names, Rename(n) PROVE FileTypeInv'
    BY <1>4 DEF Rename, Goto
  <1>5. ASSUME NEW n \in Names, Failed(n) PROVE FileTypeInv'
    BY <1>5 DEF Failed, KeepValues, Goto
  <1>6. ASSUME NEW n \in Names, Finish(n) PROVE FileTypeInv'
    <2>1. next[n] \in Cursors /\ next[n][n] \in Nat
      BY DEF Cursors
    <2>2. acked' \in Cursors
      BY <1>6, <2>1 DEF Finish, Cursors
    <2> QED
      BY <1>6, <2>1, <2>2 DEF Finish, SyncDirectory, Goto
  <1>7. ASSUME Halt PROVE crashes' \in Nat /\ pc' \in [Names -> Labels] /\ SyncFirst'
    BY <1>7 DEF Halt
  <1>8. ASSUME Halt, file' \in Cursors, disk' \subseteq Cursors, acked' \in Cursors
        PROVE  FileTypeInv'
    BY <1>7, <1>8 DEF Halt
  <1>9. ASSUME ProcessCrash PROVE FileTypeInv'
    BY <1>8, <1>9 DEF ProcessCrash
  <1>10. ASSUME PowerLoss PROVE FileTypeInv'
    BY <1>8, <1>10 DEF PowerLoss
  <1>11. ASSUME Load PROVE FileTypeInv'
    BY <1>11 DEF Load, set
  <1>12. ASSUME UNCHANGED fileVars PROVE FileTypeInv'
    BY <1>12 DEF fileVars, set
  <1> QED
    BY <1>1, <1>2, <1>3, <1>4, <1>5, <1>6, <1>9, <1>10, <1>11, <1>12 DEF FileNext, SetStep

\* The checkpoint file always decodes, also after a power loss, and every
\* variable keeps its type (Set syncs the temporary file before the rename).
THEOREM FileTypeCorrect == FileSpec => []FileTypeOK
  <1>1. FileTypeInv => FileTypeOK
    BY DEF FileTypeInv
  <1> QED
    BY <1>1, FileTypeInit, FileTypeStep, PTL DEF FileSpec

-----------------------------------------------------------------------------
(* Memory, file and disk.  Consistent is inductive: the holder of the mutex  *)
(* has a copy of the map that differs from it in the holder's own cursor.    *)

\* Pointwise order of two maps of cursors.
Below(a, b) == \A n \in Names : a[n] <= b[n]

LEMMA BelowTransitive ==
  ASSUME NEW a \in Cursors, NEW b \in Cursors, NEW d \in Cursors, Below(a, b), Below(b, d)
  PROVE  Below(a, d)
  <1> SUFFICES ASSUME NEW n \in Names PROVE a[n] <= d[n]
    BY DEF Below
  <1>1. a[n] \in Nat /\ b[n] \in Nat /\ d[n] \in Nat
    BY DEF Cursors
  <1> QED
    BY <1>1 DEF Below

LEMMA BelowReflexive == ASSUME NEW a \in Cursors PROVE Below(a, a)
  BY DEF Below, Cursors

\* Setting one cursor forward.
LEMMA BelowUpdate ==
  ASSUME NEW a \in Cursors, NEW n \in Names, NEW t \in Nat, a[n] <= t
  PROVE  Below(a, [a EXCEPT ![n] = t])
  BY DEF Below, Cursors

LEMMA ConsistentInit == FileInit => Consistent
  <1> SUFFICES ASSUME FileInit PROVE Consistent
    OBVIOUS
  <1>1. \A n \in Names : Empty[n] = 0
    BY DEF Empty
  <1> QED
    BY <1>1, FileAssumption DEF FileInit, Consistent, PowerSafe

\* The holder's new map lies above the old one.
LEMMA NextAbove ==
  ASSUME FileTypeOK, Consistent, NEW n \in Names, pc[n] # "idle"
  PROVE  Below(values, next[n])
  <1>1. next[n] \in Cursors /\ next[n][n] \in Nat /\ values \in Cursors
    BY DEF FileTypeOK, Cursors
  <1>2. next[n] = [values EXCEPT ![n] = next[n][n]] /\ values[n] <= next[n][n]
    BY DEF Consistent
  <1> QED
    BY <1>1, <1>2, BelowUpdate

LEMMA ConsistentStep == FileTypeOK /\ FileTypeOK' /\ Consistent /\ [FileNext]_fileVars => Consistent'
  <1> SUFFICES ASSUME FileTypeOK, FileTypeOK', Consistent, [FileNext]_fileVars PROVE Consistent'
    OBVIOUS
  <1>1. ASSUME NEW n \in Names, Begin(n) PROVE Consistent'
    <2>1. PICK t \in 1 .. MaxTime :
            values[n] <= t /\ next' = [next EXCEPT ![n] = Updated(n, t)]
      BY <1>1 DEF Begin
    <2>2. next'[n] = [values EXCEPT ![n] = t] /\ next'[n][n] = t
      BY <2>1 DEF FileTypeOK, Updated, Cursors
    <2>3. \A m \in Names : pc'[m] # "idle" <=> holder' = m
      BY <1>1, FileAssumption DEF Begin, Unlocked, Consistent, FileTypeOK, Goto
    <2>4. values = file
      BY <1>1 DEF Begin, Unlocked, Consistent
    <2>5. \A m \in Names : pc'[m] # "idle" => m = n
      BY <1>1, <2>3 DEF Begin
    <2>6. pc'[n] = "write"
      BY <1>1 DEF Begin, Goto, FileTypeOK
    <2> QED
      BY <1>1, <2>1, <2>2, <2>3, <2>4, <2>5, <2>6, FileAssumption
      DEF Begin, Consistent, PowerSafe
  <1>2. ASSUME NEW n \in Names, Write(n) PROVE Consistent'
    BY <1>2 DEF Write, Goto, Consistent, PowerSafe, FileTypeOK
  <1>3. ASSUME NEW n \in Names, Sync(n) PROVE Consistent'
    BY <1>3 DEF Sync, SyncData, Goto, Consistent, PowerSafe, FileTypeOK
  <1>4. ASSUME NEW n \in Names, Rename(n) PROVE Consistent'
    <2>1. synced[n] /\ file = values /\ Below(file, next[n])
      BY <1>4, NextAbove DEF Rename, Consistent
    <2>2. file' = next[n] /\ disk' = disk \cup {next[n]}
      BY <1>4, <2>1 DEF Rename
    <2>3. \A m \in Names : pc'[m] # "idle" <=> holder' = m
      BY <1>4 DEF Rename, Consistent, Goto, FileTypeOK
    <2>4. \A m \in Names : pc'[m] # "idle" => m = n
      BY <1>4, <2>3 DEF Rename, Consistent
    <2>5. pc'[n] = "dirsync"
      BY <1>4 DEF Rename, Goto, FileTypeOK
    <2>6. Below(file, file') /\ Below(file', file')
      BY <2>1, <2>2, BelowReflexive DEF FileTypeOK
    <2>7. Below(acked', file')
      <3>1. Below(acked, file)
        BY DEF Consistent, Below
      <3> QED
        BY <1>4, <2>6, <3>1, BelowTransitive DEF Rename, FileTypeOK
    <2>8. ASSUME NEW content \in disk' PROVE Below(safe, content) /\ Below(content, file')
      <3>1. CASE content \in disk
        <4>1. Below(safe, content) /\ Below(content, file)
          BY <3>1 DEF Consistent, PowerSafe, Below
        <4> QED
          BY <2>6, <3>1, <4>1, BelowTransitive DEF FileTypeOK
      <3>2. CASE content = next[n]
        <4>1. Below(safe, file)
          BY DEF Consistent, PowerSafe, Below
        <4>2. content = file'
          BY <3>2, <2>2
        <4> QED
          BY <2>6, <4>1, <4>2, BelowTransitive DEF FileTypeOK
      <3> QED
        BY <2>2, <3>1, <3>2
    <2>9. PowerSafe'
      BY <1>4, <2>8 DEF PowerSafe, Below, Rename
    <2>10. holder' # NoOne /\ up'
      BY <1>4, <2>3, <2>5, FileAssumption DEF Rename
    <2>11. next'[n] = [values' EXCEPT ![n] = next'[n][n]] /\ values'[n] <= next'[n][n]
      BY <1>4 DEF Rename, Consistent
    <2> QED
      BY <1>4, <2>2, <2>3, <2>4, <2>5, <2>7, <2>9, <2>10, <2>11 DEF Consistent, Below, Rename
  <1>5. ASSUME NEW n \in Names, Failed(n) PROVE Consistent'
    <2>1. \A m \in Names : pc'[m] = "idle"
      BY <1>5 DEF Failed, Goto, Consistent, FileTypeOK
    <2> QED
      BY <1>5, <2>1, FileAssumption DEF Failed, KeepValues, Consistent, PowerSafe
  <1>6. ASSUME NEW n \in Names, Finish(n) PROVE Consistent'
    <2>1. \A m \in Names : pc'[m] = "idle"
      BY <1>6 DEF Finish, Goto, Consistent, FileTypeOK
    <2>2. file = next[n]
      BY <1>6 DEF Finish, Consistent
    <2>3. \A m \in Names : acked'[m] <= file[m]
      BY <1>6, <2>2 DEF Finish, Consistent, FileTypeOK, Cursors
    <2>4. PowerSafe'
      <3>1. CASE disk' = {file} /\ safe' = file
        BY <1>6, <3>1, BelowReflexive DEF PowerSafe, Below, Finish, FileTypeOK
      <3>2. CASE UNCHANGED <<disk, safe>>
        BY <1>6, <3>2 DEF PowerSafe, Finish, Consistent
      <3> QED
        BY <1>6, <3>1, <3>2 DEF Finish, SyncDirectory
    <2>5. file \in disk'
      BY <1>6 DEF Finish, SyncDirectory, Consistent
    <2> QED
      BY <1>6, <2>1, <2>2, <2>3, <2>4, <2>5, FileAssumption DEF Finish, Consistent
  <1>7. ASSUME ProcessCrash PROVE Consistent'
    BY <1>7, FileAssumption DEF ProcessCrash, Halt, Consistent, PowerSafe
  <1>8. ASSUME PowerLoss PROVE Consistent'
    <2>1. PICK content \in disk : file' = content /\ disk' = {content} /\ acked' = content
      BY <1>8 DEF PowerLoss
    <2>2. Below(content, content) /\ Below(safe, content)
      BY <2>1, BelowReflexive DEF FileTypeOK, Consistent, PowerSafe, Below
    <2>3. \A n \in Names : pc'[n] = "idle"
      BY <1>8 DEF PowerLoss, Halt
    <2> QED
      BY <1>8, <2>1, <2>2, <2>3, FileAssumption DEF PowerLoss, Halt, Consistent, PowerSafe, Below
  <1>9. ASSUME Load PROVE Consistent'
    BY <1>9, FileAssumption DEF Load, set, Consistent, PowerSafe
  <1>10. ASSUME UNCHANGED fileVars PROVE Consistent'
    BY <1>10 DEF fileVars, set, Consistent, PowerSafe
  <1> QED
    BY <1>1, <1>2, <1>3, <1>4, <1>5, <1>6, <1>7, <1>8, <1>9, <1>10 DEF FileNext, SetStep

\* Memory, file and disk stay consistent through every failure, crash and power
\* loss: the invariant the other theorems rest on.
THEOREM ConsistentInvariant == FileSpec => []Consistent
  BY FileTypeCorrect, ConsistentInit, ConsistentStep, PTL DEF FileSpec

\* Get never answers with a cursor that a restart would not read back.
THEOREM MemoryFile == FileSpec => []MemoryMatchesFile
  <1>1. Consistent => MemoryMatchesFile
    BY DEF Consistent, MemoryMatchesFile, Get
  <1> QED
    BY <1>1, ConsistentInvariant, PTL

\* No acknowledged cursor is overwritten by another collector's Set or a crash.
THEOREM UpdatesKept == FileSpec => []NoLostUpdate
  <1>1. Consistent => NoLostUpdate
    BY DEF Consistent, NoLostUpdate
  <1> QED
    BY <1>1, ConsistentInvariant, PTL

\* A power loss stays between the last directory sync and the file.
THEOREM PowerLossSafe == FileSpec => []PowerSafe
  <1>1. Consistent => PowerSafe
    BY DEF Consistent
  <1> QED
    BY <1>1, ConsistentInvariant, PTL

-----------------------------------------------------------------------------
(* Refinement of the atomic store. *)

LEMMA StoreStep ==
  FileTypeOK /\ FileTypeOK' /\ Consistent /\ [FileNext]_fileVars => [Store!Next]_file
  <1> SUFFICES ASSUME FileTypeOK, FileTypeOK', Consistent, [FileNext]_fileVars PROVE [Store!Next]_file
    OBVIOUS
  <1>1. ASSUME NEW n \in Names, Rename(n) PROVE Store!Set(n)
    <2>1. file' = next[n] /\ file = values /\ file'[n] \in Nat
      BY <1>1 DEF Rename, Consistent, FileTypeOK, Cursors
    <2>2. next[n] = [values EXCEPT ![n] = next[n][n]] /\ values[n] <= next[n][n]
      BY <1>1 DEF Rename, Consistent
    <2> QED
      BY <2>1, <2>2 DEF Store!Set
  <1>2. ASSUME PowerLoss PROVE Store!Regress
    BY <1>2 DEF PowerLoss, Store!Regress, Consistent, PowerSafe, FileTypeOK, Cursors
  <1>3. ASSUME NEW n \in Names,
               Begin(n) \/ Write(n) \/ Sync(n) \/ Failed(n) \/ Finish(n)
        PROVE  UNCHANGED file
    BY <1>3 DEF Begin, Write, Sync, Failed, Finish
  <1>4. ASSUME ProcessCrash \/ Load \/ UNCHANGED fileVars PROVE UNCHANGED file
    BY <1>4 DEF ProcessCrash, Load, fileVars
  <1> QED
    BY <1>1, <1>2, <1>3, <1>4 DEF FileNext, SetStep, Store!Next

\* FileStore implements the atomic store the scheduler's model assumes.
THEOREM AtomicStore == FileSpec => IsAtomicStore
  <1>1. FileInit => Store!Init
    BY DEF FileInit, Store!Init, Empty
  <1> QED
    BY <1>1, FileTypeCorrect, ConsistentInvariant, StoreStep, PTL
    DEF FileSpec, IsAtomicStore, Store!Spec
=============================================================================
