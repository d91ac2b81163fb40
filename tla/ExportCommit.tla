---------------------------- MODULE ExportCommit ----------------------------
(***************************************************************************)
(* How a commit learns whether its records were exported: Scheduler.commit *)
(* (internal/collector/scheduler.go), Providers.BeginCommit and            *)
(* FlushCommit (internal/telemetry/provider.go), the export observer       *)
(* (export_observer.go) and the synchronous log batcher (log_batch.go).    *)
(*                                                                         *)
(* The SDK swallows the errors of an emit, and a batch may be exported by  *)
(* the committer in the middle of an emit, by another collector's emit, by *)
(* a background timer or by ForceFlush.  The observer counts every failed  *)
(* export; a commit compares the count before its first emit with the one  *)
(* after both flushes, and a bounded list of recent failures tells payload *)
(* rejections from other failures.  Records are numbers; how many make a   *)
(* batch or a chunk depends on their sizes and is left open.               *)
(***************************************************************************)
EXTENDS Integers, Sequences

CONSTANTS
  Cap,            \* maxObservedFailures
  NoBatch,        \* no export under way
  MaxRecords,     \* bound: records emitted
  MaxFailures     \* bound: failed exports

\* Who may start an export: an emit of the commit or of another collector, a
\* background timer, or ForceFlush.
Callers == {"commit", "other", "timer", "flush"}
BatchType == [batch : SUBSET Nat, after : SUBSET Nat, by : Callers]

ASSUME ExportAssumption ==
  /\ Cap \in Nat \ {0}
  /\ MaxRecords \in Nat /\ MaxFailures \in Nat

ASSUME NoBatchAssumption == NoBatch \notin BatchType

VARIABLES
  seq, failures,   \* exportObserver: count, and the latest failures
  logPending,      \* boundedLogExporter.pending
  logExport,       \* the log export that holds the batcher's mutex
  spanPending,     \* spans in the batch processor's queue and batch
  spanExport,      \* the span export that holds the processor's mutex
  phase,           \* where Scheduler.commit is
  since,           \* commit's seq: the count at BeginCommit
  flushed,         \* results of the two concurrent ForceFlush calls
  outcome,         \* how the last finished commit ended
  mine,            \* records the commit has emitted
  created,         \* records emitted so far
  delivered,       \* history: records the backend accepted
  seen             \* history: kinds of failure since BeginCommit

observer == <<seq, failures>>
logs == <<logPending, logExport>>
spans == <<spanPending, spanExport>>
committer == <<phase, since, flushed, outcome, mine>>
vars == <<observer, logs, spans, committer, created, delivered, seen>>

Signals == {"logs", "traces"}
NotFlushed == [s \in Signals |-> "no"]

Init ==
  /\ seq = 0 /\ failures = << >>
  /\ logPending = {} /\ logExport = NoBatch
  /\ spanPending = {} /\ spanExport = NoBatch
  /\ phase = "idle" /\ since = 0 /\ flushed = NotFlushed
  /\ outcome = "none" /\ mine = {}
  /\ created = 0
  /\ delivered = {} /\ seen = {}

-----------------------------------------------------------------------------
(* The observer. *)

Kinds == {"rejected", "failed"}

\* Only the latest Cap failures are kept.
Capped(s) == IF Len(s) > Cap THEN SubSeq(s, Len(s) - Cap + 1, Len(s)) ELSE s

\* record: a failed export is counted and remembered.
Record(kind) ==
  /\ seq < MaxFailures
  /\ seq' = seq + 1
  /\ failures' = Capped(Append(failures, [seq |-> seq + 1, kind |-> kind]))
  /\ seen' = seen \cup {kind}

\* A batch reaches the backend, is refused by it (a 400, or a partial success
\* that keeps some records), or fails otherwise with or without arriving.
Exported(batch, result) ==
  \/ /\ result = "ok"
     /\ delivered' = delivered \cup batch
     /\ UNCHANGED <<observer, seen>>
  \/ /\ result = "rejected" /\ Record("rejected")
     /\ \E part \in SUBSET batch : delivered' = delivered \cup part
  \/ /\ result = "failed" /\ Record("failed")
     /\ \E part \in {{}, batch} : delivered' = delivered \cup part

\* Mutant: failures that were trimmed away leave no trace.
KnownFailures(n) ==
  IF seq = n THEN {}
  ELSE {"background"} \cup {failures[i].kind : i \in {j \in DOMAIN failures : failures[j].seq > n}}

\* Mutant: the observer is not asked.
FlushErrorsOnly(n) == {}

\* failedSince: the error lines for the failures after the n-th.
FailedSince(n) ==
  IF seq = n THEN {}
  ELSE {"background"}
       \cup (IF failures = << >> \/ n + 1 < failures[1].seq THEN {"omitted"} ELSE {})
       \cup {failures[i].kind : i \in {j \in DOMAIN failures : failures[j].seq > n}}

-----------------------------------------------------------------------------
(* boundedLogExporter.  Export runs under its mutex: a record that does not  *)
(* fit flushes the pending batch first and is not appended if that fails; a  *)
(* batch that becomes full is flushed at once.                               *)

Batch(batch, after, by) == [batch |-> batch, after |-> after, by |-> by]

\* A caller emits record r as a log; busy is the caller's state while it waits.
EmitLog(r, by) ==
  /\ logExport = NoBatch
  /\ \/ logPending' = logPending \cup {r} /\ logExport' = NoBatch
     \/ logPending' = {} /\ logExport' = Batch(logPending \cup {r}, {}, by)
     \/ /\ logPending # {}
        /\ logPending' = {} /\ logExport' = Batch(logPending, {r}, by)

\* The background timer's flush.
LogTick ==
  /\ logExport = NoBatch /\ logPending # {}
  /\ logExport' = Batch(logPending, {}, "timer")
  /\ logPending' = {}
  /\ UNCHANGED <<observer, spans, committer, created, delivered, seen>>

\* The mutex is released: the record that waited is appended, or flushed again.
LogsReleased(result) ==
  LET x == logExport
  IN \/ logPending' = (IF result = "ok" THEN x.after ELSE {}) /\ logExport' = NoBatch
     \/ /\ result = "ok" /\ x.after # {}
        /\ logPending' = {} /\ logExport' = Batch(x.after, {}, x.by)

\* Mutant: a failed flush never returns.
AnsweredOnSuccess(result) ==
  CASE logExport.by = "commit" ->
         /\ phase' = IF logExport' = NoBatch THEN "replay" ELSE phase
         /\ UNCHANGED flushed
    [] logExport.by = "flush" /\ result = "ok" ->
         /\ flushed' = [flushed EXCEPT !["logs"] = result]
         /\ UNCHANGED phase
    [] OTHER -> UNCHANGED <<phase, flushed>>

\* An emit or ForceFlush of the committer waits for the export it started.
LogsAnswered(result) ==
  CASE logExport.by = "commit" ->
         /\ phase' = IF logExport' = NoBatch THEN "replay" ELSE phase
         /\ UNCHANGED flushed
    [] logExport.by = "flush" ->
         /\ flushed' = [flushed EXCEPT !["logs"] = result]
         /\ UNCHANGED phase
    [] OTHER -> UNCHANGED <<phase, flushed>>

LogExportEnds(result) ==
  /\ logExport # NoBatch
  /\ Exported(logExport.batch, result)
  /\ LogsReleased(result)
  /\ LogsAnswered(result)
  /\ UNCHANGED <<spans, since, outcome, mine, created>>

-----------------------------------------------------------------------------
(* The span batch processor (SDK): emits are queued, a background export or  *)
(* ForceFlush takes all of them under the processor's mutex.                 *)

SpanTick ==
  /\ spanExport = NoBatch /\ spanPending # {}
  /\ spanExport' = Batch(spanPending, {}, "timer")
  /\ spanPending' = {}
  /\ UNCHANGED <<observer, logs, committer, created, delivered, seen>>

SpanExportEnds(result) ==
  /\ spanExport # NoBatch
  /\ Exported(spanExport.batch, result)
  /\ spanExport' = NoBatch
  /\ flushed' = IF spanExport.by = "flush" /\ flushed["traces"] = "running"
                THEN [flushed EXCEPT !["traces"] = result] ELSE flushed
  /\ UNCHANGED <<logs, spanPending, phase, since, outcome, mine, created>>

-----------------------------------------------------------------------------
(* Scheduler.commit, one at a time under commitMu. *)

BeginCommit ==
  /\ phase = "idle"
  /\ since' = seq /\ seen' = {}
  /\ mine' = {} /\ outcome' = "none"
  /\ phase' = "replay"
  /\ UNCHANGED <<observer, logs, spans, flushed, created, delivered>>

\* Replay of a log record, or of a log attached to a span.
ReplayLog ==
  /\ phase = "replay" /\ created < MaxRecords
  /\ created' = created + 1
  /\ mine' = mine \cup {created'}
  /\ EmitLog(created', "commit")
  /\ phase' = IF logExport' = NoBatch THEN "replay" ELSE "emit"
  /\ UNCHANGED <<observer, spans, since, flushed, outcome, delivered, seen>>

ReplaySpan ==
  /\ phase = "replay" /\ created < MaxRecords
  /\ created' = created + 1
  /\ mine' = mine \cup {created'}
  /\ spanPending' = spanPending \cup {created'}
  /\ UNCHANGED <<observer, logs, spanExport, phase, since, flushed, outcome,
                 delivered, seen>>

\* A record above the export limit, or one that cannot be replayed, ends the
\* commit with an error; what it has emitted stays in the pipelines.
Abort ==
  /\ phase = "replay"
  /\ outcome' = "failed" /\ phase' = "idle"
  /\ UNCHANGED <<observer, logs, spans, since, flushed, mine, created,
                 delivered, seen>>

\* FlushCommit at the end of a chunk or of the window: both flushes start.
StartFlush ==
  /\ phase = "replay"
  /\ phase' = "flush"
  /\ flushed' = [s \in Signals |-> "waiting"]
  /\ UNCHANGED <<observer, logs, spans, since, outcome, mine, created,
                 delivered, seen>>

\* logs.ForceFlush takes the batcher's mutex and exports what is pending.
FlushLogs ==
  /\ flushed["logs"] = "waiting" /\ logExport = NoBatch
  /\ \/ /\ logPending = {}
        /\ flushed' = [flushed EXCEPT !["logs"] = "ok"]
        /\ UNCHANGED logs
     \/ /\ logPending # {}
        /\ flushed' = [flushed EXCEPT !["logs"] = "running"]
        /\ logExport' = Batch(logPending, {}, "flush")
        /\ logPending' = {}
  /\ UNCHANGED <<observer, spans, phase, since, outcome, mine, created,
                 delivered, seen>>

\* traces.ForceFlush likewise, after any export under way.
FlushSpans ==
  /\ flushed["traces"] = "waiting" /\ spanExport = NoBatch
  /\ \/ /\ spanPending = {}
        /\ flushed' = [flushed EXCEPT !["traces"] = "ok"]
        /\ UNCHANGED spans
     \/ /\ spanPending # {}
        /\ flushed' = [flushed EXCEPT !["traces"] = "running"]
        /\ spanExport' = Batch(spanPending, {}, "flush")
        /\ spanPending' = {}
  /\ UNCHANGED <<observer, logs, phase, since, outcome, mine, created,
                 delivered, seen>>

\* The commit deadline ends traces.ForceFlush while its export goes on.
SpanDeadline ==
  /\ flushed["traces"] \in {"waiting", "running"}
  /\ flushed' = [flushed EXCEPT !["traces"] = "failed"]
  /\ UNCHANGED <<observer, logs, spans, phase, since, outcome, mine, created,
                 delivered, seen>>

\* Mutant: the first of the two flushes to end is enough.
AnyFlushed == \E s \in Signals : flushed[s] \notin {"waiting", "running"}

\* wg.Wait: both flushes have returned.
BothFlushed == \A s \in Signals : flushed[s] \notin {"waiting", "running"}

\* FlushCommit's joined error, line by line.
FlushLines == ({flushed[s] : s \in Signals} \cap Kinds) \cup FailedSince(since)

\* payloadRejected: at least one payload rejection and nothing else.
PayloadRejected(lines) == "rejected" \in lines /\ lines \subseteq {"background", "rejected"}

Verdict(lines) ==
  IF lines = {} THEN "ok" ELSE IF PayloadRejected(lines) THEN "rejected" ELSE "failed"

\* FlushCommit returns; an error ends the commit.
Judge ==
  /\ phase = "flush" /\ BothFlushed
  /\ flushed' = NotFlushed
  /\ IF FlushLines = {}
     THEN phase' = "judged" /\ UNCHANGED outcome
     ELSE phase' = "idle" /\ outcome' = Verdict(FlushLines)
  /\ UNCHANGED <<observer, logs, spans, since, mine, created, delivered, seen>>

\* flush's closing BeginCommit: the window is done, or its next chunk begins.
NextChunk ==
  /\ phase = "judged"
  /\ since' = seq /\ seen' = {}
  /\ \/ phase' = "idle" /\ outcome' = "ok"
     \/ phase' = "replay" /\ UNCHANGED outcome
  /\ UNCHANGED <<observer, logs, spans, flushed, mine, created, delivered>>

\* A snapshot collector emits a log event without commitMu.
OtherLog ==
  /\ created < MaxRecords
  /\ created' = created + 1
  /\ EmitLog(created', "other")
  /\ UNCHANGED <<observer, spans, committer, delivered, seen>>

Results == {"ok"} \cup Kinds

Commit == BeginCommit \/ ReplayLog \/ ReplaySpan \/ Abort \/ StartFlush \/ FlushLogs
            \/ FlushSpans \/ SpanDeadline \/ Judge \/ NextChunk

Next ==
  \/ Commit \/ OtherLog \/ LogTick \/ SpanTick
  \/ \E result \in Results : LogExportEnds(result) \/ SpanExportEnds(result)

Spec == Init /\ [][Next]_vars

(* Every export ends, by an answer or by its timeout, and a caller that waits  *)
(* for the batcher's mutex gets it although others take it in between, as Go's *)
(* mutexes promise.                                                            *)
Fairness ==
  /\ WF_vars(\E result \in Results : LogExportEnds(result))
  /\ WF_vars(\E result \in Results : SpanExportEnds(result))
  /\ SF_vars(FlushLogs) /\ SF_vars(FlushSpans)
  /\ WF_vars(Judge)

FairSpec == Spec /\ Fairness

-----------------------------------------------------------------------------
(* Properties. *)

ExportType == {NoBatch} \cup BatchType
FlushType == {"no", "waiting", "running"} \cup Results

FailureType == [seq : Nat, kind : Kinds]
Phases == {"idle", "replay", "emit", "flush", "judged"}

\* The observer keeps exactly the latest failures, numbered without a gap up to
\* its count.
ObserverOK ==
  /\ seq \in Nat /\ failures \in Seq(FailureType)
  /\ Len(failures) <= Cap
  /\ Len(failures) = Cap \/ Len(failures) = seq
  /\ \A i \in 1 .. Len(failures) : failures[i].seq = seq - Len(failures) + i

\* The type of every variable, and the observer's list is sound.
TypeOK ==
  /\ ObserverOK
  /\ logPending \subseteq Nat /\ logExport \in ExportType
  /\ spanPending \subseteq Nat /\ spanExport \in ExportType
  /\ phase \in Phases
  /\ since \in 0 .. seq /\ flushed \in [Signals -> FlushType]
  /\ outcome \in {"none"} \cup Results
  /\ mine \subseteq Nat /\ created \in Nat
  /\ delivered \subseteq Nat /\ seen \subseteq Kinds

\* A commit that ends well has every one of its records accepted by the
\* backend, whichever chunk, emit, timer or other collector exported them: the
\* scheduler may move the cursor (commit, FlushCommit, failedSince).
CommitDelivered == outcome = "ok" => mine \subseteq delivered

\* A commit counts as a payload rejection exactly when every export failure since
\* BeginCommit was one: failures trimmed from the observer's list never turn an
\* outage into a reason to drop the window, and a poisonous window is recognised
\* as one (failedSince, payloadRejected).
VerdictExact ==
  [][phase = "flush" /\ phase' # "flush" =>
       /\ outcome' = "rejected" => seen = {"rejected"}
       /\ seen = {"rejected"} /\ seq - since <= Cap /\ flushed["traces"] # "failed"
            => outcome' = "rejected"]_vars

(* Why CommitDelivered holds: until an export fails, every record of the       *)
(* commit is delivered or still in a pipeline that has not been flushed.       *)

InLogs == logPending \cup (IF logExport = NoBatch THEN {} ELSE logExport.batch \cup logExport.after)
InSpans == spanPending \cup (IF spanExport = NoBatch THEN {} ELSE spanExport.batch)
Unflushed(s, records) == IF flushed[s] = "ok" THEN {} ELSE records

Tracked ==
  /\ phase \in {"replay", "emit", "flush"} /\ seq = since =>
       mine \subseteq delivered \cup Unflushed("logs", InLogs)
                      \cup Unflushed("traces", InSpans)
  /\ phase = "judged" => mine \subseteq delivered
  /\ phase # "idle" => outcome = "none"
  /\ outcome = "ok" => mine \subseteq delivered
  /\ phase # "flush" => flushed = NotFlushed
  /\ phase = "flush" => \A s \in Signals : flushed[s] # "no"
  /\ logExport # NoBatch =>
       /\ logPending = {}
       /\ logExport.by = "commit" => phase = "emit"
       /\ logExport.by = "flush" =>
            logExport.after = {} /\ phase = "flush" /\ flushed["logs"] = "running"
  /\ flushed["logs"] = "running" => logExport # NoBatch /\ logExport.by = "flush"
  /\ flushed["traces"] = "running" =>
       spanExport # NoBatch /\ spanExport.by = "flush" /\ spanPending = {}
  /\ flushed["traces"] = "ok" => InSpans = {}

\* FlushCommit returns: neither flush waits for ever behind other emits,
\* background exports or an export that outlives its deadline.
FlushReturns == phase = "flush" ~> phase # "flush"
=============================================================================
