----------------------------- MODULE Scheduler ------------------------------
(***************************************************************************)
(* The polling loop of internal/collector/scheduler.go for window          *)
(* collectors: each collector's goroutine (runEntry, RunOnce, runWindow)   *)
(* fetches source windows, commits them under the process-wide commitMu    *)
(* (commitWindow, commit, skipGap) and advances a durable checkpoint.      *)
(*                                                                         *)
(* Time is counted in ticks, Second of which make a second, because the    *)
(* clock, a lookback and a maximum window may be fractional while the      *)
(* Cloudflare filters and most cursors are whole seconds.  The records of  *)
(* a window are abstracted to the source seconds it covers.  The Cloudflare*)
(* API, the OTLP backend and the disk may fail at every step; the process  *)
(* may be asked to stop, and may crash, at any moment.                     *)
(***************************************************************************)
EXTENDS Integers, Sequences, FiniteSets

CONSTANTS
  Collectors,        \* registered window collectors
  NoMark,            \* checkpoint of a collector that has none
  NoOne,             \* owner of commitMu when it is free
  Second,            \* ticks per second
  Kind,              \* Kind[c]: "plain", "adaptive" or "budgeted"
  MaxWindow,         \* MaxWindow[c] in ticks; 0 is unbounded
  Lookback,          \* InitialLookback in ticks
  Lags,              \* Lags[c]: the values Lag()/LagAt(now) can take
  Margin,            \* Margin[c] = Interval + Lag() + one minute
  Retention,         \* Retention[c]: how far back the dataset reaches
  Capacity,          \* seconds of source one commit exports before its deadline
  ConfiguredBudget,  \* commitBudgetBytes, in seconds' worth of payload
  ChunkBudget,       \* commitChunkBytes, in the same unit
  Recovery,          \* commitBudgetRecovery
  MaxWindowsPerTick, \* maxWindowsPerTick
  Rejections,        \* payload rejections that drop a window
  StartTime,         \* bound: the clock starts here
  MaxTime,           \* bound: the clock stops here
  MaxRestarts        \* bound: process restarts, after a crash or a shutdown

ASSUME TimeAssumption ==
  /\ Second \in Nat \ {0}
  /\ StartTime \in Int /\ MaxTime \in Int /\ MaxRestarts \in Nat

ASSUME CollectorAssumption ==
  /\ Kind \in [Collectors -> {"plain", "adaptive", "budgeted"}]
  /\ MaxWindow \in [Collectors -> Nat]
  /\ Lookback \in [Collectors -> Nat]
  /\ Margin \in [Collectors -> Nat]
  /\ Retention \in [Collectors -> Nat]
  /\ Capacity \in [Collectors -> Nat]
  /\ \A c \in Collectors : Lags[c] \subseteq Nat

ASSUME BudgetAssumption ==
  /\ ConfiguredBudget \in Nat \ {0} /\ ChunkBudget \in Nat \ {0}
  /\ Recovery \in Nat
  /\ MaxWindowsPerTick \in Nat \ {0} /\ Rejections \in Nat \ {0}

ASSUME SentinelAssumption ==
  /\ NoMark \notin Int
  /\ NoOne \notin Collectors

VARIABLES
  now,             \* s.Now()
  cancelled,       \* ctx.Err() # nil: shutdown has begun
  restarts,        \* restarts so far
  owner,           \* holder of commitMu
  ckpt,            \* Checkpoints: the durable cursor of each collector
  failed400,       \* failed400[c]: [from, to, count]; count = 0 is no entry
  adaptiveWindows, \* learned source-window limit; 0 is no entry
  commitBudgets,   \* [bytes, since]; bytes = 0 is no entry
  pc,              \* where collector c's goroutine is
  run,             \* the locals of runWindow and commitWindow
  origin,          \* history: second of the first cursor, or NoMark
  accounted,       \* history: seconds delivered by a successful commit, dropped
                   \* after payload rejections or reported as a retention gap
  rejections       \* history: the windows of the latest consecutive rejections

process == <<owner, failed400, adaptiveWindows, commitBudgets, pc, run>>
history == <<origin, accounted, rejections>>
vars == <<now, cancelled, restarts, ckpt, process, history>>

-----------------------------------------------------------------------------
(* Whole seconds.  time.Truncate(time.Second), and the second a time is in. *)

SecondOf(t) == t \div Second
Trunc(t) == Second * SecondOf(t)

\* The least whole second at or after t: Add(Second - 1ns).Truncate(Second).
Ceil(t) == Trunc(t + Second - 1)

\* The seconds a source filter [a, b) serialised as RFC3339 seconds selects.
Rows(a, b) == SecondOf(a) .. (SecondOf(b) - 1)

Smaller(a, b) == IF a < b THEN a ELSE b
Larger(a, b) == IF a > b THEN a ELSE b

Adaptive(c) == Kind[c] \in {"adaptive", "budgeted"}
Budgeted(c) == Kind[c] = "budgeted"

NoRejection == [from |-> 0, to |-> 0, count |-> 0]
NoBudget == [bytes |-> 0, since |-> 0]
\* The locals at the head of runWindow's loop, and outside a poll.
AtLoop(from, to, committed, truncated) ==
  [from |-> from, to |-> to, windowTo |-> 0, end |-> 0, mark |-> 0,
   committed |-> committed, truncated |-> truncated, budget |-> 0]
IdleRun == AtLoop(0, 0, 0, FALSE)

\* What a goroutine holds while it owns commitMu.
Critical == {"export", "save", "announce", "gapsave"}
Labels == {"wait", "loop", "fetch", "commit", "gap", "stopped"} \cup Critical

-----------------------------------------------------------------------------
Init ==
  /\ now = StartTime
  /\ cancelled = FALSE
  /\ restarts = 0
  /\ owner = NoOne
  /\ ckpt = [c \in Collectors |-> NoMark]
  /\ failed400 = [c \in Collectors |-> NoRejection]
  /\ adaptiveWindows = [c \in Collectors |-> 0]
  /\ commitBudgets = [c \in Collectors |-> NoBudget]
  /\ pc = [c \in Collectors |-> "wait"]
  /\ run = [c \in Collectors |-> IdleRun]
  /\ origin = [c \in Collectors |-> NoMark]
  /\ accounted = [c \in Collectors |-> {}]
  /\ rejections = [c \in Collectors |-> << >>]

Goto(c, label) == pc' = [pc EXCEPT ![c] = label]

\* RunOnce returns an error: the goroutine waits for its next tick
\* (the locals of runWindow are gone).
Abandon(c) == Goto(c, "wait") /\ run' = [run EXCEPT ![c] = IdleRun]

\* Mutant: shutdown is not looked at between polls and windows.
ContextIgnored == TRUE

\* ctx.Err() = nil, as runEntry checks it before a poll and runWindow before
\* each window.
Running == ~cancelled

-----------------------------------------------------------------------------
(* runWindow: the window bounds of one poll. *)

\* Mutant: the window reaches up to the present.
UpperBoundNow(lag) == Trunc(now)

\* The newest whole second whose rows have settled.
UpperBound(lag) == Trunc(now - lag)

\* No checkpoint and no lookback: start at the current bound, fetch nothing.
\* (Checkpoints.Set failing leaves everything as it was.)
Bootstrap(c) ==
  /\ pc[c] = "wait" /\ Running
  /\ ckpt[c] = NoMark /\ Lookback[c] = 0
  /\ \E lag \in Lags[c] :
       /\ ckpt' = [ckpt EXCEPT ![c] = UpperBound(lag)]
       /\ origin' = [origin EXCEPT ![c] = SecondOf(UpperBound(lag))]
  /\ UNCHANGED <<now, cancelled, restarts, process, accounted,
                 rejections>>

InitialFrom(c, to) ==
  IF Adaptive(c) THEN Trunc(to - Lookback[c]) ELSE to - Lookback[c]

\* Mutant: the first lower cursor is kept in memory only.
ForgetInitialCursor(c, from) == ckpt' = ckpt

\* The initial lower cursor is persisted before the first fetch.
PersistInitialCursor(c, from) == ckpt' = [ckpt EXCEPT ![c] = from]

EnterLoop(c, from, to) ==
  /\ run' = [run EXCEPT ![c] = AtLoop(from, to, 0, FALSE)]
  /\ Goto(c, "loop")

StartLookback(c) ==
  /\ pc[c] = "wait" /\ Running
  /\ ckpt[c] = NoMark /\ Lookback[c] > 0
  /\ \E lag \in Lags[c] :
       LET to == UpperBound(lag)
           from == InitialFrom(c, to)
       IN /\ PersistInitialCursor(c, from)
          /\ origin' = [origin EXCEPT ![c] = IF @ = NoMark THEN SecondOf(from) ELSE @]
          /\ EnterLoop(c, from, to)
  /\ UNCHANGED <<now, cancelled, restarts, owner, failed400, adaptiveWindows,
                 commitBudgets, accounted, rejections>>

Resume(c) ==
  /\ pc[c] = "wait" /\ Running
  /\ ckpt[c] # NoMark
  /\ \E lag \in Lags[c] : EnterLoop(c, Trunc(ckpt[c]), UpperBound(lag))
  /\ UNCHANGED <<now, cancelled, restarts, owner, ckpt, failed400, adaptiveWindows,
                 commitBudgets, history>>

-----------------------------------------------------------------------------
(* runWindow's loop: which window to commit next. *)

\* sourceWindowLimit: the configured bound, tightened by the learned one.
Limit(c) ==
  LET learned == adaptiveWindows[c]
      bound == IF learned > 0 /\ (MaxWindow[c] = 0 \/ learned < MaxWindow[c])
               THEN learned ELSE MaxWindow[c]
  IN IF Adaptive(c) /\ bound >= Second THEN Trunc(bound) ELSE bound

\* Only the leading window is left: it waits for the next tick unless a
\* budgeted collector stopped inside it.
LeadingWindow(c) ==
  /\ ~run[c].truncated
  /\ Limit(c) = 0 \/ run[c].to - run[c].from <= Limit(c)

\* The loop ends: its tick's share is used up, the backlog is empty, the bound
\* is unusable (an error), or something was committed and the rest can wait.
LoopDone(c) ==
  \/ run[c].committed >= MaxWindowsPerTick
  \/ run[c].from >= run[c].to
  \/ Adaptive(c) /\ Limit(c) > 0 /\ Limit(c) < Second
  \/ run[c].committed > 0 /\ LeadingWindow(c)

WindowEnd(c) ==
  IF Limit(c) > 0 /\ run[c].to - run[c].from > Limit(c)
  THEN run[c].from + Limit(c)
  ELSE run[c].to

Pinned(c) == failed400[c].count > 0 /\ failed400[c].from = run[c].from

Budget(c) ==
  CASE ~Budgeted(c) -> 0
    [] commitBudgets[c].bytes > 0 -> commitBudgets[c].bytes
    [] OTHER -> ConfiguredBudget

LeaveLoop(c) ==
  /\ pc[c] = "loop" /\ Running
  /\ LoopDone(c)
  /\ Abandon(c)
  /\ UNCHANGED <<now, cancelled, restarts, owner, ckpt, failed400, adaptiveWindows,
                 commitBudgets, history>>

\* The first half of commitWindow.  The short commitMu sections read and clear
\* only entries that this goroutine alone writes, so one step takes them all.
\* A window rejected before is fetched again with the same end.
BeginWindow(c) ==
  /\ pc[c] = "loop" /\ Running /\ owner = NoOne
  /\ ~LoopDone(c)
  /\ run' = [run EXCEPT ![c] =
       [@ EXCEPT !.windowTo = WindowEnd(c),
                 !.end = IF Pinned(c) THEN failed400[c].to ELSE WindowEnd(c),
                 !.budget = Budget(c)]]
  /\ failed400' = [failed400 EXCEPT ![c] = IF Pinned(c) THEN @ ELSE NoRejection]
  /\ Goto(c, "fetch")
  /\ UNCHANGED <<now, cancelled, restarts, owner, ckpt, adaptiveWindows,
                 commitBudgets, history>>

-----------------------------------------------------------------------------
(* The fetch: CollectWindow or CollectWindowBudget, without commitMu. *)

\* The marks a collector may answer [from, end) with: the end or some whole
\* second, a second before or after the window included; a budgeted one stops
\* where its payload reaches the budget, but not inside the first second.
ReturnedMarks(c) ==
  LET r == run[c]
      whole == {m \in (r.from - Second) .. (r.end + Second) : m = Trunc(m)}
  IN IF Budgeted(c)
     THEN {m \in whole : m - r.from <= Second * Larger(1, r.budget)}
     ELSE whole \cup {r.end}

\* commitWindow's checks of the mark: inside the window, and for an adaptive
\* collector all bounds whole seconds and, without a budget, the very end.
ValidMark(c, m) ==
  /\ run[c].from < m /\ m <= run[c].end
  /\ Adaptive(c) => /\ \A t \in {run[c].from, run[c].end, m} : t = Trunc(t)
                    /\ Budgeted(c) \/ m = run[c].end

Expired(c) == run[c].from < now - Retention[c]

Fetched(c) ==
  /\ pc[c] = "fetch" /\ ~cancelled
  /\ ~Expired(c)
  /\ \E m \in ReturnedMarks(c) :
       ValidMark(c, m) /\ run' = [run EXCEPT ![c].mark = m]
  /\ Goto(c, "commit")
  /\ UNCHANGED <<now, cancelled, restarts, owner, ckpt, failed400, adaptiveWindows,
                 commitBudgets, history>>

\* The API fails, the collector panics or returns an invalid mark, or the
\* context is cancelled during the fetch or found cancelled after it.
FetchFailed(c) ==
  /\ pc[c] = "fetch"
  /\ Abandon(c)
  /\ UNCHANGED <<now, cancelled, restarts, owner, ckpt, failed400, adaptiveWindows,
                 commitBudgets, history>>

\* skipGap's mark: past the retention floor by a margin, within the window.
SkipMark(c) == Smaller(Ceil(now - Retention[c] + Margin[c]), run[c].end)

\* The dataset no longer reaches back to from: RetentionGapError.  A gap that
\* cannot be resolved inside the window is returned as an error (FetchFailed).
FetchedGap(c) ==
  /\ pc[c] = "fetch"
  /\ Expired(c) /\ SkipMark(c) > run[c].from
  /\ run' = [run EXCEPT ![c].mark = SkipMark(c)]
  /\ Goto(c, "gap")
  /\ UNCHANGED <<now, cancelled, restarts, owner, ckpt, failed400, adaptiveWindows,
                 commitBudgets, history>>

-----------------------------------------------------------------------------
(* The commit: from lockCommit to the deferred Unlock. *)

Lock(c) ==
  /\ owner = NoOne
  /\ owner' = c
  /\ \/ pc[c] = "commit" /\ Goto(c, "export")
     \/ pc[c] = "gap" /\ Goto(c, "announce")
  /\ UNCHANGED <<now, cancelled, restarts, ckpt, failed400, adaptiveWindows,
                 commitBudgets, run, history>>

\* commitWindow or skipGap returns an error with the cursor where it was.
Fail(c) == owner' = NoOne /\ Abandon(c)

Oversize(c) == SecondOf(run[c].mark) - SecondOf(run[c].from) > Capacity[c]

\* The window's source seconds are delivered, dropped or reported skipped.
Account(c) ==
  accounted' = [accounted EXCEPT ![c] = @ \cup Rows(run[c].from, run[c].mark)]

\* restoreCommitBudget: a reduced budget doubles back after a quiet interval.
Restored(c) ==
  LET b == commitBudgets[c]
  IN IF ~Budgeted(c) \/ b.bytes = 0 \/ now - b.since < Recovery THEN b
     ELSE IF 2 * b.bytes < ConfiguredBudget THEN [bytes |-> 2 * b.bytes, since |-> now]
     ELSE NoBudget

ExportOk(c) ==
  /\ pc[c] = "export" /\ (Adaptive(c) => ~Oversize(c))
  /\ Account(c)
  /\ failed400' = [failed400 EXCEPT ![c] = NoRejection]
  /\ commitBudgets' = [commitBudgets EXCEPT ![c] = Restored(c)]
  /\ rejections' = [rejections EXCEPT ![c] = << >>]
  /\ \/ Goto(c, "save") /\ UNCHANGED <<owner, run>>
     \/ Fail(c)                       \* replaying a buffered metric fails
  /\ UNCHANGED <<now, cancelled, restarts, ckpt, adaptiveWindows, origin>>

\* Mutant: a deadline teaches nothing.
UnreducedWindow(c) == adaptiveWindows[c]

\* reduceSourceWindow: half the window that did not fit, never growing back.
ReducedWindow(c) ==
  LET retry == Larger(Second, Trunc((run[c].end - run[c].from) \div 2))
      current == adaptiveWindows[c]
  IN IF current = 0 \/ retry < current THEN retry ELSE current

\* Mutant: the budget is kept.
UnreducedBudget(c) == run[c].budget

\* reduceCommitBudget: half the budget, not below one export chunk.
ReducedBudget(c) ==
  Smaller(run[c].budget,
          Larger(Smaller(ConfiguredBudget, ChunkBudget), run[c].budget \div 2))

\* Mutant: a failure that is not a payload rejection keeps the pending window.
KeepRejections(c) == UNCHANGED failed400

\* A commit failure other than a payload rejection forgets earlier rejections.
ForgetRejections(c) == failed400' = [failed400 EXCEPT ![c] = NoRejection]

\* The aggregate commit deadline passes.
ExportDeadline(c) ==
  /\ pc[c] = "export"
  /\ adaptiveWindows' = [adaptiveWindows EXCEPT ![c] =
       IF Kind[c] = "adaptive" THEN ReducedWindow(c) ELSE @]
  /\ commitBudgets' = [commitBudgets EXCEPT ![c] =
       IF Budgeted(c) THEN [bytes |-> ReducedBudget(c), since |-> now] ELSE @]
  /\ ForgetRejections(c)
  /\ rejections' = [rejections EXCEPT ![c] = << >>]
  /\ Fail(c)
  /\ UNCHANGED <<now, cancelled, restarts, ckpt, origin, accounted>>

\* Any other export error: unreachable, 5xx, authentication, one slow POST.
ExportFailed(c) ==
  /\ pc[c] = "export"
  /\ ForgetRejections(c)
  /\ rejections' = [rejections EXCEPT ![c] = << >>]
  /\ Fail(c)
  /\ UNCHANGED <<now, cancelled, restarts, ckpt, adaptiveWindows, commitBudgets,
                 origin, accounted>>

\* A panic inside the export: RunOnce recovers it, nothing is recorded.
ExportPanic(c) ==
  /\ pc[c] = "export"
  /\ Fail(c)
  /\ UNCHANGED <<now, cancelled, restarts, ckpt, failed400, adaptiveWindows,
                 commitBudgets, history>>

Window(c) == <<run[c].from, run[c].end>>

\* The pending rejection of this window, or a fresh one for a new window.
PendingCount(c) ==
  IF failed400[c].count > 0 /\ <<failed400[c].from, failed400[c].to>> = Window(c)
  THEN failed400[c].count ELSE 0

\* The latest Rejections windows, newest last.
Recorded(c) ==
  LET s == Append(rejections[c], Window(c))
  IN IF Len(s) > Rejections THEN Tail(s) ELSE s

\* The n-th rejection of a window drops it.
DropNow(n) == n >= Rejections

\* Every error is a 400 or a partial success: retry, and drop at the last one.
ExportRejected(c) ==
  /\ pc[c] = "export"
  /\ rejections' = [rejections EXCEPT ![c] = Recorded(c)]
  /\ \/ /\ ~DropNow(PendingCount(c) + 1)
        /\ failed400' = [failed400 EXCEPT ![c] =
             [from |-> run[c].from, to |-> run[c].end, count |-> PendingCount(c) + 1]]
        /\ Fail(c)
        /\ UNCHANGED accounted
     \/ /\ DropNow(PendingCount(c) + 1)
        /\ failed400' = [failed400 EXCEPT ![c] = NoRejection]
        /\ Account(c)
        /\ Goto(c, "save") /\ UNCHANGED <<owner, run>>
  /\ UNCHANGED <<now, cancelled, restarts, ckpt, adaptiveWindows, commitBudgets,
                 origin>>

\* Mutant: the cursor moves to the end of the requested window.
WindowEndCursor(c) == run[c].end

\* What Checkpoints.Set persists.
NewCursor(c) == run[c].mark

\* Checkpoints.Set succeeded: runWindow continues at the mark.
Advance(c) ==
  /\ ckpt' = [ckpt EXCEPT ![c] = NewCursor(c)]
  /\ owner' = NoOne
  /\ run' = [run EXCEPT ![c] =
       AtLoop(run[c].mark, run[c].to, run[c].committed + 1,
              Budgeted(c) /\ run[c].mark < run[c].windowTo)]
  /\ Goto(c, "loop")

Save(c) ==
  /\ pc[c] = "save"
  /\ Advance(c)
  /\ UNCHANGED <<now, cancelled, restarts, failed400, adaptiveWindows, commitBudgets,
                 history>>

\* skipGap exports the gap event and counts it before moving the cursor.
Announce(c) ==
  /\ pc[c] = "announce"
  /\ Account(c)
  /\ Goto(c, "gapsave")
  /\ UNCHANGED <<now, cancelled, restarts, owner, ckpt, failed400, adaptiveWindows,
                 commitBudgets, run, origin, rejections>>

GapSave(c) ==
  /\ pc[c] = "gapsave"
  /\ Advance(c)
  /\ failed400' = [failed400 EXCEPT ![c] = NoRejection]
  /\ UNCHANGED <<now, cancelled, restarts, adaptiveWindows, commitBudgets, history>>

\* The gap event is not exported, or Checkpoints.Set fails.
CommitAborted(c) ==
  /\ pc[c] \in {"save", "announce", "gapsave"}
  /\ Fail(c)
  /\ UNCHANGED <<now, cancelled, restarts, ckpt, failed400, adaptiveWindows,
                 commitBudgets, history>>

-----------------------------------------------------------------------------
(* The clock, shutdown and restarts. *)

Tick ==
  /\ now < MaxTime
  /\ now' = now + 1
  /\ UNCHANGED <<cancelled, restarts, ckpt, process, history>>

Cancel ==
  /\ ~cancelled
  /\ cancelled' = TRUE
  /\ UNCHANGED <<now, restarts, ckpt, process, history>>

\* runEntry returns: between polls, or at the loop's context check.
Stop(c) ==
  /\ cancelled /\ pc[c] \in {"wait", "loop"}
  /\ Goto(c, "stopped")
  /\ run' = [run EXCEPT ![c] = IdleRun]
  /\ UNCHANGED <<now, cancelled, restarts, owner, ckpt, failed400, adaptiveWindows,
                 commitBudgets, history>>

\* A crash at any moment, or the exit after a shutdown, and the next start:
\* only the checkpoints survive.
Restart ==
  /\ restarts < MaxRestarts
  /\ restarts' = restarts + 1
  /\ cancelled' = FALSE
  /\ owner' = NoOne
  /\ failed400' = [c \in Collectors |-> NoRejection]
  /\ adaptiveWindows' = [c \in Collectors |-> 0]
  /\ commitBudgets' = [c \in Collectors |-> NoBudget]
  /\ pc' = [c \in Collectors |-> "wait"]
  /\ run' = [c \in Collectors |-> IdleRun]
  /\ UNCHANGED <<now, ckpt, history>>

\* Run has returned and the process has exited for good.
Exited ==
  /\ \A c \in Collectors : pc[c] = "stopped"
  /\ UNCHANGED vars

Begin(c) == Bootstrap(c) \/ StartLookback(c) \/ Resume(c)
Loop(c) == LeaveLoop(c) \/ BeginWindow(c)
Fetch(c) == Fetched(c) \/ FetchFailed(c) \/ FetchedGap(c)
Export(c) ==
  ExportOk(c) \/ ExportDeadline(c) \/ ExportFailed(c) \/ ExportPanic(c)
  \/ ExportRejected(c)
Finish(c) == Save(c) \/ Announce(c) \/ GapSave(c) \/ CommitAborted(c)

Step(c) == Begin(c) \/ Loop(c) \/ Fetch(c) \/ Lock(c) \/ Export(c) \/ Finish(c) \/ Stop(c)

Next == Tick \/ Cancel \/ Restart \/ Exited \/ \E c \in Collectors : Step(c)

Spec == Init /\ [][Next]_vars

-----------------------------------------------------------------------------
(* Fairness.  A goroutine that can move again and again does: the ticker      *)
(* fires, timeouts bound every call, and Go's mutex hands over to a waiter    *)
(* after a millisecond, hence strong fairness for Step.  The environment is   *)
(* assumed to succeed again and again: the API answers, the backend accepts   *)
(* what fits its capacity and an oversize export runs into the commit         *)
(* deadline, the disk accepts a write.                                        *)

Answered(c) == Fetched(c) \/ FetchedGap(c)
Exported(c) ==
  \/ ExportOk(c) /\ pc'[c] = "save"
  \/ Adaptive(c) /\ Oversize(c) /\ ExportDeadline(c)
Written(c) == Save(c) \/ GapSave(c)

Fairness ==
  /\ WF_vars(Tick)
  /\ \A c \in Collectors :
       /\ SF_vars(Step(c))
       /\ SF_vars(Answered(c)) /\ SF_vars(Exported(c))
       /\ SF_vars(Announce(c)) /\ SF_vars(Written(c))

FairSpec == Spec /\ Fairness

-----------------------------------------------------------------------------
(* Properties. *)

RunType ==
  [from : Int, to : Int, windowTo : Int, end : Int, mark : Int,
   committed : Nat, truncated : BOOLEAN, budget : Nat]

RejectionType == [from : Int, to : Int, count : 0 .. (Rejections - 1)]
BudgetType == [bytes : Nat, since : Int]
RejectionLog == Seq(Int \X Int)

\* The type of every variable; a pending rejection count stays below the limit
\* that drops the window.
TypeOK ==
  /\ now \in Int /\ cancelled \in BOOLEAN /\ restarts \in Nat
  /\ owner \in Collectors \cup {NoOne}
  /\ ckpt \in [Collectors -> Int \cup {NoMark}]
  /\ failed400 \in [Collectors -> RejectionType]
  /\ adaptiveWindows \in [Collectors -> Nat]
  /\ commitBudgets \in [Collectors -> BudgetType]
  /\ pc \in [Collectors -> Labels]
  /\ run \in [Collectors -> RunType]
  /\ origin \in [Collectors -> Int \cup {NoMark}]
  /\ accounted \in [Collectors -> SUBSET Int]
  /\ rejections \in [Collectors -> RejectionLog]

\* Every source second from the first cursor to the durable cursor was
\* delivered, dropped after repeated payload rejections, or reported as a
\* retention gap, whatever failed, crashed or was retried (commitWindow, skipGap).
NoSilentLoss ==
  \A c \in Collectors :
    ckpt[c] # NoMark =>
      origin[c] .. (SecondOf(ckpt[c]) - 1) \subseteq accounted[c]

\* Why NoSilentLoss holds: a poll in progress started at the durable cursor, its
\* mark lies ahead, and what lies between is accounted for before it is saved.
CoverageOf(c) ==
  /\ ckpt[c] = NoMark => origin[c] = NoMark /\ pc[c] \in {"wait", "stopped"}
  /\ ckpt[c] # NoMark =>
       origin[c] \in Int /\ origin[c] .. (SecondOf(ckpt[c]) - 1) \subseteq accounted[c]
  /\ pc[c] \notin {"wait", "stopped"} => SecondOf(run[c].from) = SecondOf(ckpt[c])
  /\ pc[c] \in {"commit", "gap"} \cup Critical => run[c].from < run[c].mark
  /\ pc[c] \in {"save", "gapsave"} =>
       Rows(run[c].from, run[c].mark) \subseteq accounted[c]

Coverage == \A c \in Collectors : CoverageOf(c)

\* commitMu is held by exactly the goroutine that is between lockCommit and its
\* deferred Unlock, so two collectors never export, judge each other's export
\* failures or write the checkpoint file at the same time, and no error or panic
\* path leaves the mutex held.
CommitExclusion == \A c \in Collectors : pc[c] \in Critical <=> owner = c

\* An adaptive collector never exports a window wider than the current
\* limit: a window pinned by earlier payload rejections does not outlive a
\* smaller learned limit (reduceSourceWindow and commitWindow's pinning).
WithinLimit ==
  \A c \in Collectors :
    Adaptive(c) /\ Limit(c) > 0 /\ pc[c] \in {"fetch", "commit", "export"} =>
      run[c].end - run[c].from <= Limit(c)

\* Nothing is delivered, dropped or skipped before the collector's lag has
\* passed, so a row that Cloudflare ingests within the lag is never missed,
\* also when a rejected window is fetched again (runWindow's upper bound).
Settled ==
  \A c \in Collectors : \A s \in accounted[c] :
    \E lag \in Lags[c] : Second * (s + 1) + lag <= now

\* The durable cursor never moves back by a second and never disappears
\* (runWindow, commitWindow and skipGap write it, restarts read it back).
CursorForward ==
  [][\A c \in Collectors : ckpt[c] # NoMark =>
       /\ ckpt'[c] # NoMark
       /\ SecondOf(ckpt'[c]) >= SecondOf(ckpt[c])]_vars

\* A rejected commit that nevertheless goes on to move the cursor.
Dropping(c) == pc[c] = "export" /\ pc'[c] = "save" /\ rejections'[c] # << >>

\* A window is dropped only when the latest commits of the collector, as many
\* as the rejection limit, were payload rejections of exactly that window.
DropJustified ==
  [][\A c \in Collectors : Dropping(c) =>
       /\ Len(rejections'[c]) = Rejections
       /\ \A i \in 1 .. Rejections : rejections'[c][i] = Window(c)]_vars

CaughtUp(c) ==
  /\ ckpt[c] # NoMark
  /\ \E lag \in Lags[c] : SecondOf(ckpt[c]) >= SecondOf(MaxTime - lag)

\* Unless the process stays shut down, every collector's cursor reaches the
\* newest settled second: failures, rejections, gaps, deadlines of oversize
\* commits and contention for commitMu delay it but cannot stop it.
CatchUp == <>[](~cancelled) => \A c \in Collectors : <>CaughtUp(c)

\* After shutdown begins every goroutine returns, so Run returns: commits in
\* progress finish or fail, and no new poll starts (runEntry, runWindow).
ShutdownCompletes ==
  cancelled ~> (~cancelled \/ \A c \in Collectors : pc[c] = "stopped")

-----------------------------------------------------------------------------
(* The scheduler implements the delivery promise of WindowDelivery. *)

Cursor == [c \in Collectors |-> IF ckpt[c] = NoMark THEN NoMark ELSE SecondOf(ckpt[c])]

Promise == INSTANCE WindowDelivery
             WITH NoCursor <- NoMark, cursor <- Cursor, accounted <- accounted

\* Every step of the scheduler is a step of WindowDelivery or leaves the cursor
\* and the accounted seconds alone: exports come before the cursor moves.
KeepsPromise == Promise!Spec
=============================================================================
