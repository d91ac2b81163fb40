-------------------------- MODULE SchedulerProofs ---------------------------
(***************************************************************************)
(* Theorems about Scheduler for every set of collectors and every value of *)
(* the settings and bounds.                                                *)
(***************************************************************************)
EXTENDS Scheduler, SequenceTheorems, TLAPS

-----------------------------------------------------------------------------
(* Whole seconds. *)

LEMMA SecondOfInt == ASSUME NEW t \in Int PROVE SecondOf(t) \in Int
  BY TimeAssumption DEF SecondOf

LEMMA TruncInt == ASSUME NEW t \in Int PROVE Trunc(t) \in Int
  BY TimeAssumption, SecondOfInt DEF Trunc

LEMMA SecondOfMono ==
  ASSUME NEW a \in Int, NEW b \in Int, a <= b
  PROVE  SecondOf(a) <= SecondOf(b)
  BY TimeAssumption DEF SecondOf

LEMMA SecondOfTrunc ==
  ASSUME NEW t \in Int
  PROVE  SecondOf(Trunc(t)) = SecondOf(t)
  BY TimeAssumption, SecondOfInt DEF SecondOf, Trunc

-----------------------------------------------------------------------------
(* Types. *)

LEMMA Constructors ==
  /\ IdleRun \in RunType /\ NoRejection \in RejectionType /\ NoBudget \in BudgetType
  /\ Critical \subseteq Labels
  /\ {"wait", "loop", "fetch", "commit", "gap", "stopped"} \subseteq Labels
  /\ {"export", "save", "announce", "gapsave"} = Critical
  /\ "wait" \in Labels
  BY BudgetAssumption
     DEF IdleRun, AtLoop, RunType, NoRejection, RejectionType, NoBudget, BudgetType, Labels, Critical

LEMMA RunFields ==
  ASSUME TypeOK, NEW c \in Collectors
  PROVE  /\ run[c].from \in Int /\ run[c].to \in Int /\ run[c].end \in Int
         /\ run[c].mark \in Int /\ run[c].budget \in Nat /\ run[c].committed \in Nat
  BY DEF TypeOK, RunType

LEMMA UpperBoundInt ==
  ASSUME TypeOK, NEW c \in Collectors, NEW lag \in Lags[c] PROVE UpperBound(lag) \in Int
  <1>1. lag \in Int /\ now \in Int
    BY CollectorAssumption DEF TypeOK
  <1>2. QED
    BY <1>1, TruncInt DEF UpperBound

LEMMA InitialFromInt ==
  ASSUME NEW c \in Collectors, NEW to \in Int PROVE InitialFrom(c, to) \in Int
  <1>1. Lookback[c] \in Int
    BY CollectorAssumption
  <1>2. QED
    BY <1>1, TruncInt DEF InitialFrom

LEMMA LimitNat ==
  ASSUME TypeOK, NEW c \in Collectors PROVE Limit(c) \in Int
  <1>1. adaptiveWindows[c] \in Int /\ MaxWindow[c] \in Int /\ Second \in Int
    BY CollectorAssumption, TimeAssumption DEF TypeOK
  <1>2. QED
    BY <1>1, TruncInt DEF Limit

LEMMA WindowEndInt ==
  ASSUME TypeOK, NEW c \in Collectors PROVE WindowEnd(c) \in Int
  BY LimitNat, RunFields DEF WindowEnd

LEMMA BudgetNat ==
  ASSUME TypeOK, NEW c \in Collectors PROVE Budget(c) \in Nat
  BY BudgetAssumption DEF TypeOK, BudgetType, Budget

LEMMA SkipMarkInt ==
  ASSUME TypeOK, NEW c \in Collectors PROVE SkipMark(c) \in Int
  <1>1. now \in Int /\ Retention[c] \in Int /\ Margin[c] \in Int /\ Second \in Int
    BY CollectorAssumption, TimeAssumption DEF TypeOK
  <1>2. QED
    BY <1>1, RunFields, TruncInt DEF SkipMark, Ceil, Smaller

LEMMA ReturnedMarksInt ==
  ASSUME TypeOK, NEW c \in Collectors PROVE ReturnedMarks(c) \subseteq Int
  BY RunFields, TimeAssumption DEF ReturnedMarks

LEMMA RestoredType ==
  ASSUME TypeOK, NEW c \in Collectors PROVE Restored(c) \in BudgetType
  BY BudgetAssumption DEF TypeOK, BudgetType, Restored, NoBudget

LEMMA ReducedWindowNat ==
  ASSUME TypeOK, NEW c \in Collectors PROVE ReducedWindow(c) \in Nat
  <1>1. adaptiveWindows[c] \in Nat /\ Second \in Nat
    BY TimeAssumption DEF TypeOK
  <1>2. QED
    BY <1>1, RunFields, TruncInt DEF ReducedWindow, Larger

LEMMA ReducedBudgetNat ==
  ASSUME TypeOK, NEW c \in Collectors PROVE ReducedBudget(c) \in Nat
  BY RunFields, BudgetAssumption DEF ReducedBudget, Larger, Smaller

LEMMA PendingCountType ==
  ASSUME TypeOK, NEW c \in Collectors PROVE PendingCount(c) \in 0 .. (Rejections - 1)
  BY BudgetAssumption DEF TypeOK, RejectionType, PendingCount

LEMMA RowsInt ==
  ASSUME NEW a \in Int, NEW b \in Int PROVE Rows(a, b) \subseteq Int
  BY SecondOfInt DEF Rows

LEMMA EmptyLog == << >> \in RejectionLog
  BY DEF RejectionLog

LEMMA RecordedType ==
  ASSUME TypeOK, NEW c \in Collectors PROVE Recorded(c) \in RejectionLog
  <1> DEFINE S == Append(rejections[c], Window(c))
  <1>1. Window(c) \in Int \X Int
    BY RunFields DEF Window
  <1>2. rejections[c] \in Seq(Int \X Int)
    BY DEF TypeOK, RejectionLog
  <1>3. S \in Seq(Int \X Int) /\ S # << >>
    BY <1>1, <1>2, AppendProperties
  <1>4. Tail(S) \in Seq(Int \X Int)
    BY <1>3, HeadTailProperties
  <1>5. QED
    BY <1>3, <1>4 DEF Recorded, RejectionLog

LEMMA LabelType ==
  ASSUME TypeOK, NEW c \in Collectors, NEW l \in Labels, Goto(c, l)
  PROVE  pc' \in [Collectors -> Labels]
  BY DEF TypeOK, Goto

LEMMA AbandonType ==
  ASSUME TypeOK, NEW c \in Collectors, Abandon(c)
  PROVE  pc' \in [Collectors -> Labels] /\ run' \in [Collectors -> RunType]
  BY Constructors, LabelType DEF TypeOK, Abandon

LEMMA FailType ==
  ASSUME TypeOK, NEW c \in Collectors, Fail(c)
  PROVE  /\ owner' \in Collectors \cup {NoOne}
         /\ pc' \in [Collectors -> Labels] /\ run' \in [Collectors -> RunType]
  BY AbandonType DEF Fail

LEMMA EnterLoopType ==
  ASSUME TypeOK, NEW c \in Collectors, NEW a \in Int, NEW b \in Int, EnterLoop(c, a, b)
  PROVE  pc' \in [Collectors -> Labels] /\ run' \in [Collectors -> RunType]
  <1>1. AtLoop(a, b, 0, FALSE) \in RunType
    BY DEF AtLoop, RunType
  <1>2. QED
    BY <1>1, Constructors, LabelType DEF EnterLoop, TypeOK

LEMMA MarkType ==
  ASSUME TypeOK, NEW c \in Collectors, NEW m \in Int, run' = [run EXCEPT ![c].mark = m]
  PROVE  run' \in [Collectors -> RunType]
  <1>1. [run[c] EXCEPT !.mark = m] \in RunType
    BY SMTT(30) DEF TypeOK, RunType
  <1>2. QED
    BY <1>1 DEF TypeOK

LEMMA AccountType ==
  ASSUME TypeOK, NEW c \in Collectors, Account(c)
  PROVE  accounted' \in [Collectors -> SUBSET Int]
  BY RunFields, RowsInt DEF Account, TypeOK

LEMMA AdvanceType ==
  ASSUME TypeOK, NEW c \in Collectors, Advance(c)
  PROVE  /\ ckpt' \in [Collectors -> Int \cup {NoMark}]
         /\ owner' \in Collectors \cup {NoOne}
         /\ pc' \in [Collectors -> Labels] /\ run' \in [Collectors -> RunType]
  <1> DEFINE truncated == Budgeted(c) /\ run[c].mark < run[c].windowTo
             r == AtLoop(run[c].mark, run[c].to, run[c].committed + 1, truncated)
  <1>1. r \in RunType
    <2>1. truncated \in BOOLEAN
      OBVIOUS
    <2> HIDE DEF truncated
    <2>2. QED
      BY <2>1, RunFields DEF AtLoop, RunType
  <1>2. run' = [run EXCEPT ![c] = r]
    BY DEF Advance
  <1>3. ckpt' \in [Collectors -> Int \cup {NoMark}]
    BY RunFields DEF Advance, NewCursor, TypeOK
  <1>4. pc' \in [Collectors -> Labels]
    BY Constructors, LabelType DEF Advance
  <1> HIDE DEF r
  <1>5. QED
    BY <1>1, <1>2, <1>3, <1>4 DEF TypeOK, Advance

\* The scheduler's variables keep their types, and no pending rejection count
\* reaches the limit at which commitWindow drops the window.
THEOREM TypeCorrect == Spec => []TypeOK
  <1>1. Init => TypeOK
    <2> SUFFICES ASSUME Init PROVE TypeOK
      OBVIOUS
    <2>1. /\ now \in Int /\ cancelled \in BOOLEAN /\ restarts \in Nat
          /\ owner \in Collectors \cup {NoOne}
      BY TimeAssumption DEF Init
    <2>2. /\ ckpt \in [Collectors -> Int \cup {NoMark}]
          /\ origin \in [Collectors -> Int \cup {NoMark}]
          /\ adaptiveWindows \in [Collectors -> Nat]
          /\ accounted \in [Collectors -> SUBSET Int]
      BY DEF Init
    <2>3. /\ failed400 \in [Collectors -> RejectionType]
          /\ commitBudgets \in [Collectors -> BudgetType]
          /\ pc \in [Collectors -> Labels]
          /\ run \in [Collectors -> RunType]
          /\ rejections \in [Collectors -> RejectionLog]
      BY Constructors, EmptyLog DEF Init
    <2>4. QED
      BY <2>1, <2>2, <2>3 DEF TypeOK
  <1>2. TypeOK /\ [Next]_vars => TypeOK'
    <2> SUFFICES ASSUME TypeOK, [Next]_vars PROVE TypeOK'
      OBVIOUS
    <2> USE DEF TypeOK, history, process
    <2>1. CASE Tick
      BY <2>1 DEF Tick
    <2>2. CASE Cancel
      BY <2>2 DEF Cancel
    <2>3. CASE Restart
      <3>1. /\ failed400' \in [Collectors -> RejectionType]
            /\ commitBudgets' \in [Collectors -> BudgetType]
            /\ pc' \in [Collectors -> Labels]
            /\ run' \in [Collectors -> RunType]
            /\ adaptiveWindows' \in [Collectors -> Nat]
        BY <2>3, Constructors DEF Restart
      <3>2. restarts' \in Nat
        BY <2>3 DEF Restart
      <3>3. cancelled' \in BOOLEAN /\ owner' \in Collectors \cup {NoOne}
        BY <2>3 DEF Restart
      <3>4. UNCHANGED <<now, ckpt, origin, accounted, rejections>>
        BY <2>3 DEF Restart
      <3>5. QED
        BY <3>1, <3>2, <3>3, <3>4
    <2>4. CASE UNCHANGED vars
      BY <2>4 DEF vars
    <2>5. ASSUME NEW c \in Collectors, Bootstrap(c) PROVE TypeOK'
      <3>1. PICK lag \in Lags[c] :
              /\ ckpt' = [ckpt EXCEPT ![c] = UpperBound(lag)]
              /\ origin' = [origin EXCEPT ![c] = SecondOf(UpperBound(lag))]
        BY <2>5 DEF Bootstrap
      <3>2. UpperBound(lag) \in Int /\ SecondOf(UpperBound(lag)) \in Int
        BY UpperBoundInt, SecondOfInt
      <3>3. QED
        BY <2>5, <3>1, <3>2 DEF Bootstrap
    <2>6. ASSUME NEW c \in Collectors, StartLookback(c) PROVE TypeOK'
      <3>1. PICK lag \in Lags[c] :
              LET to == UpperBound(lag)
                  from == InitialFrom(c, to)
              IN /\ PersistInitialCursor(c, from)
                 /\ origin' = [origin EXCEPT ![c] = IF @ = NoMark THEN SecondOf(from) ELSE @]
                 /\ EnterLoop(c, from, to)
        BY <2>6 DEF StartLookback
      <3> DEFINE to == UpperBound(lag)
                 from == InitialFrom(c, to)
      <3>2. to \in Int /\ from \in Int /\ SecondOf(from) \in Int
        BY UpperBoundInt, InitialFromInt, SecondOfInt
      <3>3. pc' \in [Collectors -> Labels] /\ run' \in [Collectors -> RunType]
        BY <3>1, <3>2, EnterLoopType
      <3> HIDE DEF to, from
      <3>4. QED
        BY <2>6, <3>1, <3>2, <3>3 DEF StartLookback, PersistInitialCursor, to, from
    <2>7. ASSUME NEW c \in Collectors, Resume(c) PROVE TypeOK'
      <3>1. PICK lag \in Lags[c] : EnterLoop(c, Trunc(ckpt[c]), UpperBound(lag))
        BY <2>7 DEF Resume
      <3>2. Trunc(ckpt[c]) \in Int
        BY <2>7, TruncInt DEF Resume
      <3>3. pc' \in [Collectors -> Labels] /\ run' \in [Collectors -> RunType]
        BY <3>1, <3>2, UpperBoundInt, EnterLoopType
      <3>4. QED
        BY <2>7, <3>3 DEF Resume
    <2>8. ASSUME NEW c \in Collectors, LeaveLoop(c) PROVE TypeOK'
      BY <2>8, AbandonType DEF LeaveLoop
    <2>9. ASSUME NEW c \in Collectors, BeginWindow(c) PROVE TypeOK'
      <3> DEFINE r == [run[c] EXCEPT
                         !.windowTo = WindowEnd(c),
                         !.end = IF Pinned(c) THEN failed400[c].to ELSE WindowEnd(c),
                         !.budget = Budget(c)]
      <3>1. failed400[c].to \in Int
        BY DEF RejectionType
      <3>2. r \in RunType
        BY <3>1, WindowEndInt, BudgetNat, ZenonT(60) DEF RunType
      <3>3. run' = [run EXCEPT ![c] = r]
        BY <2>9 DEF BeginWindow
      <3> HIDE DEF r
      <3>4. run' \in [Collectors -> RunType]
        BY <3>2, <3>3
      <3>5. pc' \in [Collectors -> Labels]
        BY <2>9, Constructors, LabelType DEF BeginWindow
      <3>6. failed400' \in [Collectors -> RejectionType]
        BY <2>9, Constructors DEF BeginWindow
      <3>7. QED
        BY <2>9, <3>4, <3>5, <3>6 DEF BeginWindow
    <2>10. ASSUME NEW c \in Collectors, Fetched(c) PROVE TypeOK'
      <3>1. run' \in [Collectors -> RunType]
        BY <2>10, MarkType, ReturnedMarksInt DEF Fetched
      <3>2. pc' \in [Collectors -> Labels]
        BY <2>10, Constructors, LabelType DEF Fetched
      <3>3. QED
        BY <2>10, <3>1, <3>2 DEF Fetched
    <2>11. ASSUME NEW c \in Collectors, FetchFailed(c) PROVE TypeOK'
      BY <2>11, AbandonType DEF FetchFailed
    <2>12. ASSUME NEW c \in Collectors, FetchedGap(c) PROVE TypeOK'
      <3>1. run' \in [Collectors -> RunType]
        BY <2>12, MarkType, SkipMarkInt DEF FetchedGap
      <3>2. pc' \in [Collectors -> Labels]
        BY <2>12, Constructors, LabelType DEF FetchedGap
      <3>3. QED
        BY <2>12, <3>1, <3>2 DEF FetchedGap
    <2>13. ASSUME NEW c \in Collectors, Lock(c) PROVE TypeOK'
      BY <2>13, Constructors, LabelType DEF Lock
    <2>14. ASSUME NEW c \in Collectors, ExportOk(c) PROVE TypeOK'
      <3>1. /\ owner' \in Collectors \cup {NoOne}
            /\ pc' \in [Collectors -> Labels] /\ run' \in [Collectors -> RunType]
        BY <2>14, FailType, Constructors, LabelType DEF ExportOk
      <3>2. accounted' \in [Collectors -> SUBSET Int]
        BY <2>14, AccountType DEF ExportOk
      <3>3. QED
        BY <2>14, <3>1, <3>2, Constructors, EmptyLog, RestoredType DEF ExportOk
    <2>15. ASSUME NEW c \in Collectors, ExportDeadline(c) PROVE TypeOK'
      <3>1. commitBudgets' \in [Collectors -> BudgetType]
        <4>1. [bytes |-> ReducedBudget(c), since |-> now] \in BudgetType
          BY ReducedBudgetNat DEF BudgetType
        <4>2. QED
          BY <2>15, <4>1 DEF ExportDeadline
      <3>2. adaptiveWindows' \in [Collectors -> Nat]
        BY <2>15, ReducedWindowNat DEF ExportDeadline
      <3>3. QED
        BY <2>15, <3>1, <3>2, Constructors, EmptyLog, FailType
           DEF ExportDeadline, ForgetRejections
    <2>16. ASSUME NEW c \in Collectors, ExportFailed(c) PROVE TypeOK'
      BY <2>16, Constructors, EmptyLog, FailType DEF ExportFailed, ForgetRejections
    <2>17. ASSUME NEW c \in Collectors, ExportPanic(c) PROVE TypeOK'
      BY <2>17, FailType DEF ExportPanic
    <2>18. ASSUME NEW c \in Collectors, ExportRejected(c) PROVE TypeOK'
      <3>1. rejections' \in [Collectors -> RejectionLog]
        BY <2>18, RecordedType DEF ExportRejected
      <3>2. CASE ~DropNow(PendingCount(c) + 1)
        <4>1. [from |-> run[c].from, to |-> run[c].end, count |-> PendingCount(c) + 1]
                \in RejectionType
          BY <3>2, RunFields, PendingCountType, BudgetAssumption DEF RejectionType, DropNow
        <4>2. QED
          BY <2>18, <3>1, <3>2, <4>1, FailType DEF ExportRejected
      <3>3. CASE DropNow(PendingCount(c) + 1)
        <4>1. accounted' \in [Collectors -> SUBSET Int]
          BY <2>18, <3>3, AccountType DEF ExportRejected
        <4>2. pc' \in [Collectors -> Labels]
          BY <2>18, <3>3, Constructors, LabelType DEF ExportRejected
        <4>3. QED
          BY <2>18, <3>1, <3>3, <4>1, <4>2, Constructors DEF ExportRejected
      <3>4. QED
        BY <3>2, <3>3
    <2>19. ASSUME NEW c \in Collectors, Save(c) PROVE TypeOK'
      BY <2>19, AdvanceType DEF Save
    <2>20. ASSUME NEW c \in Collectors, Announce(c) PROVE TypeOK'
      BY <2>20, Constructors, AccountType, LabelType DEF Announce
    <2>21. ASSUME NEW c \in Collectors, GapSave(c) PROVE TypeOK'
      BY <2>21, Constructors, AdvanceType DEF GapSave
    <2>22. ASSUME NEW c \in Collectors, CommitAborted(c) PROVE TypeOK'
      BY <2>22, FailType DEF CommitAborted
    <2>23. ASSUME NEW c \in Collectors, Stop(c) PROVE TypeOK'
      BY <2>23, Constructors, LabelType DEF Stop
    <2>24. QED
      BY <2>1, <2>2, <2>3, <2>4, <2>5, <2>6, <2>7, <2>8, <2>9, <2>10, <2>11, <2>12,
         <2>13, <2>14, <2>15, <2>16, <2>17, <2>18, <2>19, <2>20, <2>21, <2>22, <2>23
         DEF Next, Exited, Step, Begin, Loop, Fetch, Export, Finish
  <1>3. QED
    BY <1>1, <1>2, PTL DEF Spec

-----------------------------------------------------------------------------
(* The commit mutex. *)

\* commitMu is held exactly by the goroutine inside a commit, on every path:
\* the deferred Unlock covers export errors, panics, failed metric replays,
\* failed checkpoint writes and retention gaps.
THEOREM Mutex == Spec => []CommitExclusion
  <1> DEFINE Inv == TypeOK /\ CommitExclusion
  <1>1. Init => CommitExclusion
    BY SentinelAssumption DEF Init, CommitExclusion, Critical
  <1>2. TypeOK /\ CommitExclusion /\ [Next]_vars => CommitExclusion'
    <2> SUFFICES ASSUME TypeOK, CommitExclusion, [Next]_vars PROVE CommitExclusion'
      OBVIOUS
    <2> USE SentinelAssumption DEF TypeOK, CommitExclusion, process
    <2>1. CASE Tick \/ Cancel \/ UNCHANGED vars
      BY <2>1 DEF Tick, Cancel, vars
    <2>2. CASE Restart
      BY <2>2 DEF Restart, Critical
    <2>3. ASSUME NEW c \in Collectors, Begin(c) PROVE CommitExclusion'
      BY <2>3
         DEF Begin, Bootstrap, StartLookback, Resume, EnterLoop, Goto, Critical
    <2>4. ASSUME NEW c \in Collectors, Loop(c) \/ Stop(c) PROVE CommitExclusion'
      BY <2>4 DEF Loop, LeaveLoop, BeginWindow, Abandon, Stop, Goto, Critical
    <2>5. ASSUME NEW c \in Collectors, Fetch(c) PROVE CommitExclusion'
      BY <2>5 DEF Fetch, Fetched, FetchFailed, FetchedGap, Abandon, Goto, Critical
    <2>6. ASSUME NEW c \in Collectors, Lock(c) PROVE CommitExclusion'
      BY <2>6 DEF Lock, Goto, Critical
    <2>7. ASSUME NEW c \in Collectors, Export(c) PROVE CommitExclusion'
      BY <2>7
         DEF Export, ExportOk, ExportDeadline, ExportFailed, ExportPanic, ExportRejected,
             Fail, Abandon, Goto, Critical
    <2>8. ASSUME NEW c \in Collectors, Finish(c) PROVE CommitExclusion'
      BY <2>8
         DEF Finish, Save, Announce, GapSave, CommitAborted, Advance, Fail, Abandon,
             Goto, Critical
    <2>9. QED
      BY <2>1, <2>2, <2>3, <2>4, <2>5, <2>6, <2>7, <2>8 DEF Next, Exited, Step
  <1>3. QED
    BY <1>1, <1>2, TypeCorrect, PTL DEF Spec

-----------------------------------------------------------------------------
(* No source second is passed silently. *)

\* A step of one goroutine leaves every other collector's state alone.
LEMMA StepFrame ==
  ASSUME TypeOK, NEW c \in Collectors, Step(c), NEW d \in Collectors, d # c
  PROVE  /\ ckpt'[d] = ckpt[d] /\ origin'[d] = origin[d]
         /\ accounted'[d] = accounted[d]
         /\ pc'[d] = pc[d] /\ run'[d] = run[d]
  <1> USE DEF TypeOK, process, history, Goto
  <1>1. CASE Begin(c)
    BY <1>1 DEF Begin, Bootstrap, StartLookback, Resume, EnterLoop, PersistInitialCursor
  <1>2. CASE Loop(c) \/ Stop(c)
    BY <1>2 DEF Loop, LeaveLoop, BeginWindow, Abandon, Stop
  <1>3. CASE Fetch(c)
    BY <1>3 DEF Fetch, Fetched, FetchFailed, FetchedGap, Abandon
  <1>4. CASE Lock(c)
    BY <1>4 DEF Lock
  <1>5. CASE Export(c)
    BY <1>5
       DEF Export, ExportOk, ExportDeadline, ExportFailed, ExportPanic, ExportRejected,
           Account, Fail, Abandon
  <1>6. CASE Finish(c)
    BY <1>6
       DEF Finish, Save, Announce, GapSave, CommitAborted, Advance, Account, Fail, Abandon
  <1>7. QED
    BY <1>1, <1>2, <1>3, <1>4, <1>5, <1>6 DEF Step

\* Rows, added to what is covered up to the window's start, cover it to its mark.
LEMMA CoverExtends ==
  ASSUME NEW o \in Int, NEW a \in Int, NEW b \in Int, NEW S \in SUBSET Int,
         o .. (SecondOf(a) - 1) \subseteq S, Rows(a, b) \subseteq S
  PROVE  o .. (SecondOf(b) - 1) \subseteq S
  <1>1. SecondOf(a) \in Int /\ SecondOf(b) \in Int
    BY SecondOfInt
  <1>2. QED
    BY <1>1 DEF Rows

LEMMA CoverageKept ==
  ASSUME TypeOK, Coverage, NEW c \in Collectors, Step(c)
  PROVE  CoverageOf(c)'
  <1> USE DEF TypeOK, process, history, Goto
  <1>0. CoverageOf(c)
    BY DEF Coverage
  <1>1. CASE Bootstrap(c)
    <2>1. PICK lag \in Lags[c] :
            /\ ckpt' = [ckpt EXCEPT ![c] = UpperBound(lag)]
            /\ origin' = [origin EXCEPT ![c] = SecondOf(UpperBound(lag))]
      BY <1>1 DEF Bootstrap
    <2>2. UpperBound(lag) \in Int /\ SecondOf(UpperBound(lag)) \in Int
      BY UpperBoundInt, SecondOfInt
    <2>3. ckpt'[c] \in Int /\ origin'[c] = SecondOf(ckpt'[c]) /\ origin'[c] \in Int
      BY <2>1, <2>2
    <2>4. ckpt'[c] # NoMark /\ pc'[c] = "wait"
      BY <2>3, <1>1, SentinelAssumption DEF Bootstrap
    <2>5. QED
      BY <2>3, <2>4 DEF CoverageOf, Critical
  <1>2. CASE StartLookback(c)
    <2>1. PICK lag \in Lags[c] :
            LET to == UpperBound(lag)
                from == InitialFrom(c, to)
            IN /\ PersistInitialCursor(c, from)
               /\ origin' = [origin EXCEPT ![c] = IF @ = NoMark THEN SecondOf(from) ELSE @]
               /\ EnterLoop(c, from, to)
      BY <1>2 DEF StartLookback
    <2> DEFINE to == UpperBound(lag)
               from == InitialFrom(c, to)
    <2>2. to \in Int /\ from \in Int /\ SecondOf(from) \in Int
      BY UpperBoundInt, InitialFromInt, SecondOfInt
    <2>3. origin[c] = NoMark
      BY <1>0, <1>2 DEF CoverageOf, StartLookback
    <2> HIDE DEF to, from
    <2>4. /\ ckpt'[c] = from /\ origin'[c] = SecondOf(from) /\ pc'[c] = "loop"
          /\ run'[c].from = from
      BY <2>1, <2>3 DEF PersistInitialCursor, EnterLoop, AtLoop, to, from
    <2>5. ckpt'[c] # NoMark
      BY <2>2, <2>4, SentinelAssumption
    <2>6. QED
      BY <2>2, <2>4, <2>5 DEF CoverageOf, Critical
  <1>3. CASE Resume(c)
    <2>1. ckpt[c] \in Int /\ ckpt[c] # NoMark
      BY <1>3 DEF Resume
    <2>2. /\ pc'[c] = "loop" /\ run'[c].from = Trunc(ckpt[c])
          /\ UNCHANGED <<ckpt, origin, accounted>>
      BY <1>3 DEF Resume, EnterLoop, AtLoop
    <2>3. SecondOf(run'[c].from) = SecondOf(ckpt'[c])
      BY <2>1, <2>2, SecondOfTrunc
    <2>4. QED
      BY <1>0, <2>1, <2>2, <2>3 DEF CoverageOf, Critical
  <1>4. CASE LeaveLoop(c) \/ FetchFailed(c) \/ Stop(c)
    <2>1. pc'[c] \in {"wait", "stopped"} /\ UNCHANGED <<ckpt, origin, accounted>>
      BY <1>4 DEF LeaveLoop, FetchFailed, Stop, Abandon
    <2>2. ckpt[c] = NoMark => origin[c] = NoMark
      BY <1>0 DEF CoverageOf
    <2>3. QED
      BY <1>0, <2>1, <2>2 DEF CoverageOf, Critical
  <1>5. CASE BeginWindow(c)
    <2>1. /\ pc[c] = "loop" /\ pc'[c] = "fetch" /\ run'[c].from = run[c].from
          /\ UNCHANGED <<ckpt, origin, accounted>>
      BY <1>5 DEF BeginWindow, RunType
    <2>2. QED
      BY <1>0, <2>1 DEF CoverageOf, Critical
  <1>6. CASE Fetched(c) \/ FetchedGap(c)
    <2>1. /\ pc[c] = "fetch" /\ pc'[c] \in {"commit", "gap"}
          /\ run'[c].from = run[c].from /\ run[c].from < run'[c].mark
          /\ UNCHANGED <<ckpt, origin, accounted>>
      BY <1>6 DEF Fetched, FetchedGap, ValidMark, RunType
    <2>2. QED
      BY <1>0, <2>1 DEF CoverageOf, Critical
  <1>7. CASE Lock(c)
    <2>1. /\ pc[c] \in {"commit", "gap"} /\ pc'[c] \in {"export", "announce"}
          /\ UNCHANGED <<ckpt, origin, accounted, run>>
      BY <1>7 DEF Lock
    <2>2. QED
      BY <1>0, <2>1 DEF CoverageOf, Critical
  <1>8. CASE (Export(c) \/ CommitAborted(c)) /\ Fail(c)
    <2>1. /\ pc[c] \in Critical /\ pc'[c] = "wait" /\ UNCHANGED <<ckpt, origin>>
          /\ accounted[c] \subseteq accounted'[c]
      BY <1>8 DEF Export, ExportOk, ExportDeadline, ExportFailed, ExportPanic,
                  ExportRejected, CommitAborted, Account, Fail, Abandon, Critical
    <2>2. ckpt[c] # NoMark
      BY <1>0, <2>1 DEF CoverageOf, Critical
    <2>3. QED
      BY <1>0, <2>1, <2>2 DEF CoverageOf, Critical
  <1>9. CASE (Export(c) \/ Announce(c)) /\ pc'[c] \in {"save", "gapsave"}
    <2>1. /\ pc[c] \in Critical /\ UNCHANGED <<ckpt, origin, run>>
          /\ accounted'[c] = accounted[c] \cup Rows(run[c].from, run[c].mark)
      BY <1>9 DEF Export, ExportOk, ExportDeadline, ExportFailed, ExportPanic,
                  ExportRejected, Announce, Account, Fail, Abandon, Critical
    <2>2. ckpt[c] # NoMark
      BY <1>0, <2>1 DEF CoverageOf, Critical
    <2>3. QED
      BY <1>0, <1>9, <2>1, <2>2 DEF CoverageOf, Critical
  <1>10. CASE Save(c) \/ GapSave(c)
    <2>1. /\ pc[c] \in {"save", "gapsave"} /\ pc'[c] = "loop"
          /\ ckpt'[c] = run[c].mark /\ run'[c].from = run[c].mark
          /\ UNCHANGED <<origin, accounted>>
      BY <1>10 DEF Save, GapSave, Advance, NewCursor, AtLoop
    <2>2. /\ ckpt[c] # NoMark /\ SecondOf(run[c].from) = SecondOf(ckpt[c])
          /\ Rows(run[c].from, run[c].mark) \subseteq accounted[c]
          /\ origin[c] \in Int /\ origin[c] .. (SecondOf(ckpt[c]) - 1) \subseteq accounted[c]
      BY <1>0, <2>1 DEF CoverageOf
    <2>3. origin[c] .. (SecondOf(run[c].mark) - 1) \subseteq accounted[c]
      BY <2>2, RunFields, CoverExtends
    <2>4. run[c].mark \in Int /\ run[c].mark # NoMark
      BY RunFields, SentinelAssumption
    <2>5. QED
      BY <2>1, <2>2, <2>3, <2>4 DEF CoverageOf, Critical
  <1>11. Export(c) => Fail(c) \/ pc'[c] = "save"
    BY DEF Export, ExportOk, ExportDeadline, ExportFailed, ExportPanic, ExportRejected
  <1>12. Announce(c) => pc'[c] = "gapsave"
    BY DEF Announce
  <1>13. CommitAborted(c) => Fail(c)
    BY DEF CommitAborted
  <1>14. QED
    BY <1>1, <1>2, <1>3, <1>4, <1>5, <1>6, <1>7, <1>8, <1>9, <1>10, <1>11, <1>12, <1>13
       DEF Step, Begin, Loop, Fetch, Finish

\* Between polls and inside them, the durable cursor, the running window and
\* what has been exported, dropped or announced stay in step.
THEOREM CoverageInvariant == Spec => []Coverage
  <1>1. Init => Coverage
    BY SentinelAssumption DEF Init, Coverage, CoverageOf, Critical
  <1>2. TypeOK /\ Coverage /\ [Next]_vars => Coverage'
    <2> SUFFICES ASSUME TypeOK, Coverage, [Next]_vars, NEW d \in Collectors
                 PROVE  CoverageOf(d)'
      BY DEF Coverage
    <2>0. CoverageOf(d)
      BY DEF Coverage
    <2>1. CASE Tick \/ Cancel \/ UNCHANGED vars
      BY <2>0, <2>1 DEF Tick, Cancel, vars, process, history, CoverageOf
    <2>2. CASE Restart
      BY <2>0, <2>2 DEF Restart, history, CoverageOf, Critical
    <2>3. ASSUME NEW c \in Collectors, Step(c) PROVE CoverageOf(d)'
      <3>1. CASE d = c
        BY <2>3, <3>1, CoverageKept
      <3>2. CASE d # c
        <4>1. /\ ckpt'[d] = ckpt[d] /\ origin'[d] = origin[d]
              /\ accounted'[d] = accounted[d]
              /\ pc'[d] = pc[d] /\ run'[d] = run[d]
          BY <2>3, <3>2, StepFrame
        <4>2. QED
          BY <2>0, <4>1 DEF CoverageOf
      <3>3. QED
        BY <3>1, <3>2
    <2>4. QED
      BY <2>1, <2>2, <2>3 DEF Next, Exited
  <1>3. QED
    BY <1>1, <1>2, TypeCorrect, PTL DEF Spec

\* Whatever fails, crashes or is retried, the durable cursor of a collector has
\* only passed source seconds that were delivered, dropped after repeated
\* payload rejections, or reported as a retention gap.
THEOREM NoLoss == Spec => []NoSilentLoss
  <1>1. Coverage => NoSilentLoss
    BY DEF Coverage, CoverageOf, NoSilentLoss
  <1>2. QED
    BY <1>1, CoverageInvariant, PTL

\* Whoever moves the cursor of collector c saves a mark that is ahead of it.
LEMMA CursorStep ==
  ASSUME TypeOK, Coverage, NEW c \in Collectors, Step(c), ckpt[c] # NoMark,
         ckpt'[c] # ckpt[c]
  PROVE  /\ ckpt'[c] \in Int /\ SecondOf(ckpt'[c]) >= SecondOf(ckpt[c])
         /\ SecondOf(ckpt[c]) .. (SecondOf(ckpt'[c]) - 1) \subseteq accounted[c]
         /\ accounted' = accounted
  <1>1. Save(c) \/ GapSave(c)
    BY DEF Step, Begin, Loop, Fetch, Export, Finish, Bootstrap, StartLookback, Resume,
           LeaveLoop, BeginWindow, Fetched, FetchFailed, FetchedGap, Lock, ExportOk,
           ExportDeadline, ExportFailed, ExportPanic, ExportRejected, Announce,
           CommitAborted, Stop
  <1>2. /\ pc[c] \in {"save", "gapsave"} /\ ckpt'[c] = run[c].mark
        /\ accounted' = accounted
    BY <1>1 DEF Save, GapSave, Advance, NewCursor, TypeOK, history
  <1>3. /\ SecondOf(run[c].from) = SecondOf(ckpt[c]) /\ run[c].from < run[c].mark
        /\ Rows(run[c].from, run[c].mark) \subseteq accounted[c]
    BY <1>2 DEF Coverage, CoverageOf, Critical
  <1>4. run[c].from \in Int /\ run[c].mark \in Int
    BY RunFields
  <1>5. SecondOf(run[c].from) <= SecondOf(run[c].mark)
    BY <1>3, <1>4, SecondOfMono
  <1>6. SecondOf(run[c].from) \in Int /\ SecondOf(run[c].mark) \in Int
    BY <1>4, SecondOfInt
  <1>7. QED
    BY <1>2, <1>3, <1>4, <1>5, <1>6 DEF Rows

LEMMA CursorKept ==
  ASSUME TypeOK, [Next]_vars, NEW d \in Collectors
  PROVE  ckpt'[d] = ckpt[d] \/ Step(d)
  <1>1. CASE Tick \/ Cancel \/ Restart \/ UNCHANGED vars
    BY <1>1 DEF Tick, Cancel, Restart, vars
  <1>2. ASSUME NEW c \in Collectors, Step(c) PROVE ckpt'[d] = ckpt[d] \/ Step(d)
    BY <1>2, StepFrame
  <1>3. QED
    BY <1>1, <1>2 DEF Next, Exited

\* No poll, retry, skipped gap, shutdown or restart moves a durable cursor back
\* or removes it.
THEOREM CursorNeverBack == Spec => CursorForward
  <1>1. ASSUME TypeOK, Coverage, [Next]_vars, NEW c \in Collectors, ckpt[c] # NoMark
        PROVE  ckpt'[c] # NoMark /\ SecondOf(ckpt'[c]) >= SecondOf(ckpt[c])
    <2>1. CASE ckpt'[c] = ckpt[c]
      <3>1. SecondOf(ckpt[c]) \in Int
        BY <1>1, SecondOfInt DEF TypeOK
      <3>2. QED
        BY <1>1, <2>1, <3>1
    <2>2. CASE ckpt'[c] # ckpt[c]
      BY <1>1, <2>2, CursorKept, CursorStep, SentinelAssumption
    <2>3. QED
      BY <2>1, <2>2
  <1>2. TypeOK /\ Coverage /\ [Next]_vars =>
          [\A c \in Collectors : ckpt[c] # NoMark =>
             /\ ckpt'[c] # NoMark
             /\ SecondOf(ckpt'[c]) >= SecondOf(ckpt[c])]_vars
    BY <1>1
  <1>3. QED
    BY <1>2, TypeCorrect, CoverageInvariant, PTL DEF Spec, CursorForward

-----------------------------------------------------------------------------
(* The scheduler implements WindowDelivery. *)

\* Exports, drops and announcements only add seconds, and leave cursors alone.
LEMMA AccountedGrows ==
  ASSUME TypeOK, NEW c \in Collectors, Step(c)
  PROVE  \/ accounted' = accounted
         \/ ckpt' = ckpt /\ accounted[c] \subseteq accounted'[c]
  <1> USE DEF TypeOK, process, history
  <1>1. CASE Begin(c) \/ Loop(c) \/ Fetch(c) \/ Lock(c) \/ Stop(c)
    BY <1>1
       DEF Begin, Bootstrap, StartLookback, Resume, Loop, LeaveLoop, BeginWindow, Fetch,
           Fetched, FetchFailed, FetchedGap, Lock, Stop
  <1>2. CASE Export(c)
    BY <1>2
       DEF Export, ExportOk, ExportDeadline, ExportFailed, ExportPanic, ExportRejected,
           Account
  <1>3. CASE Finish(c)
    BY <1>3 DEF Finish, Save, Announce, GapSave, CommitAborted, Account
  <1>4. QED
    BY <1>1, <1>2, <1>3 DEF Step

\* The cursor of the abstract specification changes with the checkpoint only.
LEMMA CursorFrame ==
  ASSUME TypeOK, NEW c \in Collectors,
         \A d \in Collectors \ {c} : ckpt'[d] = ckpt[d]
  PROVE  Cursor' = [Cursor EXCEPT ![c] = Cursor'[c]]
  BY DEF Cursor

LEMMA StepKeepsPromise ==
  ASSUME TypeOK, TypeOK', Coverage, NEW c \in Collectors, Step(c)
  PROVE  [Promise!Next]_(Promise!vars)
  <1>1. \A d \in Collectors \ {c} : ckpt'[d] = ckpt[d] /\ accounted'[d] = accounted[d]
    BY StepFrame
  <1>2. Cursor' = [Cursor EXCEPT ![c] = Cursor'[c]]
    BY <1>1, CursorFrame
  <1>3. accounted' = [accounted EXCEPT ![c] = accounted'[c]]
    BY <1>1 DEF TypeOK
  <1>4. CASE ckpt' = ckpt
    <2>1. Cursor' = Cursor
      BY <1>4 DEF Cursor
    <2>2. CASE accounted' = accounted
      BY <2>1, <2>2 DEF Promise!vars
    <2>3. CASE accounted[c] \subseteq accounted'[c]
      BY <1>3, <2>1, <2>3 DEF Promise!Next, Promise!Account
    <2>4. QED
      BY <2>2, <2>3, AccountedGrows
  <1>5. CASE ckpt' # ckpt
    <2>1. accounted' = accounted
      BY <1>5, AccountedGrows
    <2>2. ckpt'[c] # ckpt[c]
      BY <1>1, <1>5 DEF TypeOK
    <2>3. CASE ckpt[c] = NoMark
      <3>1. ckpt'[c] \in Int /\ ckpt'[c] # NoMark
        BY <2>2, <2>3 DEF TypeOK
      <3>2. Cursor[c] = NoMark /\ Cursor'[c] \in Int
        BY <2>3, <3>1, SecondOfInt DEF Cursor
      <3>3. QED
        BY <1>2, <2>1, <3>2 DEF Promise!Next, Promise!Establish, Promise!OnlyCursor
    <2>4. CASE ckpt[c] # NoMark
      <3>1. /\ ckpt'[c] \in Int /\ SecondOf(ckpt'[c]) >= SecondOf(ckpt[c])
            /\ SecondOf(ckpt[c]) .. (SecondOf(ckpt'[c]) - 1) \subseteq accounted[c]
        BY <2>2, <2>4, CursorStep
      <3>2. ckpt[c] \in Int
        BY <2>4 DEF TypeOK
      <3>3. /\ Cursor[c] = SecondOf(ckpt[c]) /\ Cursor[c] \in Int
            /\ Cursor'[c] = SecondOf(ckpt'[c]) /\ Cursor'[c] \in Int
        BY <2>4, <3>1, <3>2, SecondOfInt, SentinelAssumption DEF Cursor
      <3>4. Cursor[c] # NoMark
        BY <3>3, SentinelAssumption
      <3>5. QED
        BY <1>2, <2>1, <3>1, <3>3, <3>4
           DEF Promise!Next, Promise!Advance, Promise!OnlyCursor
    <2>5. QED
      BY <2>3, <2>4
  <1>6. QED
    BY <1>4, <1>5

\* The scheduler, with all its retries, limits, gaps and restarts, implements
\* the delivery promise: cursors only move forward over accounted seconds.
THEOREM Implements == Spec => KeepsPromise
  <1>1. Init => Promise!Init
    BY DEF Init, Promise!Init, Cursor
  <1>2. TypeOK /\ TypeOK' /\ Coverage /\ [Next]_vars => [Promise!Next]_(Promise!vars)
    <2> SUFFICES ASSUME TypeOK, TypeOK', Coverage, [Next]_vars
                 PROVE  [Promise!Next]_(Promise!vars)
      OBVIOUS
    <2>1. CASE Tick \/ Cancel \/ Restart \/ UNCHANGED vars
      BY <2>1 DEF Tick, Cancel, Restart, vars, history, Cursor, Promise!vars
    <2>2. ASSUME NEW c \in Collectors, Step(c) PROVE [Promise!Next]_(Promise!vars)
      BY <2>2, StepKeepsPromise
    <2>3. QED
      BY <2>1, <2>2 DEF Next, Exited
  <1>3. QED
    BY <1>1, <1>2, TypeCorrect, CoverageInvariant, PTL DEF Spec, KeepsPromise, Promise!Spec

-----------------------------------------------------------------------------
(* Windows: they end where rows have settled, keep to the learned limit, and *)
(* are dropped only after enough rejections of the very same window.         *)


\* A step of one goroutine leaves what the others have learned alone, and time.
LEMMA LearnedFrame ==
  ASSUME TypeOK, NEW c \in Collectors, Step(c)
  PROVE  /\ now' = now
         /\ \A d \in Collectors \ {c} :
              /\ failed400'[d] = failed400[d]
              /\ adaptiveWindows'[d] = adaptiveWindows[d]
              /\ rejections'[d] = rejections[d]
  <1> USE DEF TypeOK, process, history
  <1>1. CASE Begin(c)
    BY <1>1 DEF Begin, Bootstrap, StartLookback, Resume
  <1>2. CASE Loop(c) \/ Stop(c)
    BY <1>2 DEF Loop, LeaveLoop, BeginWindow, Stop
  <1>3. CASE Fetch(c) \/ Lock(c)
    BY <1>3 DEF Fetch, Fetched, FetchFailed, FetchedGap, Lock
  <1>4. CASE Export(c)
    BY <1>4
       DEF Export, ExportOk, ExportDeadline, ExportFailed, ExportPanic, ExportRejected,
           ForgetRejections
  <1>5. CASE Finish(c)
    BY <1>5 DEF Finish, Save, Announce, GapSave, CommitAborted
  <1>6. QED
    BY <1>1, <1>2, <1>3, <1>4, <1>5 DEF Step

-----------------------------------------------------------------------------
(* Nothing is taken before it has settled. *)

\* The whole seconds up to t have settled.
Past(c, t) == \E lag \in Lags[c] : Trunc(t) + lag <= now

\* Inside a poll, its bound, the end of its window and the end of a pending
\* rejected window have settled, and the mark lies within the window.
SettlingOf(c) ==
  /\ pc[c] \notin {"wait", "stopped"} => Past(c, run[c].to)
  /\ failed400[c].count > 0 => Past(c, failed400[c].to)
  /\ pc[c] \in {"fetch", "commit", "gap"} \cup Critical => Past(c, run[c].end)
  /\ pc[c] \in {"commit", "gap"} \cup Critical => run[c].mark <= run[c].end
  /\ \A s \in accounted[c] : Past(c, Second * (s + 1))

Settling == \A c \in Collectors : SettlingOf(c)

LEMMA TruncMono ==
  ASSUME NEW a \in Int, NEW b \in Int, a <= b PROVE Trunc(a) <= Trunc(b)
  <1>1. SecondOf(a) \in Int /\ SecondOf(b) \in Int /\ SecondOf(a) <= SecondOf(b)
    BY SecondOfInt, SecondOfMono
  <1>2. \A m, n \in Int : m <= n => Second * m <= Second * n
    BY TimeAssumption
  <1>3. QED
    BY <1>1, <1>2 DEF Trunc

LEMMA TruncBelow == ASSUME NEW t \in Int PROVE Trunc(t) <= t
  BY TimeAssumption DEF Trunc, SecondOf

LEMMA TruncOfSecond ==
  ASSUME NEW s \in Int PROVE Second * s \in Int /\ Trunc(Second * s) = Second * s
  BY TimeAssumption DEF Trunc, SecondOf

LEMMA TruncTwice == ASSUME NEW t \in Int PROVE Trunc(Trunc(t)) = Trunc(t)
  BY SecondOfTrunc DEF Trunc

LEMMA PastEarlier ==
  ASSUME TypeOK, NEW c \in Collectors, NEW a \in Int, NEW b \in Int, a <= b, Past(c, b)
  PROVE  Past(c, a)
  <1>1. PICK lag \in Lags[c] : Trunc(b) + lag <= now
    BY DEF Past
  <1>2. lag \in Int /\ now \in Int /\ Trunc(a) \in Int /\ Trunc(b) \in Int
    BY CollectorAssumption, TruncInt DEF TypeOK
  <1>3. Trunc(a) + lag <= now
    BY <1>1, <1>2, TruncMono
  <1>4. QED
    BY <1>3 DEF Past

LEMMA UpperBoundPast ==
  ASSUME TypeOK, NEW c \in Collectors, NEW lag \in Lags[c] PROVE Past(c, UpperBound(lag))
  <1>1. lag \in Int /\ now \in Int /\ now - lag \in Int
    BY CollectorAssumption DEF TypeOK
  <1>2. Trunc(UpperBound(lag)) = Trunc(now - lag)
    BY <1>1, TruncTwice DEF UpperBound
  <1>3. Trunc(now - lag) + lag <= now
    BY <1>1, TruncBelow, TruncInt
  <1>4. QED
    BY <1>2, <1>3 DEF Past

\* Rows up to a mark that has settled have settled.
LEMMA RowsPast ==
  ASSUME TypeOK, NEW c \in Collectors, NEW a \in Int, NEW b \in Int, Past(c, b),
         NEW s \in Rows(a, b)
  PROVE  Past(c, Second * (s + 1))
  <1>1. SecondOf(a) \in Int /\ SecondOf(b) \in Int
    BY SecondOfInt
  <1>2. s \in Int /\ s + 1 <= SecondOf(b)
    BY <1>1 DEF Rows
  <1>3. Second * (s + 1) <= Second * SecondOf(b)
    BY <1>1, <1>2, TimeAssumption
  <1>4. Second * (s + 1) <= b
    BY <1>1, <1>2, <1>3, TruncBelow, TruncInt, TimeAssumption DEF Trunc
  <1>5. QED
    BY <1>2, <1>4, TruncOfSecond, PastEarlier

LEMMA WindowEndBound ==
  ASSUME TypeOK, NEW c \in Collectors PROVE WindowEnd(c) <= run[c].to
  BY LimitNat, RunFields DEF WindowEnd

LEMMA SettlingKept ==
  ASSUME TypeOK, Settling, NEW c \in Collectors, Step(c)
  PROVE  SettlingOf(c)'
  <1> USE DEF TypeOK, process, history, Goto
  <1>0. SettlingOf(c)
    BY DEF Settling
  <1>1. now' = now /\ \A t : Past(c, t) => Past(c, t)'
    BY LearnedFrame DEF Past
  <1>2. CASE Bootstrap(c)
    BY <1>0, <1>1, <1>2 DEF Bootstrap, SettlingOf, Critical
  <1>3. CASE StartLookback(c) \/ Resume(c)
    <2>1. PICK lag \in Lags[c] : run'[c].to = UpperBound(lag)
      BY <1>3 DEF StartLookback, Resume, EnterLoop, AtLoop
    <2>2. Past(c, run[c].to)'
      BY <1>1, <2>1, UpperBoundPast
    <2>3. pc'[c] = "loop" /\ UNCHANGED <<failed400, accounted>>
      BY <1>3 DEF StartLookback, Resume, EnterLoop
    <2>4. QED
      BY <1>0, <1>1, <2>2, <2>3 DEF SettlingOf, Critical
  <1>4. CASE LeaveLoop(c) \/ FetchFailed(c) \/ Stop(c) \/ CommitAborted(c)
    <2>1. pc'[c] \in {"wait", "stopped"} /\ UNCHANGED <<failed400, accounted>>
      BY <1>4 DEF LeaveLoop, FetchFailed, Stop, CommitAborted, Fail, Abandon
    <2>2. QED
      BY <1>0, <1>1, <2>1 DEF SettlingOf, Critical
  <1>5. CASE BeginWindow(c)
    <2>1. /\ pc[c] = "loop" /\ pc'[c] = "fetch" /\ run'[c].to = run[c].to
          /\ run'[c].end = (IF Pinned(c) THEN failed400[c].to ELSE WindowEnd(c))
          /\ failed400'[c] = (IF Pinned(c) THEN failed400[c] ELSE NoRejection)
          /\ UNCHANGED accounted
      BY <1>5 DEF BeginWindow, RunType
    <2>2. Past(c, run[c].to)
      BY <1>0, <2>1 DEF SettlingOf
    <2>3. Past(c, WindowEnd(c))
      BY <2>2, WindowEndBound, WindowEndInt, RunFields, PastEarlier
    <2>4. Past(c, run'[c].end)
      BY <1>0, <2>1, <2>3 DEF SettlingOf, Pinned
    <2>5. failed400'[c].count > 0 => Past(c, failed400'[c].to)
      BY <1>0, <2>1 DEF SettlingOf, NoRejection
    <2>6. QED
      BY <1>0, <1>1, <2>1, <2>2, <2>4, <2>5 DEF SettlingOf, Critical
  <1>6. CASE Fetched(c) \/ FetchedGap(c)
    <2>1. /\ pc[c] = "fetch" /\ pc'[c] \in {"commit", "gap"}
          /\ run'[c].to = run[c].to /\ run'[c].end = run[c].end
          /\ UNCHANGED <<failed400, accounted>>
      BY <1>6 DEF Fetched, FetchedGap, RunType
    <2>2. CASE Fetched(c)
      <3>1. run'[c].mark <= run[c].end
        BY <2>2 DEF Fetched, ValidMark, RunType
      <3>2. QED
        BY <1>0, <1>1, <2>1, <3>1 DEF SettlingOf, Critical
    <2>3. CASE FetchedGap(c)
      <3>1. run'[c].mark = SkipMark(c)
        BY <2>3 DEF FetchedGap, RunType
      <3>2. SkipMark(c) <= run[c].end
        <4>1. now - Retention[c] + Margin[c] + Second - 1 \in Int
          BY CollectorAssumption, TimeAssumption
        <4>2. Ceil(now - Retention[c] + Margin[c]) \in Int
          BY <4>1, TruncInt DEF Ceil
        <4>3. QED
          BY <4>2, RunFields DEF SkipMark, Smaller
      <3>3. QED
        BY <1>0, <1>1, <2>1, <3>1, <3>2 DEF SettlingOf, Critical
    <2>4. QED
      BY <1>6, <2>2, <2>3
  <1>7. CASE Lock(c)
    <2>1. /\ pc[c] \in {"commit", "gap"} /\ pc'[c] \in {"export", "announce"}
          /\ UNCHANGED <<run, failed400, accounted>>
      BY <1>7 DEF Lock
    <2>2. QED
      BY <1>0, <1>1, <2>1 DEF SettlingOf, Critical
  <1>8. ASSUME pc[c] \in Critical, accounted'[c] = accounted[c] \cup Rows(run[c].from, run[c].mark)
        PROVE  \A s \in accounted'[c] : Past(c, Second * (s + 1))
    <2>1. run[c].mark <= run[c].end /\ Past(c, run[c].end)
      BY <1>0, <1>8 DEF SettlingOf
    <2>2. Past(c, run[c].mark)
      BY <2>1, RunFields, PastEarlier
    <2>3. \A s \in Rows(run[c].from, run[c].mark) : Past(c, Second * (s + 1))
      BY <2>2, RunFields, RowsPast
    <2>4. QED
      BY <1>0, <1>8, <2>3 DEF SettlingOf
  <1>9. CASE Export(c)
    <2>1. /\ pc[c] \in Critical
          /\ \/ accounted'[c] = accounted[c]
             \/ accounted'[c] = accounted[c] \cup Rows(run[c].from, run[c].mark)
      BY <1>9 DEF Export, ExportOk, ExportDeadline, ExportFailed, ExportPanic,
                  ExportRejected, Account, Critical
    <2>2. \A s \in accounted'[c] : Past(c, Second * (s + 1))
      BY <1>0, <1>8, <2>1 DEF SettlingOf
    <2>3. pc'[c] = "wait" \/ (pc'[c] = "save" /\ run' = run)
      BY <1>9 DEF Export, ExportOk, ExportDeadline, ExportFailed, ExportPanic,
                  ExportRejected, Fail, Abandon
    <2>4. \/ failed400'[c] = NoRejection \/ failed400'[c] = failed400[c]
          \/ failed400'[c].to = run[c].end
      BY <1>9 DEF Export, ExportOk, ExportDeadline, ExportFailed, ExportPanic,
                  ExportRejected, ForgetRejections
    <2>5. /\ Past(c, run[c].end) /\ Past(c, run[c].to) /\ run[c].mark <= run[c].end
      BY <1>0, <2>1 DEF SettlingOf, Critical
    <2>6. failed400'[c].count > 0 => Past(c, failed400'[c].to)
      BY <1>0, <2>4, <2>5 DEF SettlingOf, NoRejection
    <2>7. QED
      BY <1>1, <2>2, <2>3, <2>5, <2>6 DEF SettlingOf, Critical
  <1>10. CASE Announce(c)
    <2>1. /\ pc[c] \in Critical /\ pc'[c] = "gapsave" /\ UNCHANGED <<run, failed400>>
          /\ accounted'[c] = accounted[c] \cup Rows(run[c].from, run[c].mark)
      BY <1>10 DEF Announce, Account, Critical
    <2>2. QED
      BY <1>0, <1>1, <1>8, <2>1 DEF SettlingOf, Critical
  <1>11. CASE Save(c) \/ GapSave(c)
    <2>1. /\ pc[c] \in Critical /\ pc'[c] = "loop" /\ run'[c].to = run[c].to
          /\ failed400'[c] \in {failed400[c], NoRejection} /\ UNCHANGED accounted
      BY <1>11 DEF Save, GapSave, Advance, AtLoop, Critical
    <2>2. QED
      BY <1>0, <1>1, <2>1 DEF SettlingOf, Critical, NoRejection
  <1>12. QED
    BY <1>2, <1>3, <1>4, <1>5, <1>6, <1>7, <1>9, <1>10, <1>11
       DEF Step, Begin, Loop, Fetch, Finish

\* The bound of a poll, the window it works on and a pending rejected window all
\* lie where rows have settled, through every learning step and restart.
THEOREM SettlingInvariant == Spec => []Settling
  <1>1. Init => Settling
    BY DEF Init, Settling, SettlingOf, NoRejection, Critical
  <1>2. TypeOK /\ Settling /\ [Next]_vars => Settling'
    <2> SUFFICES ASSUME TypeOK, Settling, [Next]_vars, NEW d \in Collectors
                 PROVE  SettlingOf(d)'
      BY DEF Settling
    <2>0. SettlingOf(d)
      BY DEF Settling
    <2>1. CASE Cancel \/ UNCHANGED vars
      BY <2>0, <2>1 DEF Cancel, vars, process, history, SettlingOf, Past
    <2>2. CASE Tick
      <3>1. now \in Int /\ now' = now + 1 /\ \A t \in Int : Trunc(t) \in Int
        BY <2>2, TruncInt DEF Tick, TypeOK
      <3>2. \A t \in Int : Past(d, t) => Past(d, t)'
        BY <3>1, CollectorAssumption DEF Past
      <3>3. /\ run[d].to \in Int /\ run[d].end \in Int /\ failed400[d].to \in Int
            /\ \A s \in accounted[d] : Second * (s + 1) \in Int
        BY RunFields, TimeAssumption DEF TypeOK, RejectionType
      <3>4. QED
        BY <2>0, <2>2, <3>2, <3>3 DEF Tick, process, history, SettlingOf
    <2>3. CASE Restart
      BY <2>0, <2>3 DEF Restart, history, SettlingOf, Past, NoRejection, Critical
    <2>4. ASSUME NEW c \in Collectors, Step(c) PROVE SettlingOf(d)'
      <3>1. CASE d = c
        BY <2>4, <3>1, SettlingKept
      <3>2. CASE d # c
        <4>1. /\ accounted'[d] = accounted[d] /\ pc'[d] = pc[d] /\ run'[d] = run[d]
              /\ failed400'[d] = failed400[d] /\ now' = now
          BY <2>4, <3>2, StepFrame, LearnedFrame
        <4>2. QED
          BY <2>0, <4>1 DEF SettlingOf, Past
      <3>3. QED
        BY <3>1, <3>2
    <2>5. QED
      BY <2>1, <2>2, <2>3, <2>4 DEF Next, Exited
  <1>3. QED
    BY <1>1, <1>2, TypeCorrect, PTL DEF Spec

\* Nothing is delivered, dropped or skipped before the collector's lag has
\* passed, also when a rejected window is fetched again later.
THEOREM SettledRows == Spec => []Settled
  <1>1. TypeOK /\ Settling => Settled
    <2> SUFFICES ASSUME TypeOK, Settling, NEW c \in Collectors, NEW s \in accounted[c]
                 PROVE  \E lag \in Lags[c] : Second * (s + 1) + lag <= now
      BY DEF Settled
    <2>1. s + 1 \in Int /\ Past(c, Second * (s + 1))
      BY DEF TypeOK, Settling, SettlingOf
    <2>2. QED
      BY <2>1, TruncOfSecond DEF Past
  <1>2. QED
    BY <1>1, TypeCorrect, SettlingInvariant, PTL

-----------------------------------------------------------------------------
(* Windows keep to the learned limit. *)

\* Neither a window under way nor a pending rejected one is wider than the
\* current limit.
FittingOf(c) ==
  Adaptive(c) /\ Limit(c) > 0 =>
    /\ failed400[c].count > 0 => failed400[c].to - failed400[c].from <= Limit(c)
    /\ pc[c] \in {"fetch", "commit", "export"} => run[c].end - run[c].from <= Limit(c)

Fitting == \A c \in Collectors : FittingOf(c)

LEMMA LimitKept ==
  ASSUME NEW c \in Collectors, adaptiveWindows'[c] = adaptiveWindows[c]
  PROVE  Limit(c)' = Limit(c)
  BY DEF Limit

LEMMA FittingKept ==
  ASSUME TypeOK, Fitting, NEW c \in Collectors, Step(c)
  PROVE  FittingOf(c)'
  <1> USE DEF TypeOK, process, history, Goto
  <1>0. FittingOf(c)
    BY DEF Fitting
  <1>1. CASE Begin(c) \/ LeaveLoop(c) \/ FetchFailed(c) \/ FetchedGap(c) \/ Stop(c)
             \/ Finish(c)
    <2>1. /\ pc'[c] \notin {"fetch", "commit", "export"}
          /\ failed400'[c] \in {failed400[c], NoRejection}
          /\ adaptiveWindows' = adaptiveWindows
      BY <1>1 DEF Begin, Bootstrap, StartLookback, Resume, EnterLoop, LeaveLoop, FetchFailed,
                  FetchedGap, Stop, Finish, Save, Announce, GapSave, CommitAborted, Advance,
                  Fail, Abandon
    <2>2. QED
      BY <1>0, <2>1, LimitKept DEF FittingOf, NoRejection
  <1>2. CASE BeginWindow(c)
    <2>1. /\ run'[c].from = run[c].from
          /\ run'[c].end = (IF Pinned(c) THEN failed400[c].to ELSE WindowEnd(c))
          /\ failed400'[c] = (IF Pinned(c) THEN failed400[c] ELSE NoRejection)
          /\ adaptiveWindows' = adaptiveWindows
      BY <1>2 DEF BeginWindow, RunType
    <2>2. Limit(c) > 0 => WindowEnd(c) - run[c].from <= Limit(c)
      BY LimitNat, RunFields DEF WindowEnd
    <2>3. QED
      BY <1>0, <2>1, <2>2, LimitKept DEF FittingOf, Pinned, NoRejection
  <1>3. CASE Fetched(c) \/ Lock(c)
    <2>1. /\ pc[c] \in {"fetch", "commit", "gap"}
          /\ pc'[c] \in {"commit", "export"} => pc[c] \in {"fetch", "commit"}
          /\ pc'[c] # "fetch"
          /\ run'[c].from = run[c].from /\ run'[c].end = run[c].end
          /\ UNCHANGED <<failed400, adaptiveWindows>>
      BY <1>3 DEF Fetched, Lock, RunType
    <2>2. QED
      BY <1>0, <2>1, LimitKept DEF FittingOf
  <1>4. CASE ExportDeadline(c)
    <2>1. pc'[c] = "wait" /\ failed400'[c] = NoRejection
      BY <1>4 DEF ExportDeadline, ForgetRejections, Fail, Abandon
    <2>2. QED
      BY <2>1 DEF FittingOf, NoRejection
  <1>5. CASE ExportOk(c) \/ ExportFailed(c) \/ ExportPanic(c) \/ ExportRejected(c)
    <2>1. /\ pc[c] = "export" /\ pc'[c] \in {"wait", "save"}
          /\ adaptiveWindows' = adaptiveWindows
          /\ \/ failed400'[c] \in {failed400[c], NoRejection}
             \/ failed400'[c].from = run[c].from /\ failed400'[c].to = run[c].end
      BY <1>5 DEF ExportOk, ExportFailed, ExportPanic, ExportRejected, ForgetRejections,
                  Fail, Abandon
    <2>2. QED
      BY <1>0, <2>1, LimitKept DEF FittingOf, NoRejection
  <1>6. QED
    BY <1>1, <1>2, <1>3, <1>4, <1>5 DEF Step, Loop, Fetch, Export

\* An adaptive collector never fetches or exports a window wider than the
\* current limit, however a pinned rejection and a lesson of a deadline meet.
THEOREM LimitHonoured == Spec => []WithinLimit
  <1>1. Init => Fitting
    BY DEF Init, Fitting, FittingOf, NoRejection
  <1>2. TypeOK /\ Fitting /\ [Next]_vars => Fitting'
    <2> SUFFICES ASSUME TypeOK, Fitting, [Next]_vars, NEW d \in Collectors
                 PROVE  FittingOf(d)'
      BY DEF Fitting
    <2>0. FittingOf(d)
      BY DEF Fitting
    <2>1. CASE Tick \/ Cancel \/ UNCHANGED vars
      BY <2>0, <2>1, LimitKept DEF Tick, Cancel, vars, process, FittingOf
    <2>2. CASE Restart
      BY <2>2 DEF Restart, FittingOf, NoRejection
    <2>3. ASSUME NEW c \in Collectors, Step(c) PROVE FittingOf(d)'
      <3>1. CASE d = c
        BY <2>3, <3>1, FittingKept
      <3>2. CASE d # c
        <4>1. /\ pc'[d] = pc[d] /\ run'[d] = run[d] /\ failed400'[d] = failed400[d]
              /\ adaptiveWindows'[d] = adaptiveWindows[d]
          BY <2>3, <3>2, StepFrame, LearnedFrame
        <4>2. QED
          BY <2>0, <4>1, LimitKept DEF FittingOf
      <3>3. QED
        BY <3>1, <3>2
    <2>4. QED
      BY <2>1, <2>2, <2>3 DEF Next, Exited
  <1>3. Fitting => WithinLimit
    BY DEF Fitting, FittingOf, WithinLimit
  <1>4. QED
    BY <1>1, <1>2, <1>3, TypeCorrect, PTL DEF Spec

-----------------------------------------------------------------------------
(* Drops are justified. *)

\* The last n entries of a log are all w.
EndsWith(log, n, w) ==
  n <= Len(log) /\ \A i \in 1 .. Len(log) : i > Len(log) - n => log[i] = w

\* The log is bounded, and ends with as many rejections of the pending window
\* as were counted.
TalliedOf(c) ==
  /\ Len(rejections[c]) <= Rejections
  /\ EndsWith(rejections[c], failed400[c].count, <<failed400[c].from, failed400[c].to>>)

Tallied == \A c \in Collectors : TalliedOf(c)

LEMMA NothingTallied == ASSUME NEW log \in RejectionLog, NEW w PROVE EndsWith(log, 0, w)
  BY LenProperties DEF EndsWith, RejectionLog

LEMMA EmptyTallied == ASSUME NEW w PROVE Len(<< >>) = 0 /\ EndsWith(<< >>, 0, w)
  BY EmptyLog, NothingTallied, EmptySeq

LEMMA AppendTally ==
  ASSUME NEW T, NEW log \in Seq(T), NEW w \in T, NEW n \in Nat, EndsWith(log, n, w)
  PROVE  /\ Append(log, w) \in Seq(T) /\ Append(log, w) # << >>
         /\ Len(Append(log, w)) = Len(log) + 1
         /\ EndsWith(Append(log, w), n + 1, w)
  <1> DEFINE S == Append(log, w)
  <1>1. /\ S \in Seq(T) /\ S # << >> /\ Len(S) = Len(log) + 1
        /\ \A i \in 1 .. Len(log) : S[i] = log[i]
        /\ S[Len(log) + 1] = w
    BY AppendProperties
  <1>2. Len(log) \in Nat
    BY LenProperties
  <1> HIDE DEF S
  <1>3. n + 1 <= Len(S)
    BY <1>1, <1>2 DEF EndsWith
  <1>4. ASSUME NEW i \in 1 .. Len(S), i > Len(S) - (n + 1) PROVE S[i] = w
    <2>1. CASE i = Len(log) + 1
      BY <1>1, <2>1
    <2>2. CASE i # Len(log) + 1
      <3>1. i \in 1 .. Len(log) /\ i > Len(log) - n
        BY <1>1, <1>2, <1>4, <2>2
      <3>2. QED
        BY <1>1, <3>1 DEF EndsWith
    <2>3. QED
      BY <2>1, <2>2
  <1>5. EndsWith(S, n + 1, w)
    BY <1>3, <1>4 DEF EndsWith
  <1>6. QED
    BY <1>1, <1>5 DEF S

LEMMA TailTally ==
  ASSUME NEW T, NEW log \in Seq(T), log # << >>, NEW w, NEW n \in Nat, n < Len(log),
         EndsWith(log, n, w)
  PROVE  Len(Tail(log)) = Len(log) - 1 /\ EndsWith(Tail(log), n, w)
  <1> DEFINE S == Tail(log)
  <1>1. Len(S) = Len(log) - 1 /\ \A i \in 1 .. Len(S) : S[i] = log[i + 1]
    BY HeadTailProperties
  <1>2. Len(log) \in Nat
    BY LenProperties
  <1> HIDE DEF S
  <1>3. ASSUME NEW i \in 1 .. Len(S), i > Len(S) - n PROVE S[i] = w
    <2>1. i + 1 \in 1 .. Len(log) /\ i + 1 > Len(log) - n
      BY <1>1, <1>2, <1>3
    <2>2. QED
      BY <1>1, <2>1 DEF EndsWith
  <1>4. EndsWith(S, n, w)
    BY <1>1, <1>2, <1>3 DEF EndsWith
  <1>5. QED
    BY <1>1, <1>4 DEF S

\* One more rejection of the same window.
LEMMA RecordedTally ==
  ASSUME TypeOK, Tallied, NEW c \in Collectors
  PROVE  /\ Len(Recorded(c)) <= Rejections
         /\ EndsWith(Recorded(c), PendingCount(c) + 1, Window(c))
  <1> DEFINE log == rejections[c]
             S == Append(log, Window(c))
             n == PendingCount(c)
  <1>1. log \in Seq(Int \X Int) /\ Window(c) \in Int \X Int
    BY RunFields DEF TypeOK, RejectionLog, Window
  <1>2. n \in Nat /\ n + 1 <= Rejections /\ Rejections \in Nat /\ Len(log) \in Nat
    BY <1>1, PendingCountType, BudgetAssumption, LenProperties
  <1>3. Len(log) <= Rejections
    BY DEF Tallied, TalliedOf
  <1>4. EndsWith(log, n, Window(c))
    <2>1. CASE n = 0
      BY <1>1, <2>1, NothingTallied DEF RejectionLog
    <2>2. CASE n # 0
      BY <2>2 DEF PendingCount, Tallied, TalliedOf
    <2>3. QED
      BY <2>1, <2>2
  <1> HIDE DEF n, log
  <1>5. /\ S \in Seq(Int \X Int) /\ S # << >> /\ Len(S) = Len(log) + 1
        /\ EndsWith(S, n + 1, Window(c))
    BY <1>1, <1>2, <1>4, AppendTally
  <1>6. Recorded(c) = IF Len(S) > Rejections THEN Tail(S) ELSE S
    BY DEF Recorded, log
  <1> HIDE DEF S
  <1>7. CASE Len(S) > Rejections
    <2>1. n + 1 \in Nat /\ n + 1 < Len(S)
      BY <1>2, <1>5, <1>7
    <2>2. Len(Tail(S)) = Len(S) - 1 /\ EndsWith(Tail(S), n + 1, Window(c))
      BY <1>5, <2>1, TailTally
    <2>3. QED
      BY <1>2, <1>3, <1>5, <1>6, <1>7, <2>2 DEF n
  <1>8. CASE ~(Len(S) > Rejections)
    BY <1>2, <1>5, <1>6, <1>8 DEF n
  <1>9. QED
    BY <1>7, <1>8

LEMMA TalliedKept ==
  ASSUME TypeOK, Tallied, NEW c \in Collectors, Step(c)
  PROVE  TalliedOf(c)'
  <1> USE DEF TypeOK, process, history
  <1>0. TalliedOf(c) /\ rejections[c] \in RejectionLog /\ Rejections \in Nat
    BY BudgetAssumption DEF Tallied
  <1>1. CASE rejections'[c] = rejections[c] /\ failed400'[c] \in {failed400[c], NoRejection}
    <2>1. CASE failed400'[c] = failed400[c]
      BY <1>0, <1>1, <2>1 DEF TalliedOf
    <2>2. CASE failed400'[c] = NoRejection
      <3>1. failed400'[c].count = 0
        BY <2>2 DEF NoRejection
      <3>2. QED
        BY <1>0, <1>1, <3>1, NothingTallied DEF TalliedOf
    <2>3. QED
      BY <1>1, <2>1, <2>2
  <1>2. CASE rejections'[c] = << >> /\ failed400'[c] = NoRejection
    BY <1>0, <1>2, EmptyTallied DEF TalliedOf, NoRejection
  <1>3. CASE ExportRejected(c)
    <2>1. rejections'[c] = Recorded(c) /\ Recorded(c) \in RejectionLog
      BY <1>3, RecordedType DEF ExportRejected
    <2>2. \/ failed400'[c] = NoRejection
          \/ failed400'[c] = [from |-> run[c].from, to |-> run[c].end, count |-> PendingCount(c) + 1]
      BY <1>3 DEF ExportRejected
    <2>3. Len(rejections'[c]) <= Rejections
      BY <2>1, RecordedTally
    <2>4. CASE failed400'[c] = NoRejection
      <3>1. failed400'[c].count = 0
        BY <2>4 DEF NoRejection
      <3>2. QED
        BY <2>1, <2>3, <3>1, NothingTallied DEF TalliedOf
    <2>5. CASE failed400'[c] # NoRejection
      <3>1. /\ failed400'[c].count = PendingCount(c) + 1
            /\ <<failed400'[c].from, failed400'[c].to>> = Window(c)
        BY <2>2, <2>5 DEF Window
      <3>2. QED
        BY <2>1, <2>3, <3>1, RecordedTally DEF TalliedOf
    <2>6. QED
      BY <2>4, <2>5
  <1>4. CASE Export(c) /\ ~ExportRejected(c)
    BY <1>1, <1>2, <1>4
       DEF Export, ExportOk, ExportDeadline, ExportFailed, ExportPanic, ForgetRejections
  <1>5. CASE ~Export(c)
    BY <1>1, <1>5
       DEF Step, Begin, Bootstrap, StartLookback, Resume, Loop, LeaveLoop, BeginWindow, Fetch,
           Fetched, FetchFailed, FetchedGap, Lock, Finish, Save, Announce, GapSave,
           CommitAborted, Stop
  <1>6. QED
    BY <1>3, <1>4, <1>5

\* The log of rejections always ends with as many rejections of the pending
\* window as failed400 counts.
THEOREM TalliedInvariant == Spec => []Tallied
  <1>1. Init => Tallied
    BY EmptyTallied, BudgetAssumption DEF Init, Tallied, TalliedOf, NoRejection
  <1>2. TypeOK /\ Tallied /\ [Next]_vars => Tallied'
    <2> SUFFICES ASSUME TypeOK, Tallied, [Next]_vars, NEW d \in Collectors
                 PROVE  TalliedOf(d)'
      BY DEF Tallied
    <2>0. TalliedOf(d) /\ rejections[d] \in RejectionLog
      BY DEF Tallied, TypeOK
    <2>1. CASE Tick \/ Cancel \/ UNCHANGED vars
      BY <2>0, <2>1 DEF Tick, Cancel, vars, process, history, TalliedOf
    <2>2. CASE Restart
      BY <2>0, <2>2, NothingTallied DEF Restart, history, TalliedOf, NoRejection
    <2>3. ASSUME NEW c \in Collectors, Step(c) PROVE TalliedOf(d)'
      BY <2>0, <2>3, TalliedKept, LearnedFrame DEF TalliedOf
    <2>4. QED
      BY <2>1, <2>2, <2>3 DEF Next, Exited
  <1>3. QED
    BY <1>1, <1>2, TypeCorrect, PTL DEF Spec

\* Only a rejected export drops a window.
LEMMA DroppingStep ==
  ASSUME TypeOK, [Next]_vars, NEW c \in Collectors, Dropping(c)
  PROVE  /\ rejections'[c] = Recorded(c)
         /\ PendingCount(c) + 1 >= Rejections
  <1> USE DEF TypeOK, process, history, Goto
  <1>1. CASE Tick \/ Cancel \/ Restart \/ UNCHANGED vars
    BY <1>1 DEF Tick, Cancel, Restart, vars, Dropping
  <1>2. ASSUME NEW d \in Collectors, Step(d) PROVE d = c
    BY <1>2, StepFrame DEF Dropping
  <1>3. ASSUME Step(c) PROVE ExportRejected(c) /\ pc'[c] = "save"
    BY <1>3
       DEF Dropping, Step, Begin, Bootstrap, StartLookback, Resume, Loop, LeaveLoop, BeginWindow,
           Fetch, Fetched, FetchFailed, FetchedGap, Lock, Export, ExportOk, ExportDeadline,
           ExportFailed, ExportPanic, Finish, Save, Announce, GapSave, CommitAborted, Stop,
           Fail, Abandon
  <1>4. CASE Step(c)
    BY <1>3, <1>4 DEF ExportRejected, DropNow, Fail, Abandon
  <1>5. QED
    BY <1>1, <1>2, <1>4 DEF Next, Exited

\* A window is dropped only when the latest commits of its collector, as many
\* as the limit, were rejections of exactly that window.
THEOREM DropsJustified == Spec => DropJustified
  <1>1. ASSUME TypeOK, Tallied, [Next]_vars, NEW c \in Collectors, Dropping(c)
        PROVE  /\ Len(rejections'[c]) = Rejections
               /\ \A i \in 1 .. Rejections : rejections'[c][i] = Window(c)
    <2>1. rejections'[c] = Recorded(c) /\ PendingCount(c) + 1 >= Rejections
      BY <1>1, DroppingStep
    <2>2. /\ Len(Recorded(c)) <= Rejections /\ Len(Recorded(c)) \in Nat
          /\ EndsWith(Recorded(c), PendingCount(c) + 1, Window(c))
      BY <1>1, RecordedTally, RecordedType, LenProperties DEF RejectionLog
    <2>3. PendingCount(c) \in Nat /\ PendingCount(c) + 1 <= Rejections /\ Rejections \in Nat
      BY <1>1, PendingCountType, BudgetAssumption
    <2>4. QED
      BY <2>1, <2>2, <2>3 DEF EndsWith
  <1>2. TypeOK /\ Tallied /\ [Next]_vars =>
          [\A c \in Collectors : Dropping(c) =>
             /\ Len(rejections'[c]) = Rejections
             /\ \A i \in 1 .. Rejections : rejections'[c][i] = Window(c)]_vars
    BY <1>1
  <1>3. QED
    BY <1>2, TypeCorrect, TalliedInvariant, PTL DEF Spec, DropJustified
=============================================================================
