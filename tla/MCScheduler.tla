---------------------------- MODULE MCScheduler -----------------------------
(* Small instances of Scheduler for TLC: every collector has the same       *)
(* settings; with several collectors the first one may be of another kind.  *)
EXTENDS Scheduler

CONSTANTS First, FirstKind, OtherKind, Window0, Lookback0, Lags0, Margin0,
          Retention0, Capacity0

MCKind == [c \in Collectors |-> IF c = First THEN FirstKind ELSE OtherKind]
MCMaxWindow == [c \in Collectors |-> Window0]
MCLookback == [c \in Collectors |-> Lookback0]
MCLags == [c \in Collectors |-> Lags0]
MCMargin == [c \in Collectors |-> Margin0]
MCRetention == [c \in Collectors |-> Retention0]
MCCapacity == [c \in Collectors |-> Capacity0]
=============================================================================
