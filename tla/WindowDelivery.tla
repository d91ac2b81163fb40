--------------------------- MODULE WindowDelivery ---------------------------
(***************************************************************************)
(* What cf2otel promises about a window collector, with the scheduler's    *)
(* mechanics left out.  Source time is a sequence of whole seconds.  Each  *)
(* collector has a durable cursor (absent until the first run) and a set   *)
(* of seconds that are accounted for: delivered to the OTLP backend,       *)
(* dropped with a logged error after repeated payload rejections, or       *)
(* reported as a retention gap.  The cursor only moves forward, and only   *)
(* over seconds that are already accounted for.                            *)
(***************************************************************************)
EXTENDS Integers

CONSTANTS Collectors,   \* the registered window collectors
          NoCursor      \* the cursor of a collector without a checkpoint

VARIABLES cursor,       \* cursor[c]: first second not yet passed, or NoCursor
          accounted     \* accounted[c]: the seconds reported on

vars == <<cursor, accounted>>

Init ==
  /\ cursor = [c \in Collectors |-> NoCursor]
  /\ accounted = [c \in Collectors |-> {}]

\* Only collector c's entry of the two variables may change.
OnlyCursor(c) ==
  /\ cursor' = [cursor EXCEPT ![c] = cursor'[c]]
  /\ UNCHANGED accounted

\* The first checkpoint of a collector: history before it is out of scope.
Establish(c) ==
  /\ cursor[c] = NoCursor
  /\ cursor'[c] \in Int
  /\ OnlyCursor(c)

\* More source time is delivered, dropped or reported as a gap.
Account(c) ==
  /\ accounted[c] \subseteq accounted'[c]
  /\ accounted' = [accounted EXCEPT ![c] = accounted'[c]]
  /\ UNCHANGED cursor

\* The cursor moves forward over seconds all of which are accounted for.
Advance(c) ==
  /\ cursor[c] # NoCursor
  /\ cursor'[c] \in Int
  /\ cursor'[c] >= cursor[c]
  /\ cursor[c] .. (cursor'[c] - 1) \subseteq accounted[c]
  /\ OnlyCursor(c)

Next == \E c \in Collectors : Establish(c) \/ Account(c) \/ Advance(c)

Spec == Init /\ [][Next]_vars
=============================================================================
