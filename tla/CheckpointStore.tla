-------------------------- MODULE CheckpointStore ---------------------------
(***************************************************************************)
(* What the scheduler relies on in a checkpoint store: one cursor per name *)
(* that moves forward atomically, one name at a time.  Only a power loss   *)
(* may take cursors back, which repeats work but never skips any.          *)
(***************************************************************************)
EXTENDS Integers

CONSTANTS Names       \* the collectors that keep a cursor

VARIABLES store       \* store[n]: the cursor a restart would read; 0 is none

Init == store = [n \in Names |-> 0]

Set(n) ==
  /\ store'[n] \in Nat
  /\ store[n] <= store'[n]
  /\ store' = [store EXCEPT ![n] = store'[n]]

Regress ==
  /\ store' \in [Names -> Nat]
  /\ \A n \in Names : store'[n] <= store[n]

Next == Regress \/ \E n \in Names : Set(n)

Spec == Init /\ [][Next]_store
=============================================================================
