-------------------------- MODULE IdentityOutcomes --------------------------
(***************************************************************************)
(* The counters of identity look-ups (internal/collectors/selfobs): each   *)
(* snapshot of the daemon's own state adds to them what the index has      *)
(* counted since the last add that was accepted.  Snapshots may overlap,   *)
(* the emitter may refuse an add, and the index may be replaced.           *)
(***************************************************************************)
EXTENDS Integers, Sequences

CONSTANTS
  Outcomes,  \* of a look-up
  Snapshots, \* snapshots that may run at the same time
  MaxCount,  \* look-ups of one outcome that are modelled
  Indexes    \* identity indexes that are modelled

ASSUME OutcomesAssumption == MaxCount \in Nat /\ Indexes \in Nat

VARIABLES
  sources,      \* what each index so far has counted; the last one counts on
  identityLast, \* the counts of the last accepted adds
  added,        \* the counters as the backend has them, by index
  identityMu,   \* the snapshot that holds the identity mutex, if one does
  snapshot      \* where each snapshot is, with what it has read
outcomes == <<sources, identityLast, added, identityMu, snapshot>>

Zero == [o \in Outcomes |-> 0]
Away == [at |-> "away"]
Epoch == Len(sources)

-----------------------------------------------------------------------------
\* Lookup counts its outcome in the index in use.
CountOutcome(o) ==
  /\ sources[Epoch][o] < MaxCount
  /\ sources' = [sources EXCEPT ![Epoch][o] = @ + 1]
  /\ UNCHANGED <<identityLast, added, identityMu, snapshot>>

\* SetIdentityStats: another index, a fresh baseline.
Attach ==
  /\ identityMu = {} /\ Epoch < Indexes
  /\ sources' = Append(sources, Zero) /\ added' = Append(added, Zero)
  /\ identityLast' = Zero
  /\ UNCHANGED <<identityMu, snapshot>>

-----------------------------------------------------------------------------
\* collectIdentity: the counts are read under the identity mutex, which stays
\* held until all adds are done.
AnyTime == TRUE  \* wrong on purpose
MutexFree == identityMu = {}

EnterIdentity(n) ==
  /\ snapshot[n] = Away /\ MutexFree
  /\ identityMu' = {n}
  /\ snapshot' = [snapshot EXCEPT ![n] = [at |-> "add", counts |-> sources[Epoch], left |-> Outcomes]]
  /\ UNCHANGED <<sources, identityLast, added>>

\* One outcome after the other, in any order; a lower count begins a new epoch.
Delta(count, last) == IF count >= last THEN count - last ELSE count
AddAccepted(n, o) ==
  LET count == snapshot[n].counts[o]
  IN  /\ snapshot[n].at = "add" /\ o \in snapshot[n].left
      /\ added' = [added EXCEPT ![Epoch][o] = @ + Delta(count, identityLast[o])]
      /\ identityLast' = [identityLast EXCEPT ![o] = count]
      /\ snapshot' = [snapshot EXCEPT ![n].left = @ \ {o}]
      /\ UNCHANGED <<sources, identityMu>>

\* A refused add leaves the baseline. (BaselineMoves is wrong on purpose.)
BaselineMoves(last, n, o) == [last EXCEPT ![o] = snapshot[n].counts[o]]
BaselineStays(last, n, o) == last

AddRefused(n, o) ==
  /\ snapshot[n].at = "add" /\ o \in snapshot[n].left
  /\ identityLast' = BaselineStays(identityLast, n, o)
  /\ snapshot' = [snapshot EXCEPT ![n].left = @ \ {o}]
  /\ UNCHANGED <<sources, added, identityMu>>

LeaveIdentity(n) ==
  /\ snapshot[n].at = "add" /\ snapshot[n].left = {}
  /\ identityMu' = {}
  /\ snapshot' = [snapshot EXCEPT ![n] = Away]
  /\ UNCHANGED <<sources, identityLast, added>>

OutcomesInit ==
  /\ sources = <<Zero>> /\ added = <<Zero>> /\ identityLast = Zero
  /\ identityMu = {} /\ snapshot = [n \in Snapshots |-> Away]

OutcomesNext ==
  \/ \E o \in Outcomes : CountOutcome(o)
  \/ Attach
  \/ \E n \in Snapshots : EnterIdentity(n) \/ LeaveIdentity(n)
  \/ \E n \in Snapshots, o \in Outcomes : AddAccepted(n, o) \/ AddRefused(n, o)

OutcomesSpec == OutcomesInit /\ [][OutcomesNext]_outcomes

-----------------------------------------------------------------------------
\* The counters never tell more look-ups of an index than it has counted, and as
\* long as it is the current one they tell all up to the baseline, whichever
\* snapshots run together and whichever adds are refused (collectIdentity).
OutcomesTold ==
  \A o \in Outcomes :
    /\ \A e \in DOMAIN added : added[e][o] <= sources[e][o]
    /\ added[Epoch][o] = identityLast[o]
=============================================================================
