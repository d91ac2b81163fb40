------------------------------ MODULE Windows ------------------------------
(***************************************************************************)
(* Time windows of the collectors: five-minute source buckets, the lag     *)
(* that keeps an incomplete bucket out of a window, the bisection of a     *)
(* saturated window (internal/collector/splitter.go) and the selection of  *)
(* fields a dataset's entitlement has room for.  Times are natural numbers *)
(* of ticks; a bucket is Bucket ticks long and starts at a multiple of it. *)
(* A window <<from, to>> is half-open.                                     *)
(***************************************************************************)
EXTENDS Naturals, Sequences, FiniteSets

CONSTANT Bucket     \* ticks in one source bucket

ASSUME BucketAssumption == Bucket \in Nat \ {0}

Least(a, b) == IF a <= b THEN a ELSE b
Greatest(a, b) == IF a <= b THEN b ELSE a

\* The start of the bucket t lies in, and of the first bucket at or after t.
\* (CeilBucketDown and CeilBucketOn are wrong on purpose: see README, mutants.)
FloorBucket(t) == t - (t % Bucket)
CeilBucketDown(t) == FloorBucket(t)
CeilBucketOn(t) == FloorBucket(t) + Bucket
CeilBucket(t) == IF FloorBucket(t) < t THEN FloorBucket(t) + Bucket ELSE t

\* A bucket that lies in the window as a whole.
CompleteBucket(at, from, to) == from <= at /\ at + Bucket <= to

\* How far behind the clock a window may reach: the holdback, and then back
\* to the start of the bucket, so that the scheduler's bound is aligned.
LagAt(now, holdback) == now - FloorBucket(now - holdback)

(***************************************************************************)
(* SplitWindow and Bisect.  An answer to one query is a record with ok     *)
(* (the query succeeded), saturated (it reached the limit and must be      *)
(* split) and the rows; query is a function from bounds to answers.        *)
(***************************************************************************)
None == 0      \* no time: 0 never lies strictly inside a window

Truncate(t, step) == t - (t % step)

SplitWindow(from, to, step, minimum) ==
  LET mid == Truncate(from + ((to - from) \div 2), step)
  IN  IF to - from <= minimum THEN None
      ELSE IF from < mid /\ mid < to THEN mid ELSE None

Rows(rows) == [ok |-> TRUE, saturated |-> FALSE, rows |-> rows]
Saturated == [ok |-> FALSE, saturated |-> TRUE, rows |-> {}]
QueryFailed == [ok |-> FALSE, saturated |-> FALSE, rows |-> {}]

\* The bounds a query of some part of a window may have.
Parts(from, to) == (from .. to) \X (from .. to)

\* The leaves of a saturated window, all of them or none.
Bisect(from, to, step, minimum, query) ==
  LET part[w \in Parts(from, to)] ==
        LET mid == SplitWindow(w[1], w[2], step, minimum)
            left == part[<<w[1], mid>>]
            right == part[<<mid, w[2]>>]
        IN  IF ~query[w].saturated THEN query[w]
            ELSE IF mid = None THEN QueryFailed
            ELSE IF ~left.ok THEN left
            ELSE IF ~right.ok THEN right
            ELSE Rows(left.rows \cup right.rows)
  IN  part[<<from, to>>]

\* The same window as successive slices of at most span ticks.
Sliced(from, to, span, query) ==
  LET starts == {a \in from .. to - 1 : (a - from) % span = 0}
      slice(a) == query[<<a, Least(a + span, to)>>]
  IN  IF \A a \in starts : slice(a).ok
      THEN Rows(UNION {slice(a).rows : a \in starts})
      ELSE QueryFailed

(***************************************************************************)
(* Field selection.  Settings are a record with read (the settings query   *)
(* succeeded), enabled, fields (the most fields one query may select),     *)
(* page (the largest page), span (the longest window in ticks), retention  *)
(* (how far back rows are kept) and offered (the fields available).  All   *)
(* required fields are selected or the plan fails; optional ones follow in *)
(* order while there is room.                                              *)
(***************************************************************************)
Entitled(s, required) ==
  s.read /\ s.enabled /\ required \subseteq s.offered /\ Cardinality(required) <= s.fields

Chosen(s, required, optional) ==
  LET offered == SelectSeq(optional, LAMBDA f : f \in s.offered)
      room == s.fields - Cardinality(required)
  IN  required \cup {offered[i] : i \in 1 .. Least(room, Len(offered))}
=============================================================================
