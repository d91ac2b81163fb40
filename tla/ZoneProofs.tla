------------------------------ MODULE ZoneProofs ------------------------------
(***************************************************************************)
(* Theorems about the zone collectors, for all zones, settings, rows,      *)
(* retentions, page sizes and budgets.  Each window of each kind is shown  *)
(* to keep one promise, that it counts what it covers or reports the span  *)
(* as skipped; what the collector keeps from window to window follows.     *)
(* The last part shows that a healthy window is delivered.                 *)
(***************************************************************************)
EXTENDS ZoneCollectors, NumberProofs

-----------------------------------------------------------------------------
(* Answers: what a query of a zone returns if it succeeds, and that a       *)
(* retention error names a floor.                                           *)

RowsIn(z, a, b) == {r \in world : r.zone = z /\ a <= r.at /\ r.at < b}

RowsOver(zones, a, b) == {r \in world : r.zone \in zones /\ a <= r.at /\ r.at < b}

Exact(answer, z, a, b) ==
  /\ answer.ok => answer.rows = RowsIn(z, a, b)
  /\ IsGap(answer) => answer.floor \in Int /\ answer.floor <= now

Readable(q, z) == q.s[z].span \in Nat /\ q.s[z].page \in Nat /\ q.s[z].retention \in Nat

LEMMA FailedExact ==
  ASSUME NEW z, NEW a, NEW b
  PROVE  Exact(QueryFailed, z, a, b)
  BY DEF QueryFailed, Exact, IsGap

\* A window older than the retention names the floor to skip to.
LEMMA GapExact ==
  ASSUME now \in Nat, NEW q, NEW z, Readable(q, z), NEW a, NEW b, NEW alone
  PROVE  /\ Exact(Gap(FloorOf(q.s[z]), alone), z, a, b)
         /\ Gap(FloorOf(q.s[z]), alone).floor = FloorOf(q.s[z])
         /\ FloorOf(q.s[z]) \in Int /\ FloorOf(q.s[z]) <= now
  BY DEF Readable, Gap, FloorOf, Exact, IsGap

\* One query, and one query whose page must not be full (Fetch, Once).
LEMMA FetchExact ==
  ASSUME now \in Nat, NEW q, NEW z, Readable(q, z), NEW a, NEW b, NEW key
  PROVE  Exact(Fetch(z, a, b, q, key), z, a, b)
  <1>1. Exact(Saturated, z, a, b)
    BY DEF Saturated, Exact, IsGap
  <1>2. Exact(Rows({r \in world : r.zone = z /\ a <= r.at /\ r.at < b}), z, a, b)
    BY DEF Rows, Exact, IsGap, RowsIn
  <1> QED BY <1>1, <1>2, FailedExact, GapExact DEF Fetch

LEMMA OnceExact ==
  ASSUME now \in Nat, NEW q, NEW z, Readable(q, z), NEW a, NEW b, NEW key
  PROVE  Exact(Once(z, a, b, q, key), z, a, b)
  BY FetchExact, FailedExact DEF Once

\* The slices of a window have no gap and do not end beyond it.
LEMMA SlicedExact ==
  ASSUME world \in Worlds, NEW z, NEW from \in Nat, NEW to \in Nat, NEW span \in Nat \ {0}, NEW query,
         \A w \in Parts(from, to) : w[1] < w[2] => Exact(query[w], z, w[1], w[2])
  PROVE  Exact(Sliced(from, to, span, query), z, from, to) /\ ~IsGap(Sliced(from, to, span, query))
  <1> DEFINE starts == {a \in from .. to - 1 : (a - from) % span = 0}
             end(a) == Least(a + span, to)
             rows == UNION {query[<<a, end(a)>>].rows : a \in starts}
  <1>1. \A a \in starts : /\ a \in Nat /\ from <= a /\ a < to /\ end(a) \in Nat
                          /\ a < end(a) /\ end(a) <= to /\ (end(a) = a + span \/ end(a) = to)
                          /\ <<a, end(a)>> \in Parts(from, to)
    BY DEF Least, Parts
  <1>2. ASSUME \A a \in starts : query[<<a, end(a)>>].ok
        PROVE  rows = RowsIn(z, from, to)
    <2>1. \A a \in starts : query[<<a, end(a)>>].rows = RowsIn(z, a, end(a))
      <3> HIDE DEF starts, end
      <3>1. ASSUME NEW a \in starts PROVE Exact(query[<<a, end(a)>>], z, a, end(a))
        <4> DEFINE w == <<a, end(a)>>
        <4>1. w \in Parts(from, to) /\ w[1] = a /\ w[2] = end(a) /\ w[1] < w[2]
          BY <1>1
        <4>2. query[<<a, end(a)>>] = query[w]
          OBVIOUS
        <4> HIDE DEF w
        <4> QED BY <4>1, <4>2
      <3> QED BY <1>2, <3>1 DEF Exact
    <2>2. ASSUME NEW r \in rows PROVE r \in RowsIn(z, from, to)
      <3>1. PICK a \in starts : r \in query[<<a, end(a)>>].rows
        BY <2>2
      <3>2. r \in world /\ r.zone = z /\ a <= r.at /\ r.at < end(a) /\ r.at \in Nat
        BY <2>1, <3>1, EventAssumption DEF RowsIn
      <3> HIDE DEF starts, end
      <3>3. from <= r.at /\ r.at < to
        BY <1>1, <3>1, <3>2
      <3> QED BY <3>2, <3>3 DEF RowsIn
    <2>3. ASSUME NEW r \in RowsIn(z, from, to) PROVE r \in rows
      <3>1. r \in world /\ r.zone = z /\ from <= r.at /\ r.at < to /\ r.at \in Nat
        BY EventAssumption DEF RowsIn
      <3> DEFINE d == r.at - from
                 low == d - (d % span)
                 a == from + low
      <3>2. d \in Nat
        BY <3>1
      <3>3. low \in Nat /\ low <= d /\ d < low + span /\ low % span = 0
        <4> HIDE DEF d
        <4> QED BY <3>2, Rounded
      <3>4. a \in from .. to - 1 /\ a <= r.at /\ r.at < a + span /\ a - from = low /\ a \in Nat
        <4>1. d = r.at - from
          OBVIOUS
        <4> HIDE DEF low, d
        <4> QED BY <3>1, <3>2, <3>3, <4>1
      <3> HIDE DEF low, d, a
      <3>5. a \in starts
        BY <3>3, <3>4
      <3>6. r.at < end(a)
        BY <1>1, <3>1, <3>4, <3>5
      <3>7. r \in query[<<a, end(a)>>].rows
        BY <2>1, <3>1, <3>4, <3>5, <3>6 DEF RowsIn
      <3> HIDE DEF starts, end
      <3> QED BY <3>5, <3>7
    <2> QED BY <2>2, <2>3
  <1>3. Sliced(from, to, span, query) =
          IF \A a \in starts : query[<<a, end(a)>>].ok THEN Rows(rows) ELSE QueryFailed
    BY DEF Sliced
  <1> HIDE DEF starts, end, rows
  <1>4. ~IsGap(Sliced(from, to, span, query))
    BY <1>3 DEF IsGap, Rows, QueryFailed
  <1>5. Sliced(from, to, span, query).ok => Sliced(from, to, span, query).rows = RowsIn(z, from, to)
    BY <1>2, <1>3 DEF Rows, QueryFailed
  <1> QED BY <1>4, <1>5 DEF Exact

\* The spans a dataset may be asked for, one after the other.
LEMMA InSlicesExact ==
  ASSUME world \in Worlds, now \in Nat, NEW q, NEW z, Readable(q, z),
         NEW from \in Nat, NEW to \in Nat, NEW key
  PROVE  /\ Exact(InSlices(z, from, to, q, key), z, from, to)
         /\ IsGap(InSlices(z, from, to, q, key)) =>
              Aged(from, q.s[z]) /\ InSlices(z, from, to, q, key).floor = FloorOf(q.s[z])
  <1> DEFINE query == [w \in Parts(from, to) |-> Once(z, w[1], w[2], q, key)]
             sliced == Sliced(from, to, q.s[z].span, query)
  <1>1. \A w \in Parts(from, to) : Exact(query[w], z, w[1], w[2])
    BY OnceExact
  <1>2. q.s[z].span \in Nat
    BY DEF Readable
  <1>3. q.s[z].span # 0 => Exact(sliced, z, from, to) /\ ~IsGap(sliced)
    <2> HIDE DEF query
    <2> QED BY <1>1, <1>2, SlicedExact
  <1>4. InSlices(z, from, to, q, key) =
          IF Aged(from, q.s[z]) THEN Gap(FloorOf(q.s[z]), FALSE)
          ELSE IF q.s[z].span = 0 THEN QueryFailed ELSE sliced
    BY DEF InSlices
  <1>5. ~IsGap(QueryFailed)
    BY DEF IsGap, QueryFailed
  <1> HIDE DEF sliced
  <1> QED BY <1>3, <1>4, <1>5, FailedExact, GapExact

\* Bisecting a window returns the rows of all of it (windowsplitter.Run).
LEMMA BisectExact ==
  ASSUME world \in Worlds, NEW z, NEW from \in Nat, NEW to \in Nat, from <= to,
         NEW step \in Nat \ {0}, NEW minimum \in Nat, NEW query,
         \A w \in Parts(from, to) : Exact(query[w], z, w[1], w[2])
  PROVE  Exact(Bisect(from, to, step, minimum, query), z, from, to)
  <1>1. PICK f : /\ Bisect(from, to, step, minimum, query) = f[<<from, to>>]
                 /\ \A w \in Parts(from, to) : f[w] = Value(f, w, step, minimum, query)
    BY BisectSolved
  <1>2. ASSUME NEW w \in Parts(from, to),
               \A v \in Parts(from, to) : Width(v) < Width(w) => Exact(f[v], z, v[1], v[2])
        PROVE  Exact(f[w], z, w[1], w[2])
    <2> DEFINE mid == SplitWindow(w[1], w[2], step, minimum)
               left == f[<<w[1], mid>>]
               right == f[<<mid, w[2]>>]
    <2>1. f[w] = IF ~query[w].saturated THEN query[w]
                 ELSE IF mid = None THEN QueryFailed
                 ELSE IF ~left.ok THEN left
                 ELSE IF ~right.ok THEN right
                 ELSE Rows(left.rows \cup right.rows)
      BY <1>1 DEF Value
    <2>2. CASE mid = None
      BY <2>1, <2>2, FailedExact
    <2>3. CASE mid # None
      <3>1. /\ mid \in Nat /\ w[1] < mid /\ mid < w[2] /\ w[1] \in Nat /\ w[2] \in Nat
            /\ <<w[1], mid>> \in Parts(from, to) /\ Width(<<w[1], mid>>) < Width(w)
            /\ <<mid, w[2]>> \in Parts(from, to) /\ Width(<<mid, w[2]>>) < Width(w)
        BY <2>3, Halves
      <3> HIDE DEF mid
      <3>2. Exact(left, z, w[1], mid) /\ Exact(right, z, mid, w[2])
        <4> DEFINE u == <<w[1], mid>>
                   v == <<mid, w[2]>>
        <4>1. u[1] = w[1] /\ u[2] = mid /\ v[1] = mid /\ v[2] = w[2]
          OBVIOUS
        <4>2. u \in Parts(from, to) /\ v \in Parts(from, to) /\ Width(u) < Width(w) /\ Width(v) < Width(w)
          BY <3>1
        <4>3. left = f[u] /\ right = f[v]
          OBVIOUS
        <4> HIDE DEF u, v, left, right
        <4> QED BY <1>2, <4>1, <4>2, <4>3
      <3>3. RowsIn(z, w[1], w[2]) = RowsIn(z, w[1], mid) \cup RowsIn(z, mid, w[2])
        <4>1. \A r \in world : r.at \in Nat
          BY EventAssumption
        <4> QED BY <3>1, <4>1 DEF RowsIn
      <3> HIDE DEF left, right
      <3>4. left.ok /\ right.ok => Exact(Rows(left.rows \cup right.rows), z, w[1], w[2])
        BY <3>2, <3>3 DEF Exact, Rows, IsGap
      <3>5. /\ ~left.ok => Exact(left, z, w[1], w[2])
            /\ ~right.ok => Exact(right, z, w[1], w[2])
        BY <3>2 DEF Exact
      <3> QED BY <2>1, <2>3, <3>4, <3>5
    <2> QED BY <2>2, <2>3
  <1> DEFINE Bad == {n \in Nat : \E w \in Parts(from, to) : Width(w) = n /\ ~Exact(f[w], z, w[1], w[2])}
  <1>3. Bad = {}
    <2> SUFFICES ASSUME Bad # {} PROVE FALSE
      OBVIOUS
    <2>1. PICK n \in Bad : \A m \in Bad : n <= m
      <3>1. Bad \in SUBSET Nat
        OBVIOUS
      <3> HIDE DEF Bad
      <3> QED BY <3>1, LeastNumber
    <2>2. PICK w \in Parts(from, to) : Width(w) = n /\ ~Exact(f[w], z, w[1], w[2])
      OBVIOUS
    <2>3. ASSUME NEW v \in Parts(from, to), Width(v) < Width(w) PROVE Exact(f[v], z, v[1], v[2])
      <3>1. Width(v) \in Nat
        BY DEF Parts, Width
      <3> QED BY <2>1, <2>2, <2>3, <3>1
    <2> QED BY <1>2, <2>2, <2>3
  <1>4. <<from, to>> \in Parts(from, to) /\ Width(<<from, to>>) \in Nat
    BY DEF Parts, Width
  <1> QED BY <1>1, <1>3, <1>4

-----------------------------------------------------------------------------
(* The answers of one zone: rows of the zone, within the window.            *)

Within(answer, z, a, b) ==
  /\ answer.ok => answer.rows \subseteq RowsIn(z, a, b)
  /\ IsGap(answer) => answer.floor \in Int /\ answer.floor <= now

\* An answer that is complete is within its window, and so are those that fail.
LEMMA WithinExact ==
  ASSUME NEW answer, NEW z, NEW a, NEW b
  PROVE  /\ Exact(answer, z, a, b) => Within(answer, z, a, b)
         /\ Within(Rows({}), z, a, b)
         /\ Within(QueryFailed, z, a, b)
  BY DEF Exact, Within, Rows, QueryFailed, IsGap

\* A zone whose rows carry another zone fails, and is unchanged otherwise.
LEMMA CheckedExact ==
  ASSUME NEW answer, NEW z, NEW a, NEW b, NEW q, Exact(answer, z, a, b)
  PROVE  Exact(Checked(z, answer, q), z, a, b)
  BY FailedExact DEF Checked

LEMMA CheckedOk ==
  ASSUME NEW answer, NEW z, NEW q, Checked(z, answer, q).ok
  PROVE  answer.ok /\ Checked(z, answer, q) = answer
  BY DEF Checked, QueryFailed

\* What each way of reading a zone returns.
LEMMA HalvedExact ==
  ASSUME world \in Worlds, now \in Nat, NEW q, NEW z, Readable(q, z),
         NEW from \in Nat, NEW to \in Nat, from <= to, NEW key
  PROVE  Exact(Halved(z, from, to, q, key), z, from, to)
  <1> DEFINE query == [w \in Parts(from, to) |-> Fetch(z, w[1], w[2], q, key)]
             one == 1
  <1>1. \A w \in Parts(from, to) : Exact(query[w], z, w[1], w[2])
    BY FetchExact
  <1>2. one \in Nat \ {0} /\ Minute \in Nat
    BY LimitAssumption
  <1>3. Halved(z, from, to, q, key) = Bisect(from, to, one, Minute, query)
    BY DEF Halved
  <1> HIDE DEF query, one
  <1> QED BY <1>1, <1>2, <1>3, BisectExact

LEMMA KpiRowsExact ==
  ASSUME now \in Nat, NEW q, NEW z, Readable(q, z), NEW a, NEW b
  PROVE  Exact(KpiRows(z, a, b, q), z, a, b)
  BY OnceExact, FailedExact, GapExact DEF KpiRows

LEMMA CompleteBucketsExact ==
  ASSUME world \in Worlds, now \in Nat, NEW q, NEW z, Readable(q, z),
         NEW lo \in Nat, NEW hi \in Nat
  PROVE  Exact(CompleteBuckets(z, lo, hi, q), z, lo, hi)
  <1> DEFINE s == q.s[z]
             span == Least(s.span \div Bucket, s.page) * Bucket
             query(v) == [w \in Parts(v[1], v[2]) |-> Fetch(z, w[1], w[2], q, ByBucket)]
             part == [v \in Parts(lo, hi) |-> Bisect(v[1], v[2], Bucket, Bucket, query(v))]
  <1>1. CompleteBuckets(z, lo, hi, q) =
          IF \/ ~Entitled(s, {"value", "bucket"}) \/ s.page = 0 \/ s.retention = 0 \/ span = 0
             \/ Aged(lo, s) THEN QueryFailed
          ELSE Sliced(lo, hi, span, part)
    BY DEF CompleteBuckets
  <1>2. span \in Nat
    <2>1. s.span \div Bucket \in Nat /\ s.page \in Nat /\ Bucket \in Nat
      BY DivFacts, BucketAssumption DEF Readable
    <2> DEFINE least == Least(s.span \div Bucket, s.page)
    <2>2. least \in Nat
      BY <2>1 DEF Least
    <2> HIDE DEF least
    <2>3. least * Bucket \in Nat
      BY <2>1, <2>2
    <2> QED BY <2>3 DEF least
  <1>3. ASSUME NEW v \in Parts(lo, hi), v[1] < v[2] PROVE Exact(part[v], z, v[1], v[2])
    <2>1. v[1] \in Nat /\ v[2] \in Nat
      BY DEF Parts
    <2>2. \A w \in Parts(v[1], v[2]) : Exact(query(v)[w], z, w[1], w[2])
      BY FetchExact
    <2>3. part[v] = Bisect(v[1], v[2], Bucket, Bucket, query(v))
      OBVIOUS
    <2> HIDE DEF query, part
    <2> QED BY <1>3, <2>1, <2>2, <2>3, BisectExact, BucketAssumption
  <1>4. span # 0 => Exact(Sliced(lo, hi, span, part), z, lo, hi)
    <2> HIDE DEF span, part
    <2> QED BY <1>2, <1>3, SlicedExact
  <1> HIDE DEF span, part
  <1> QED BY <1>1, <1>4, FailedExact

\* The groups of the HTTP metrics: the counts are exact, the rest is within.
\* A limit on the groups turns an answer into a failure at most.
LEMMA InLimitExact ==
  ASSUME NEW z, NEW a, NEW b, NEW answer, Exact(answer, z, a, b), NEW from, NEW s, NEW key
  PROVE  Exact(InLimit(answer, from, s, key), z, a, b)
  BY FailedExact DEF InLimit

LEMMA GroupedExact ==
  ASSUME world \in Worlds, now \in Nat, NEW q, NEW z, Readable(q, z),
         NEW from \in Nat, NEW to \in Nat
  PROVE  /\ Exact(Grouped(z, from, to, q), z, from, to)
         /\ Within(Breakdowns(z, from, to, q), z, from, to)
         /\ Within(HighCardinality(z, from, to, q), z, from, to)
         /\ Within(Latencies(z, from, to, q), z, from, to)
  <1>1. Exact(Grouped(z, from, to, q), z, from, to)
    BY InSlicesExact, FailedExact, InLimitExact DEF Grouped
  <1>2. Within(Breakdowns(z, from, to, q), z, from, to)
    BY OnceExact, WithinExact DEF Breakdowns
  <1>3. Within(HighCardinality(z, from, to, q), z, from, to)
    <2> DEFINE answer == InSlices(z, from, to, q, ByHost)
    <2>1. Exact(answer, z, from, to)
      BY InSlicesExact
    <2>2. IsGap(answer) => Within(Gap(answer.floor, TRUE), z, from, to)
      <3> HIDE DEF answer
      <3> QED BY <2>1 DEF Exact, Within, Gap, IsGap
    <2>3. \/ HighCardinality(z, from, to, q) = Rows({})
          \/ HighCardinality(z, from, to, q) = QueryFailed
          \/ IsGap(answer) /\ HighCardinality(z, from, to, q) = Gap(answer.floor, TRUE)
          \/ HighCardinality(z, from, to, q) = InLimit(answer, from, q.s[z], ByHost)
      BY DEF HighCardinality
    <2> HIDE DEF answer
    <2>4. Within(InLimit(answer, from, q.s[z], ByHost), z, from, to)
      BY <2>1, InLimitExact, WithinExact
    <2> QED BY <2>2, <2>3, <2>4, WithinExact
  <1>4. Within(Latencies(z, from, to, q), z, from, to)
    BY InSlicesExact, InLimitExact, WithinExact DEF Latencies
  <1> QED BY <1>1, <1>2, <1>3, <1>4

-----------------------------------------------------------------------------
(* Every zone of a window. *)

LEMMA MergedExact ==
  ASSUME now \in Nat, NEW zones \in SUBSET Nat, NEW answers, DOMAIN answers = zones,
         \A z \in zones : IsGap(answers[z]) => answers[z].floor \in Int /\ answers[z].floor <= now
  PROVE  /\ Merged(answers).ok =>
              (\A z \in zones : answers[z].ok) /\ Merged(answers).rows = UNION {answers[z].rows : z \in zones}
         /\ IsGap(Merged(answers)) => Merged(answers).floor \in Int /\ Merged(answers).floor <= now
  <1> DEFINE ends == {z \in zones : ~answers[z].ok /\ (IsGap(answers[z]) => answers[z].alone)}
             gaps == {z \in zones : IsGap(answers[z])}
             floors == {answers[z].floor : z \in gaps}
             all == UNION {answers[z].rows : z \in zones}
  <1>1. Merged(answers) = IF ends # {} THEN answers[Min(ends)]
                          ELSE IF gaps # {} THEN Gap(Max(floors), FALSE)
                          ELSE Rows(all)
    BY DEF Merged
  <1>2. ends # {} => Min(ends) \in ends
    <2>1. ends \in SUBSET Nat
      OBVIOUS
    <2> HIDE DEF ends
    <2> QED BY <2>1, LeastZone
  <1>3. gaps # {} => Max(floors) \in Int /\ Max(floors) <= now
    <2>1. floors \in SUBSET Int /\ \A x \in floors : x <= now
      OBVIOUS
    <2>2. gaps # {} => floors # {}
      OBVIOUS
    <2> HIDE DEF gaps, floors
    <2>3. gaps # {} => Max(floors) \in floors
      BY <2>1, <2>2, GreatestFloor
    <2> QED BY <2>1, <2>3
  <1>4. CASE ends # {}
    <2>1. Merged(answers) = answers[Min(ends)] /\ Min(ends) \in zones /\ ~answers[Min(ends)].ok
      BY <1>1, <1>2, <1>4
    <2> QED BY <2>1
  <1>5. CASE ends = {} /\ gaps # {}
    <2> DEFINE top == Max(floors)
    <2>1. Merged(answers) = Gap(top, FALSE) /\ top \in Int /\ top <= now
      BY <1>1, <1>3, <1>5
    <2> HIDE DEF top
    <2> QED BY <2>1 DEF Gap, IsGap
  <1>6. CASE ends = {} /\ gaps = {}
    <2>1. \A z \in zones : answers[z].ok
      BY <1>6
    <2>2. Merged(answers) = Rows(all)
      BY <1>1, <1>6
    <2> HIDE DEF ends, gaps, floors
    <2> QED BY <2>1, <2>2 DEF Rows, IsGap
  <1> QED BY <1>4, <1>5, <1>6

\* Of six queries in turn, the last if all succeed.
LEMMA InTurnOk ==
  ASSUME NEW a, NEW b, NEW c, NEW d, NEW e, NEW f
  PROVE  LET answer == InTurn(<<a, b, c, d, e, f>>)
         IN  /\ answer.ok => a.ok /\ b.ok /\ c.ok /\ d.ok /\ e.ok /\ answer = f
             /\ answer \in {a, b, c, d, e, f}
  <1> DEFINE answers == <<a, b, c, d, e, f>>
             failed == {i \in DOMAIN answers : ~answers[i].ok}
  <1>1. DOMAIN answers = 1 .. 6 /\ Len(answers) = 6
    OBVIOUS
  <1>2. \A i \in 1 .. 6 : answers[i] \in {a, b, c, d, e, f}
    OBVIOUS
  <1>3. answers[1] = a /\ answers[2] = b /\ answers[3] = c /\ answers[4] = d /\ answers[5] = e /\ answers[6] = f
    OBVIOUS
  <1>4. InTurn(answers) = IF failed = {} THEN answers[Len(answers)] ELSE answers[Min(failed)]
    BY DEF InTurn
  <1> HIDE DEF answers
  <1>5. CASE failed = {}
    <2>1. InTurn(answers) = f /\ \A i \in 1 .. 6 : answers[i].ok
      BY <1>1, <1>3, <1>4, <1>5
    <2> QED BY <1>3, <2>1 DEF answers
  <1>6. CASE failed # {}
    <2>1. failed \in SUBSET Nat
      BY <1>1
    <2>2. Min(failed) \in failed
      <3> HIDE DEF failed
      <3> QED BY <1>6, <2>1, LeastZone
    <2>3. InTurn(answers) = answers[Min(failed)] /\ Min(failed) \in 1 .. 6 /\ ~answers[Min(failed)].ok
      BY <1>1, <1>4, <1>6, <2>2
    <2> QED BY <1>2, <2>3 DEF answers
  <1> QED BY <1>5, <1>6

-----------------------------------------------------------------------------
(* Points. *)

Apart(points) ==
  \A p1, p2 \in points : p1.metric = p2.metric /\ p1.rows \cap p2.rows # {} => p1 = p2

\* Points of one metric: each row is of one point, and no two points share one.
LEMMA PointsOf ==
  ASSUME NEW metric, NEW rows, NEW series
  PROVE  /\ \A p \in Points(metric, rows, series) : p.metric = metric /\ p.rows \subseteq rows
         /\ \A r \in rows : \E p \in Points(metric, rows, series) : r \in p.rows
         /\ Apart(Points(metric, rows, series))
  <1> DEFINE share(k) == {r \in rows : series[r] = k}
             keys == {series[r] : r \in rows}
  <1>1. Points(metric, rows, series) = {Point(metric, k, share(k)) : k \in keys}
    BY DEF Points
  <1>2. \A k \in keys : Point(metric, k, share(k)).metric = metric /\ Point(metric, k, share(k)).rows = share(k)
    BY DEF Point
  <1>3. \A k, l : share(k) \cap share(l) # {} => k = l
    OBVIOUS
  <1>4. \A r \in rows : series[r] \in keys /\ r \in share(series[r])
    OBVIOUS
  <1>5. \A k : share(k) \subseteq rows
    OBVIOUS
  <1> HIDE DEF share, keys
  <1>6. \A p \in Points(metric, rows, series) : p.metric = metric /\ p.rows \subseteq rows
    BY <1>1, <1>2, <1>5
  <1>7. \A r \in rows : \E p \in Points(metric, rows, series) : r \in p.rows
    BY <1>1, <1>2, <1>4
  <1>8. Apart(Points(metric, rows, series))
    BY <1>1, <1>2, <1>3 DEF Apart
  <1> QED BY <1>6, <1>7, <1>8

LEMMA ApartNoOverlap ==
  ASSUME NEW points, Apart(points)
  PROVE  ~Overlap(points)
  BY DEF Apart, Overlap

LEMMA RowsOfPoints ==
  ASSUME NEW metric, NEW rows, NEW series, NEW m
  PROVE  RowsOf(Points(metric, rows, series), m) = IF m = metric THEN rows ELSE {}
  BY PointsOf DEF RowsOf

-----------------------------------------------------------------------------
(* What every window promises: its rows are counted by the bucket or the    *)
(* moment they are of.                                                      *)

DNSKinds == {"dns.events", "dns.metrics"}

Early(r) == IF kind \in Bucketed THEN FloorBucket(r.at) ELSE r.at

End(r) == IF kind \in Bucketed THEN FloorBucket(r.at) + Bucket ELSE r.at + 1

InWindow(r, from, to) == from <= Early(r) /\ End(r) <= to

Level(t) == kind \in Bucketed => Aligned(t)

AddsUp(poll) ==
  poll.discovered = poll.filtered.include + poll.filtered.no_account + poll.filtered.exclude
                    + poll.processed + poll.skipped

\* The rows that w leaves to its spans.
LeftOut(w, r) == r.zone \in w.skipped \/ \E g \in w.gaps : g.zone = r.zone /\ Early(r) < g.until

Sound(w, from) ==
  /\ w.mark \in Nat /\ from < w.mark /\ Level(w.mark)
  /\ Apart(w.points)
  /\ \A p \in w.points : \A r \in p.rows : r \in world /\ r.zone \in Asked /\ InWindow(r, from, w.mark)
  /\ \A r \in RowsOf(w.points, Required) : IsEvent(r)
  /\ \A g \in w.gaps : g.until \in Nat /\ from < g.until /\ g.until <= w.mark
  /\ kind \in DNSKinds => w.skipped \cap Steady = {} /\ \A g \in w.gaps : g.zone \notin Steady
  /\ \A r \in world : r.zone \in Asked /\ IsEvent(r) /\ InWindow(r, from, w.mark) =>
       (r \in RowsOf(w.points, Required) <=> ~LeftOut(w, r))
  /\ AddsUp(w.poll)

Promise(w, from) ==
  /\ w.mark # from => Sound(w, from)
  /\ w.floor # None => w.floor \in Int /\ kind \notin DNSKinds

\* What the proofs about a poll need of the state.
Given == world \in Worlds /\ config \in Configs /\ now \in Nat

\* The bucket or the moment of a row, and the windows it is of.
LEMMA RowTimes ==
  ASSUME Given, NEW r \in world
  PROVE  /\ r.at \in Nat /\ Early(r) \in Nat /\ End(r) \in Nat /\ Early(r) <= r.at /\ r.at < End(r)
         /\ Early(r) < End(r)
         /\ \A t \in Nat : Level(t) => t <= Early(r) \/ End(r) <= t
  <1>1. r.at \in Nat
    BY EventAssumption DEF Given
  <1> DEFINE at == r.at
  <1>2. /\ FloorBucket(at) \in Nat /\ FloorBucket(at) <= at /\ at < FloorBucket(at) + Bucket
        /\ Bucket \in Nat \ {0}
    BY <1>1, BucketFacts
  <1>3. \A t \in Nat : Aligned(t) => (t <= FloorBucket(at) \/ FloorBucket(at) + Bucket <= t)
    <2> TAKE t \in Nat
    <2>1. Aligned(t) => (t <= at => t <= FloorBucket(at)) /\ (at < t => FloorBucket(at) + Bucket <= t)
      BY <1>1, BucketOrder
    <2> QED BY <1>1, <2>1
  <1> HIDE DEF at
  <1>4. CASE kind \in Bucketed
    BY <1>1, <1>2, <1>3, <1>4 DEF Early, End, Level, at
  <1>5. CASE kind \notin Bucketed
    BY <1>1, <1>5 DEF Early, End, Level
  <1> QED BY <1>4, <1>5

\* The rows a collector reads of a window are those it is to account for.
LEMMA WindowRows ==
  ASSUME Given, NEW r \in world, NEW from \in Nat, NEW to \in Nat
  PROVE  /\ kind \notin Bucketed => (from <= r.at /\ r.at < to <=> InWindow(r, from, to))
         /\ kind \in Bucketed /\ Aligned(to) =>
              (CeilBucket(from) <= r.at /\ r.at < to <=> InWindow(r, from, to))
  <1>1. /\ r.at \in Nat /\ Early(r) \in Nat /\ End(r) \in Nat /\ Early(r) <= r.at /\ r.at < End(r)
        /\ (Level(to) => to <= Early(r) \/ End(r) <= to)
    BY RowTimes
  <1>2. ASSUME kind \notin Bucketed PROVE from <= r.at /\ r.at < to <=> InWindow(r, from, to)
    <2>1. Early(r) = r.at /\ End(r) = r.at + 1
      BY <1>2 DEF Early, End
    <2> QED BY <1>1, <2>1 DEF InWindow
  <1>3. ASSUME kind \in Bucketed, Aligned(to)
        PROVE  CeilBucket(from) <= r.at /\ r.at < to <=> InWindow(r, from, to)
    <2>1. from <= FloorBucket(r.at) <=> CeilBucket(from) <= r.at
      BY <1>1, CeilFacts
    <2>2. Early(r) = FloorBucket(r.at)
      BY <1>3 DEF Early
    <2>3. to <= Early(r) \/ End(r) <= to
      BY <1>1, <1>3 DEF Level
    <2> QED BY <1>1, <2>1, <2>2, <2>3 DEF InWindow
  <1> QED BY <1>2, <1>3

\* What the poll is configured with.
LEMMA RequestFacts ==
  ASSUME Given, NEW q \in Requests
  PROVE  /\ \A z \in config.discovered : Readable(q, z)
         /\ q.s \in Settings /\ config.discovered \subseteq DOMAIN q.s
         /\ \A z \in config.discovered : q.s[z] \in
              [read : BOOLEAN, enabled : BOOLEAN, fallback : BOOLEAN, fields : Nat, page : Nat,
               span : Nat, retention : Nat, offered : SUBSET STRING]
         /\ config.discovered \in SUBSET Nat /\ IsFiniteSet(config.discovered)
  <1>1. q.s \in Settings
    BY DEF Requests
  <1>2. /\ config.discovered \subseteq DOMAIN q.s
        /\ \A z \in config.discovered : q.s[z] \in
              [read : BOOLEAN, enabled : BOOLEAN, fallback : BOOLEAN, fields : Nat, page : Nat,
               span : Nat, retention : Nat, offered : SUBSET STRING]
    BY <1>1, SettingsAssumption DEF Given
  <1>3. config.discovered \in SUBSET Nat /\ IsFiniteSet(config.discovered)
    BY SettingsAssumption DEF Given
  <1>4. \A z \in config.discovered : Readable(q, z)
    BY <1>2 DEF Readable
  <1> QED BY <1>1, <1>2, <1>3, <1>4

LEMMA AskedFacts ==
  ASSUME Given
  PROVE  Asked \in SUBSET config.discovered
  BY DEF Asked, Owned, Included

\* A window refused or failed reports nothing, and names a floor or stays.
LEMMA RefusePromise ==
  ASSUME NEW from
  PROVE  Promise(Refuse(from), from)
  BY DEF Refuse, Promise

LEMMA FailurePromise ==
  ASSUME NEW from, NEW answer, IsGap(answer) => answer.floor \in Int, kind \notin DNSKinds
  PROVE  Promise(Failure(from, answer), from)
  BY DEF Failure, Refuse, Promise

\* What the zones of a window hold together.
LEMMA MergedRows ==
  ASSUME now \in Nat, NEW zones \in SUBSET Nat, NEW answers, DOMAIN answers = zones, NEW a, NEW b,
         \A z \in zones : Exact(answers[z], z, a, b)
  PROVE  /\ Merged(answers).ok =>
              Merged(answers).rows = RowsOver(zones, a, b)
         /\ IsGap(Merged(answers)) => Merged(answers).floor \in Int
  <1>1. \A z \in zones : IsGap(answers[z]) => answers[z].floor \in Int /\ answers[z].floor <= now
    BY DEF Exact
  <1>2. /\ Merged(answers).ok =>
              (\A z \in zones : answers[z].ok) /\ Merged(answers).rows = UNION {answers[z].rows : z \in zones}
        /\ IsGap(Merged(answers)) => Merged(answers).floor \in Int
    BY <1>1, MergedExact
  <1>3. ASSUME \A z \in zones : answers[z].ok
        PROVE  UNION {answers[z].rows : z \in zones} = RowsOver(zones, a, b)
    <2>1. \A z \in zones : answers[z].rows = RowsIn(z, a, b)
      BY <1>3 DEF Exact
    <2>2. \A r : (\E z \in zones : r \in RowsIn(z, a, b))
                  <=> r \in world /\ r.zone \in zones /\ a <= r.at /\ r.at < b
      BY DEF RowsIn
    <2>3. \A r : r \in UNION {answers[z].rows : z \in zones} <=> \E z \in zones : r \in RowsIn(z, a, b)
      BY <2>1
    <2> QED BY <2>2, <2>3 DEF RowsOver
  <1> QED BY <1>2, <1>3

-----------------------------------------------------------------------------
(* The gauges of a poll. *)

\* Every discovered zone is filtered, processed or skipped (ZonePoll.Finish).
LEMMA PollAddsUp ==
  ASSUME Given, NEW choice, choice.eligible \in SUBSET config.discovered,
         NEW processed \in SUBSET SelectZones(choice).zones, NEW skipped
  PROVE  AddsUp(Finish(choice, processed, skipped))
  <1> DEFINE all == config.discovered
             eligible == choice.eligible
             refused == all \ eligible
             foreign == IF choice.byAccount THEN refused \cap Foreign ELSE {}
             zones == eligible \ config.exclude
             out == eligible \cap config.exclude
  <1>1. IsFiniteSet(all)
    BY SettingsAssumption DEF Given
  <1>2. /\ Cardinality(all) = Cardinality(eligible) + Cardinality(refused)
        /\ IsFiniteSet(eligible) /\ IsFiniteSet(refused)
    BY <1>1, Divided
  <1>3. Cardinality(refused) = Cardinality(foreign) + Cardinality(refused \ foreign)
        /\ Cardinality(foreign) \in Nat /\ Cardinality(refused \ foreign) \in Nat
    <2>1. foreign \in SUBSET refused
      OBVIOUS
    <2> HIDE DEF refused, foreign
    <2> QED BY <1>2, <2>1, Divided
  <1>4. /\ Cardinality(eligible) = Cardinality(out) + Cardinality(eligible \ out)
        /\ IsFiniteSet(eligible \ out) /\ Cardinality(out) \in Nat
    <2>1. out \in SUBSET eligible
      OBVIOUS
    <2> HIDE DEF out
    <2> QED BY <1>2, <2>1, Divided
  <1>5. zones = eligible \ out
    OBVIOUS
  <1>6. /\ Cardinality(zones) = Cardinality(processed) + Cardinality(zones \ processed)
        /\ Cardinality(processed) \in Nat /\ Cardinality(zones \ processed) \in Nat
    <2>1. processed \in SUBSET zones
      BY DEF SelectZones
    <2>2. IsFiniteSet(zones)
      BY <1>4, <1>5, Zenon
    <2> HIDE DEF zones
    <2> QED BY <2>1, <2>2, Divided
  <1>7. Cardinality(eligible) = Cardinality(out) + Cardinality(zones)
    BY <1>4, <1>5, Zenon
  <1> DEFINE poll == Finish(choice, processed, skipped)
  <1>8. /\ poll.discovered = Cardinality(all)
        /\ poll.filtered.include = Cardinality(refused \ foreign)
        /\ poll.filtered.no_account = Cardinality(foreign)
        /\ poll.filtered.exclude = Cardinality(out)
        /\ poll.processed = Cardinality(processed)
        /\ poll.skipped = Cardinality(zones \ processed)
    BY DEF Finish, SelectZones
  <1> HIDE DEF all, eligible, refused, foreign, zones, out, poll
  <1>9. AddsUp(poll)
    BY <1>2, <1>3, <1>4, <1>6, <1>7, <1>8 DEF AddsUp
  <1> QED BY <1>9 DEF poll

LEMMA NotPolledAddsUp ==
  AddsUp(NotPolled)
  BY DEF NotPolled, AddsUp

-----------------------------------------------------------------------------
(* The windows of every collector. *)

\* A window that delivers every zone as a whole.
LEMMA WholeWindow ==
  ASSUME Given, NEW from \in Nat, NEW to \in Nat, from < to, Level(to),
         NEW w, w.mark = to, w.gaps = {}, w.skipped = {}, w.floor = None, AddsUp(w.poll), Apart(w.points),
         \A p \in w.points : \A r \in p.rows : r \in world /\ r.zone \in Asked /\ InWindow(r, from, to),
         \A r \in RowsOf(w.points, Required) : IsEvent(r),
         \A r \in world : r.zone \in Asked /\ IsEvent(r) /\ InWindow(r, from, to) =>
           r \in RowsOf(w.points, Required)
  PROVE  Promise(w, from)
  BY DEF Promise, Sound, LeftOut

\* A window delivered whole.
LEMMA DeliverFields ==
  ASSUME NEW to, NEW points, NEW poll
  PROVE  LET w == Deliver(to, points, poll)
         IN  /\ w.mark = to /\ w.gaps = {} /\ w.skipped = {} /\ w.floor = None
             /\ w.points = points /\ w.poll = poll /\ w.admitted = admitted
  BY DEF Deliver, Refuse

\* The originals of events with a ray.
LEMMA Originals ==
  ASSUME Given, NEW rows, NEW zones, NEW a, NEW b,
         rows = RowsOver(zones, a, b), NEW r \in rows
  PROVE  /\ r \in world /\ r.copy \in Nat /\ r.zone \in Nat
         /\ r.ray # Blank =>
              /\ \E o \in rows : o.ray = r.ray /\ o.at = r.at /\ o.zone = r.zone /\ o.host = r.host /\ o.copy = 0
              /\ \A o \in rows : o.ray = r.ray /\ o.at = r.at => o.zone = r.zone /\ o.copy \in Nat
  <1>1. r \in world /\ r.zone \in zones /\ a <= r.at /\ r.at < b
    BY DEF RowsOver
  <1>2. world \in Worlds
    BY DEF Given
  <1>3. r.copy \in Nat /\ r.zone \in Nat
    BY <1>1, <1>2, EventAssumption
  <1>4. ASSUME r.ray # Blank
        PROVE  \E o \in rows : o.ray = r.ray /\ o.at = r.at /\ o.zone = r.zone /\ o.host = r.host /\ o.copy = 0
    <2>1. PICK o \in world : o.ray = r.ray /\ o.at = r.at /\ o.zone = r.zone /\ o.host = r.host /\ o.copy = 0
      BY <1>1, <1>2, <1>4, EventAssumption
    <2>2. o \in rows
      BY <1>1, <2>1 DEF RowsOver
    <2> QED BY <2>1, <2>2
  <1>5. ASSUME r.ray # Blank, NEW o \in rows, o.ray = r.ray, o.at = r.at PROVE o.zone = r.zone /\ o.copy \in Nat
    <2>1. o \in world
      BY DEF RowsOver
    <2> QED BY <1>1, <1>2, <1>5, <2>1, EventAssumption
  <1> QED BY <1>1, <1>3, <1>4, <1>5

\* HTTP request events, by zone and span.
LEMMA EventsPromise ==
  ASSUME Given, kind = "httpreq.events", NEW from \in Nat, NEW to \in Nat, from < to, NEW q \in Requests
  PROVE  Promise(EventsWindow(from, to, q), from)
  <1> DEFINE zones == SelectZones(EventZones).zones
             answers == [z \in zones |-> Checked(z, EventRows(z, from, to, q), q)]
             all == Merged(answers)
             kept == FirstOf(InScope(all.rows))
             w == Deliver(to, Points("log", kept, ByHost), Finish(EventZones, zones, {}))
  <1>1. zones = Asked /\ EventZones.eligible \in SUBSET config.discovered
    BY DEF SelectZones, EventZones, Choice, Asked, Included
  <1>2. zones \in SUBSET config.discovered /\ zones \in SUBSET Nat /\ \A z \in zones : Readable(q, z)
    BY <1>1, AskedFacts, RequestFacts
  <1>3. \A z \in zones : Exact(answers[z], z, from, to)
    <2>1. ASSUME NEW z \in zones PROVE Exact(Checked(z, EventRows(z, from, to, q), q), z, from, to)
      <3>1. Readable(q, z)
        BY <1>2
      <3>2. Exact(EventRows(z, from, to, q), z, from, to)
        BY <3>1, HalvedExact DEF EventRows, Given
      <3> QED BY <3>2, CheckedExact
    <2> HIDE DEF zones
    <2> QED BY <2>1
  <1>4. /\ all.ok => all.rows = RowsOver(zones, from, to)
        /\ IsGap(all) => all.floor \in Int
    <2>1. DOMAIN answers = zones
      OBVIOUS
    <2> HIDE DEF answers, zones
    <2> QED BY <1>2, <1>3, <2>1, MergedRows DEF Given
  <1>5. EventsWindow(from, to, q) =
          IF ~q.listed THEN Refuse(from) ELSE IF ~all.ok THEN Failure(from, all) ELSE w
    BY DEF EventsWindow
  <1>6. AddsUp(Finish(EventZones, zones, {}))
    <2>1. zones \in SUBSET SelectZones(EventZones).zones
      OBVIOUS
    <2> HIDE DEF zones
    <2> QED BY <1>1, <2>1, PollAddsUp
  <1>7. kind \notin Bucketed /\ kind \notin DNSKinds /\ Required = "log"
    BY DEF Bucketed, DNSKinds, Required
  <1> HIDE DEF answers, zones
  <1>8. ASSUME all.ok PROVE Promise(w, from)
    <2>1. \A r \in all.rows : r \in world /\ r.zone \in Asked /\ InWindow(r, from, to)
      BY <1>1, <1>4, <1>7, <1>8, WindowRows DEF RowsOver
    <2>2. \A r \in kept : r \in all.rows /\ r.host \in config.hosts
      BY DEF FirstOf, InScope
    <2>3. ASSUME NEW r \in kept PROVE IsEvent(r)
      <3>1. ASSUME r.ray # Blank PROVE r.copy = 0
        <4>1. r \in all.rows /\ r.host \in config.hosts
          BY <2>2
        <4>2. PICK o \in all.rows : o.ray = r.ray /\ o.at = r.at /\ o.zone = r.zone /\ o.host = r.host /\ o.copy = 0
          BY <1>4, <1>8, <3>1, <4>1, Originals
        <4>3. r.copy \in Nat
          BY <1>4, <1>8, <4>1, Originals
        <4>4. o \in InScope(all.rows) /\ RayKey(o) = RayKey(r)
          BY <4>1, <4>2 DEF InScope, RayKey
        <4>5. ~(o.copy < r.copy)
          BY <2>3, <3>1, <4>4 DEF FirstOf
        <4> QED BY <4>2, <4>3, <4>5
      <3> QED BY <2>2, <3>1 DEF IsEvent
    <2>4. ASSUME NEW r \in world, r.zone \in Asked, IsEvent(r), InWindow(r, from, to) PROVE r \in kept
      <3>1. r \in all.rows
        BY <1>1, <1>4, <1>7, <1>8, <2>4, WindowRows DEF RowsOver
      <3>2. (r.ray = Blank \/ r.copy = 0) /\ r.host \in config.hosts
        BY <2>4 DEF IsEvent
      <3>3. ASSUME r.ray # Blank, NEW o \in InScope(all.rows), RayKey(o) = RayKey(r) PROVE ~(o.copy < r.copy)
        <4>1. o \in all.rows /\ o.ray = r.ray /\ o.at = r.at
          BY <3>3 DEF InScope, RayKey
        <4>2. o.copy \in Nat
          BY <1>4, <1>8, <3>1, <3>3, <4>1, Originals
        <4> QED BY <3>2, <3>3, <4>2
      <3> QED BY <3>1, <3>2, <3>3 DEF FirstOf, InScope
    <2> HIDE DEF all, kept
    <2>5. /\ w.mark = to /\ w.gaps = {} /\ w.skipped = {} /\ w.floor = None
          /\ w.points = Points("log", kept, ByHost) /\ w.poll = Finish(EventZones, zones, {})
      BY DeliverFields
    <2>6. RowsOf(w.points, Required) = kept
      BY <1>7, <2>5, RowsOfPoints
    <2>7. Apart(w.points) /\ \A p \in w.points : p.rows \subseteq kept
      BY <2>5, PointsOf
    <2>8. Level(to)
      BY <1>7 DEF Level
    <2> HIDE DEF w
    <2> QED BY <1>6, <2>1, <2>2, <2>3, <2>4, <2>5, <2>6, <2>7, <2>8, WholeWindow
  <1> HIDE DEF all, w
  <1> QED BY <1>4, <1>5, <1>7, <1>8, RefusePromise, FailurePromise

\* A series that adds up all the rows of the zones.
LEMMA ThreatsPromise ==
  ASSUME Given, kind = "httpreq.threats", NEW from \in Nat, NEW to \in Nat, from < to, NEW q \in Requests
  PROVE  Promise(ThreatsWindow(from, to, q), from)
  <1> DEFINE lo == CeilBucket(from)
             hi == FloorBucket(to)
             zones == SelectZones(MetricZones).zones
             answers == [z \in zones |-> Checked(z, KpiRows(z, lo, hi, q), q)]
             all == Merged(answers)
             idle == Deliver(lo, {}, NotPolled)
             w == Deliver(hi, Points("requests", all.rows, ByZone), Finish(MetricZones, zones, {}))
  <1>1. zones = Asked /\ MetricZones.eligible \in SUBSET config.discovered
    BY DEF SelectZones, MetricZones, Choice, Asked, Included, Owned
  <1>2. zones \in SUBSET config.discovered /\ zones \in SUBSET Nat /\ \A z \in zones : Readable(q, z)
    BY <1>1, AskedFacts, RequestFacts
  <1>3. \A z \in zones : Exact(answers[z], z, lo, hi)
    <2>1. ASSUME NEW z \in zones PROVE Exact(Checked(z, KpiRows(z, lo, hi, q), q), z, lo, hi)
      <3> HIDE DEF lo, hi
      <3>1. Exact(KpiRows(z, lo, hi, q), z, lo, hi)
        BY <1>2, KpiRowsExact DEF Given
      <3> QED BY <3>1, CheckedExact
    <2> HIDE DEF zones, lo, hi
    <2> QED BY <2>1
  <1>4. /\ all.ok => all.rows = RowsOver(zones, lo, hi)
        /\ IsGap(all) => all.floor \in Int
    <2>1. DOMAIN answers = zones
      OBVIOUS
    <2> HIDE DEF answers, zones, lo, hi
    <2> QED BY <1>2, <1>3, <2>1, MergedRows DEF Given
  <1>5. \/ ThreatsWindow(from, to, q) = Refuse(from)
        \/ ThreatsWindow(from, to, q) = Failure(from, all)
        \/ ThreatsWindow(from, to, q) = idle /\ from < lo
        \/ ThreatsWindow(from, to, q) = w /\ lo < hi /\ all.ok
    <2>1. lo \in Nat /\ hi \in Nat
      BY CeilFacts, BucketFacts
    <2> HIDE DEF idle, w, lo, hi, all
    <2> QED BY <2>1 DEF ThreatsWindow, idle, w, lo, hi, all
  <1>6. AddsUp(Finish(MetricZones, zones, {}))
    <2>1. zones \in SUBSET SelectZones(MetricZones).zones
      OBVIOUS
    <2> HIDE DEF zones
    <2> QED BY <1>1, <2>1, PollAddsUp
  <1>7. kind \in Bucketed /\ kind \notin DNSKinds /\ Required = "requests"
    BY DEF Bucketed, DNSKinds, Required
  <1>8. lo \in Nat /\ from <= lo /\ hi \in Nat /\ Level(lo) /\ Level(hi) /\ Aligned(lo) /\ Aligned(hi)
    BY CeilFacts, BucketFacts DEF Level
  <1>9. \A r : IsEvent(r)
    BY DEF IsEvent
  <1>10. \A r \in world : /\ lo <= r.at /\ r.at < lo <=> InWindow(r, from, lo)
                          /\ lo <= r.at /\ r.at < hi <=> InWindow(r, from, hi)
    <2> HIDE DEF hi
    <2>1. \A r \in world : lo <= r.at /\ r.at < hi <=> InWindow(r, from, hi)
      BY <1>7, <1>8, WindowRows
    <2> DEFINE end == lo
    <2>2. end \in Nat /\ Aligned(end) /\ end = lo
      BY <1>8
    <2> HIDE DEF end
    <2>3. \A r \in world : lo <= r.at /\ r.at < end <=> InWindow(r, from, end)
      BY <1>7, <2>2, WindowRows
    <2> QED BY <2>1, <2>2, <2>3
  <1> HIDE DEF answers, zones, lo, hi
  <1>11. ASSUME from < lo PROVE Promise(idle, from)
    <2>1. /\ idle.mark = lo /\ idle.gaps = {} /\ idle.skipped = {} /\ idle.floor = None
          /\ idle.points = {} /\ idle.poll = NotPolled
      BY DeliverFields
    <2>2. \A r \in world : ~InWindow(r, from, lo)
      <3>1. \A r \in world : r.at \in Nat
        BY RowTimes
      <3> QED BY <1>8, <1>10, <3>1
    <2>3. RowsOf(idle.points, Required) = {} /\ Apart(idle.points)
      BY <2>1 DEF RowsOf, Apart
    <2> HIDE DEF idle
    <2> QED BY <1>8, <1>11, <2>1, <2>2, <2>3, WholeWindow, NotPolledAddsUp
  <1>12. ASSUME lo < hi, all.ok PROVE Promise(w, from)
    <2>1. all.rows = {r \in world : r.zone \in Asked /\ InWindow(r, from, hi)}
      BY <1>1, <1>4, <1>10, <1>12 DEF RowsOver
    <2> HIDE DEF all
    <2>2. /\ w.mark = hi /\ w.gaps = {} /\ w.skipped = {} /\ w.floor = None
          /\ w.points = Points("requests", all.rows, ByZone) /\ w.poll = Finish(MetricZones, zones, {})
      BY DeliverFields
    <2>3. RowsOf(w.points, Required) = all.rows
      BY <1>7, <2>2, RowsOfPoints
    <2>4. Apart(w.points) /\ \A p \in w.points : p.rows \subseteq all.rows
      BY <2>2, PointsOf
    <2>5. from < hi
      BY <1>8, <1>12
    <2> HIDE DEF w
    <2>6. /\ \A p \in w.points : \A r \in p.rows : r \in world /\ r.zone \in Asked /\ InWindow(r, from, hi)
          /\ \A r \in world : r.zone \in Asked /\ IsEvent(r) /\ InWindow(r, from, hi) =>
               r \in RowsOf(w.points, Required)
      BY <2>1, <2>3, <2>4
    <2> QED BY <1>6, <1>8, <1>9, <2>2, <2>4, <2>5, <2>6, WholeWindow
  <1> HIDE DEF all, w, idle
  <1> QED BY <1>4, <1>5, <1>7, <1>11, <1>12, RefusePromise, FailurePromise

\* Firewall events, by zone and halves.
LEMMA FirewallEventsPromise ==
  ASSUME Given, kind = "firewall.events", NEW from \in Nat, NEW to \in Nat, from < to, NEW q \in Requests
  PROVE  Promise(FirewallEventsWindow(from, to, q), from)
  <1> DEFINE zones == SelectZones(FirewallZones).zones
             answers == [z \in zones |-> Checked(z, Halved(z, from, to, q, Itself), q)]
             all == Merged(answers)
             kept == FirewallFirst(all.rows)
             w == Deliver(to, Points("log", kept, ByHost), Finish(FirewallZones, zones, {}))
  <1>1. zones = Asked /\ FirewallZones.eligible \in SUBSET config.discovered
    BY DEF SelectZones, FirewallZones, Choice, Asked, Included
  <1>2. zones \in SUBSET config.discovered /\ zones \in SUBSET Nat /\ \A z \in zones : Readable(q, z)
    BY <1>1, AskedFacts, RequestFacts
  <1>3. \A z \in zones : Exact(answers[z], z, from, to)
    <2>1. ASSUME NEW z \in zones PROVE Exact(Checked(z, Halved(z, from, to, q, Itself), q), z, from, to)
      <3>1. Readable(q, z)
        BY <1>2
      <3>2. Exact(Halved(z, from, to, q, Itself), z, from, to)
        BY <3>1, HalvedExact DEF Given
      <3> QED BY <3>2, CheckedExact
    <2> HIDE DEF zones
    <2> QED BY <2>1
  <1>4. /\ all.ok => all.rows = RowsOver(zones, from, to)
        /\ IsGap(all) => all.floor \in Int
    <2>1. DOMAIN answers = zones
      OBVIOUS
    <2> HIDE DEF answers, zones
    <2> QED BY <1>2, <1>3, <2>1, MergedRows DEF Given
  <1>5. \/ FirewallEventsWindow(from, to, q) = Refuse(from)
        \/ FirewallEventsWindow(from, to, q) = Failure(from, all)
        \/ FirewallEventsWindow(from, to, q) = w /\ all.ok
    BY DEF FirewallEventsWindow
  <1>6. AddsUp(Finish(FirewallZones, zones, {}))
    <2>1. zones \in SUBSET SelectZones(FirewallZones).zones
      OBVIOUS
    <2> HIDE DEF zones
    <2> QED BY <1>1, <2>1, PollAddsUp
  <1>7. kind \notin Bucketed /\ kind \notin DNSKinds /\ Required = "log"
    BY DEF Bucketed, DNSKinds, Required
  <1> HIDE DEF answers, zones
  <1>8. ASSUME all.ok PROVE Promise(w, from)
    <2>1. \A r \in all.rows : r \in world /\ r.zone \in Asked /\ InWindow(r, from, to)
      BY <1>1, <1>4, <1>7, <1>8, WindowRows DEF RowsOver
    <2>2. kept \subseteq all.rows
      BY DEF FirewallFirst
    <2>3. ASSUME NEW r \in kept PROVE IsEvent(r)
      <3>1. ASSUME r.ray # Blank PROVE r.copy = 0
        <4>1. r \in all.rows
          BY <2>2
        <4>2. PICK o \in all.rows : o.ray = r.ray /\ o.at = r.at /\ o.zone = r.zone /\ o.host = r.host /\ o.copy = 0
          BY <1>4, <1>8, <3>1, <4>1, Originals
        <4>3. r.copy \in Nat
          BY <1>4, <1>8, <4>1, Originals
        <4>4. ~(o.copy < r.copy)
          BY <2>3, <3>1, <4>2 DEF FirewallFirst
        <4> QED BY <4>2, <4>3, <4>4
      <3> QED BY <3>1 DEF IsEvent
    <2>4. ASSUME NEW r \in world, r.zone \in Asked, IsEvent(r), InWindow(r, from, to) PROVE r \in kept
      <3>1. r \in all.rows
        BY <1>1, <1>4, <1>7, <1>8, <2>4, WindowRows DEF RowsOver
      <3>2. r.ray = Blank \/ r.copy = 0
        BY <2>4 DEF IsEvent
      <3>3. ASSUME r.ray # Blank, NEW o \in all.rows, o.ray = r.ray, o.at = r.at
            PROVE  ~(o.zone < r.zone) /\ ~(o.copy < r.copy)
        <4>1. o.copy \in Nat /\ o.zone = r.zone /\ r.zone \in Nat
          BY <1>4, <1>8, <3>1, <3>3, Originals
        <4> QED BY <3>2, <3>3, <4>1
      <3> QED BY <3>1, <3>3 DEF FirewallFirst
    <2> HIDE DEF all, kept
    <2>5. /\ w.mark = to /\ w.gaps = {} /\ w.skipped = {} /\ w.floor = None
          /\ w.points = Points("log", kept, ByHost) /\ w.poll = Finish(FirewallZones, zones, {})
      BY DeliverFields
    <2>6. RowsOf(w.points, Required) = kept
      BY <1>7, <2>5, RowsOfPoints
    <2>7. Apart(w.points) /\ \A p \in w.points : p.rows \subseteq kept
      BY <2>5, PointsOf
    <2>8. Level(to)
      BY <1>7 DEF Level
    <2> HIDE DEF w
    <2> QED BY <1>6, <2>1, <2>2, <2>3, <2>4, <2>5, <2>6, <2>7, <2>8, WholeWindow
  <1> HIDE DEF all, w
  <1> QED BY <1>4, <1>5, <1>7, <1>8, RefusePromise, FailurePromise

\* Email events, by zone and halves.
LEMMA EmailPromise ==
  ASSUME Given, kind = "email", NEW from \in Nat, NEW to \in Nat, from < to, NEW q \in Requests
  PROVE  Promise(EmailWindow(from, to, q), from)
  <1> DEFINE lo == CeilBucket(from)
             hi == FloorBucket(to)
             zones == SelectZones(AccountZones).zones
             enabled == {z \in zones : q.s[z].enabled}
             answers == [z \in enabled |-> Checked(z, CompleteBuckets(z, lo, hi, q), q)]
             all == Merged(answers)
             idle == Deliver(hi, {}, Finish(AccountZones, {}, {}))
             points == Points("requests", all.rows, [r \in world |-> Other])
             w == [Deliver(hi, points, Finish(AccountZones, enabled, zones \ enabled))
                   EXCEPT !.skipped = zones \ enabled]
  <1>1. zones = Asked /\ AccountZones.eligible \in SUBSET config.discovered
    BY DEF SelectZones, AccountZones, Choice, Asked, Included, Owned
  <1>2. /\ zones \in SUBSET config.discovered /\ enabled \in SUBSET Nat /\ enabled \in SUBSET zones
        /\ \A z \in zones : Readable(q, z)
    BY <1>1, AskedFacts, RequestFacts
  <1>3. lo \in Nat /\ from <= lo /\ hi \in Nat /\ Level(hi) /\ Aligned(hi)
    BY CeilFacts, BucketFacts DEF Level
  <1>4. \A z \in enabled : Exact(answers[z], z, lo, hi)
    <2>1. ASSUME NEW z \in enabled PROVE Exact(Checked(z, CompleteBuckets(z, lo, hi, q), q), z, lo, hi)
      <3> HIDE DEF lo, hi
      <3>1. Exact(CompleteBuckets(z, lo, hi, q), z, lo, hi)
        BY <1>2, <1>3, CompleteBucketsExact DEF Given
      <3> QED BY <3>1, CheckedExact
    <2> HIDE DEF enabled, lo, hi
    <2> QED BY <2>1
  <1>5. all.ok => all.rows = RowsOver(enabled, lo, hi)
    <2>1. DOMAIN answers = enabled
      OBVIOUS
    <2> HIDE DEF answers, enabled, lo, hi
    <2> QED BY <1>2, <1>4, <2>1, MergedRows DEF Given
  <1>6. \/ EmailWindow(from, to, q) = Refuse(from)
        \/ EmailWindow(from, to, q) = idle /\ lo < hi /\ zones = {}
        \/ EmailWindow(from, to, q) = w /\ lo < hi /\ all.ok
    <2> HIDE DEF idle, w, lo, hi, all
    <2> QED BY <1>3 DEF EmailWindow, idle, w, lo, hi, all
  <1>7. AddsUp(Finish(AccountZones, enabled, zones \ enabled)) /\ AddsUp(Finish(AccountZones, {}, {}))
    <2>1. enabled \in SUBSET SelectZones(AccountZones).zones
      OBVIOUS
    <2>2. AddsUp(Finish(AccountZones, {}, {}))
      <3> DEFINE none == {}
      <3>1. none \in SUBSET SelectZones(AccountZones).zones
        OBVIOUS
      <3> HIDE DEF none
      <3>2. \A other : AddsUp(Finish(AccountZones, none, other))
        BY <1>1, <3>1, PollAddsUp
      <3> QED BY <3>2 DEF none
    <2> HIDE DEF enabled
    <2>3. \A other : AddsUp(Finish(AccountZones, enabled, other))
      BY <1>1, <2>1, PollAddsUp
    <2> QED BY <2>2, <2>3
  <1>8. kind \in Bucketed /\ kind \notin DNSKinds /\ Required = "requests"
    BY DEF Bucketed, DNSKinds, Required
  <1>9. \A r : IsEvent(r)
    BY DEF IsEvent
  <1>10. \A r \in world : lo <= r.at /\ r.at < hi <=> InWindow(r, from, hi)
    <2> HIDE DEF hi
    <2> QED BY <1>3, <1>8, WindowRows
  <1> HIDE DEF answers, zones, enabled, lo, hi
  <1>11. ASSUME lo < hi, zones = {} PROVE Promise(idle, from)
    <2>1. /\ idle.mark = hi /\ idle.gaps = {} /\ idle.skipped = {} /\ idle.floor = None
          /\ idle.points = {} /\ idle.poll = Finish(AccountZones, {}, {})
      BY DeliverFields
    <2>2. Asked = {} /\ from < hi
      BY <1>1, <1>3, <1>11
    <2>3. RowsOf(idle.points, Required) = {} /\ Apart(idle.points)
      BY <2>1 DEF RowsOf, Apart
    <2> HIDE DEF idle
    <2> QED BY <1>3, <1>7, <2>1, <2>2, <2>3, WholeWindow
  <1>12. ASSUME lo < hi, all.ok PROVE Promise(w, from)
    <2>1. all.rows = {r \in world : r.zone \in enabled /\ InWindow(r, from, hi)}
      BY <1>5, <1>10, <1>12 DEF RowsOver
    <2> HIDE DEF all
    <2>2. RowsOf(points, "requests") = all.rows /\ Apart(points) /\ \A p \in points : p.rows \subseteq all.rows
      BY RowsOfPoints, PointsOf
    <2> HIDE DEF points
    <2>3. /\ w.mark = hi /\ w.gaps = {} /\ w.skipped = zones \ enabled /\ w.floor = None
          /\ w.points = points /\ w.poll = Finish(AccountZones, enabled, zones \ enabled)
      BY DEF Deliver, Refuse
    <2>4. from < hi
      BY <1>3, <1>12
    <2> HIDE DEF w
    <2>5. /\ \A p \in w.points : \A r \in p.rows : r \in world /\ r.zone \in Asked /\ InWindow(r, from, hi)
          /\ \A r \in world : r.zone \in Asked /\ IsEvent(r) /\ InWindow(r, from, hi) =>
               (r \in RowsOf(w.points, Required) <=> ~LeftOut(w, r))
      BY <1>1, <1>2, <1>8, <2>1, <2>2, <2>3 DEF LeftOut
    <2> QED BY <1>3, <1>7, <1>8, <1>9, <2>2, <2>3, <2>4, <2>5 DEF Promise, Sound
  <1> HIDE DEF all, w, idle
  <1> QED BY <1>6, <1>11, <1>12, RefusePromise

\* A remainder for the last series keeps the rows of all of them.
LEMMA BoundedPoints ==
  ASSUME NEW rows, NEW series
  PROVE  LET points == Bounded(Points("requests", rows, series))
         IN  /\ Apart(points)
             /\ \A p \in points : p.metric = "requests" /\ p.rows \subseteq rows
             /\ \A r \in rows : \E p \in points : r \in p.rows
  <1> DEFINE points == Points("requests", rows, series)
             place(p) == Cardinality({o \in points : o.series < p.series})
             cut == IF Cardinality(points) <= FirewallLimit THEN {}
                    ELSE {p \in points : place(p) >= FirewallLimit - 1}
             rest == Point("requests", Other, UNION {p.rows : p \in cut})
  <1>1. cut \subseteq points
    OBVIOUS
  <1>2. Bounded(points) = (points \ cut) \cup (IF cut = {} THEN {} ELSE {rest})
    BY DEF Bounded
  <1>3. rest.metric = "requests" /\ rest.rows = UNION {p.rows : p \in cut}
    BY DEF Point
  <1>4. /\ \A p \in points : p.metric = "requests" /\ p.rows \subseteq rows
        /\ \A r \in rows : \E p \in points : r \in p.rows
        /\ Apart(points)
    BY PointsOf
  <1> HIDE DEF points, cut, rest
  <1>5. \A p \in Bounded(points) : p.metric = "requests" /\ p.rows \subseteq rows
    BY <1>1, <1>2, <1>3, <1>4
  <1>6. \A r \in rows : \E p \in Bounded(points) : r \in p.rows
    BY <1>1, <1>2, <1>3, <1>4
  <1>7. Apart(Bounded(points))
    <2>1. ASSUME NEW p \in points \ cut PROVE p.rows \cap rest.rows = {}
      BY <1>1, <1>3, <1>4 DEF Apart
    <2>2. \A p1, p2 \in points : p1.rows \cap p2.rows # {} => p1 = p2
      BY <1>4 DEF Apart
    <2> QED BY <1>2, <2>1, <2>2 DEF Apart
  <1> QED BY <1>5, <1>6, <1>7 DEF points

\* Firewall metrics, whose sources are admitted until SourceLimit.
LEMMA FirewallMetricsPromise ==
  ASSUME Given, kind = "firewall.metrics", NEW from \in Nat, NEW to \in Nat, from < to, NEW q \in Requests
  PROVE  /\ Promise(FirewallMetricsWindow(from, to, q), from)
         /\ \/ FirewallMetricsWindow(from, to, q).admitted = admitted
            \/ \E rows \in SUBSET world :
                 FirewallMetricsWindow(from, to, q).admitted = AdmitSources({r.label : r \in rows} \ admitted)
  <1> DEFINE zones == SelectZones(FirewallZones).zones
             found == [q EXCEPT !.s = [z \in DOMAIN @ |-> DatasetForZone(@[z])]]
             labelled(z) == "label" \in Chosen(found.s[z], {"value"}, <<"label">>)
             key(z) == [r \in world |-> IF labelled(z) THEN r.label ELSE Blank]
             zoneRows(z) == IF ~Entitled(found.s[z], {"value"}) THEN QueryFailed
                            ELSE Halved(z, from, to, found, key(z))
             answers == [z \in zones |-> Checked(z, zoneRows(z), q)]
             all == Merged(answers)
             admits == {r \in all.rows : labelled(r.zone)}
             sources == AdmitSources({r.label : r \in admits} \ admitted)
             series == [r \in all.rows |-> IF ~labelled(r.zone) THEN ByZone[r]
                                           ELSE IF r.label \in sources THEN ByLabel[r] ELSE ByZone[r] + 99]
             points == Bounded(Points("requests", all.rows, series))
             w == [Deliver(to, points, Finish(FirewallZones, zones, {})) EXCEPT !.admitted = sources]
  <1>1. zones = Asked /\ FirewallZones.eligible \in SUBSET config.discovered
    BY DEF SelectZones, FirewallZones, Choice, Asked, Included
  <1>2. zones \in SUBSET config.discovered /\ zones \in SUBSET Nat
    BY <1>1, AskedFacts, RequestFacts
  <1>3. ASSUME NEW z \in zones PROVE Readable(found, z)
    <2> DEFINE s == q.s
    <2>1. /\ config.discovered \subseteq DOMAIN s
          /\ \A y \in config.discovered : s[y] \in
              [read : BOOLEAN, enabled : BOOLEAN, fallback : BOOLEAN, fields : Nat, page : Nat,
               span : Nat, retention : Nat, offered : SUBSET STRING]
      BY RequestFacts
    <2>2. found.s[z] = DatasetForZone(s[z])
      <3>1. q \in [s : Settings, listed : BOOLEAN, bad : {None} \cup config.discovered]
        BY DEF Requests
      <3>2. config.discovered \subseteq DOMAIN s
        BY <2>1
      <3>3. found.s = [y \in DOMAIN s |-> DatasetForZone(s[y])]
        BY <3>1
      <3> QED BY <1>2, <3>2, <3>3
    <2>3. DatasetForZone(s[z]).span = s[z].span /\ DatasetForZone(s[z]).page = s[z].page
          /\ DatasetForZone(s[z]).retention = s[z].retention
      <3>1. s[z] \in [read : BOOLEAN, enabled : BOOLEAN, fallback : BOOLEAN, fields : Nat, page : Nat,
                      span : Nat, retention : Nat, offered : SUBSET STRING]
        BY <1>2, <2>1
      <3> HIDE DEF s
      <3> QED BY <3>1 DEF DatasetForZone
    <2>4. s[z].span \in Nat /\ s[z].page \in Nat /\ s[z].retention \in Nat
      BY <1>2, <2>1
    <2> HIDE DEF found, s
    <2> QED BY <2>2, <2>3, <2>4 DEF Readable
  <1> HIDE DEF found
  <1>4. \A z \in zones : Exact(answers[z], z, from, to)
    <2>1. ASSUME NEW z \in zones PROVE Exact(zoneRows(z), z, from, to)
      <3> HIDE DEF key
      <3>1. Exact(Halved(z, from, to, found, key(z)), z, from, to)
        BY <1>3, HalvedExact DEF Given
      <3> QED BY <3>1, FailedExact
    <2> HIDE DEF zoneRows
    <2> QED BY <2>1, CheckedExact
  <1>5. /\ all.ok => all.rows = RowsOver(zones, from, to)
        /\ IsGap(all) => all.floor \in Int
    <2>1. DOMAIN answers = zones
      BY SMTT(30)
    <2> HIDE DEF answers, zones
    <2> QED BY <1>2, <1>4, <2>1, MergedRows DEF Given
  <1>6. \/ FirewallMetricsWindow(from, to, q) = Refuse(from)
        \/ FirewallMetricsWindow(from, to, q) = Failure(from, all)
        \/ FirewallMetricsWindow(from, to, q) = w /\ all.ok
    BY DEF FirewallMetricsWindow, found
  <1>7. AddsUp(Finish(FirewallZones, zones, {}))
    <2>1. zones \in SUBSET SelectZones(FirewallZones).zones
      OBVIOUS
    <2> HIDE DEF zones
    <2> QED BY <1>1, <2>1, PollAddsUp
  <1>8. kind \notin Bucketed /\ kind \notin DNSKinds /\ Required = "requests"
    BY DEF Bucketed, DNSKinds, Required
  <1>9. \A r : IsEvent(r)
    BY DEF IsEvent
  <1> HIDE DEF answers, zones, labelled
  <1>10. ASSUME all.ok PROVE Promise(w, from)
    <2>1. all.rows = {r \in world : r.zone \in Asked /\ InWindow(r, from, to)}
      BY <1>1, <1>5, <1>8, <1>10, WindowRows DEF RowsOver
    <2> HIDE DEF all, series, sources
    <2>2. /\ Apart(points)
          /\ \A p \in points : p.metric = "requests" /\ p.rows \subseteq all.rows
          /\ \A r \in all.rows : \E p \in points : r \in p.rows
      BY BoundedPoints
    <2> HIDE DEF points
    <2>3. /\ w.mark = to /\ w.gaps = {} /\ w.skipped = {} /\ w.floor = None
          /\ w.points = points /\ w.poll = Finish(FirewallZones, zones, {})
      BY DEF Deliver, Refuse
    <2> HIDE DEF w
    <2>4. RowsOf(w.points, Required) = all.rows
      BY <1>8, <2>2, <2>3 DEF RowsOf
    <2>5. Level(to)
      BY <1>8 DEF Level
    <2>6. /\ \A p \in w.points : \A r \in p.rows : r \in world /\ r.zone \in Asked /\ InWindow(r, from, to)
          /\ \A r \in world : r.zone \in Asked /\ IsEvent(r) /\ InWindow(r, from, to) =>
               r \in RowsOf(w.points, Required)
      BY <2>1, <2>2, <2>3, <2>4
    <2> QED BY <1>7, <1>9, <2>2, <2>3, <2>5, <2>6, WholeWindow
  <1>11. Promise(FirewallMetricsWindow(from, to, q), from)
    <2> HIDE DEF all, w
    <2> QED BY <1>5, <1>6, <1>8, <1>10, RefusePromise, FailurePromise
  <1>12. all.ok => admits \in SUBSET world
    <2>1. all.ok => \A r \in all.rows : r \in world
      BY <1>5 DEF RowsOver
    <2> HIDE DEF all
    <2> QED BY <2>1
  <1>13. w.admitted = sources /\ Refuse(from).admitted = admitted /\ Failure(from, all).admitted = admitted
    <2> HIDE DEF all, points, sources
    <2> QED BY DEF Deliver, Refuse, Failure
  <1> HIDE DEF all, w, admits
  <1> QED BY <1>6, <1>11, <1>12, <1>13

\* The metrics of one poll of the HTTP groups.
LEMMA MetricPointsOf ==
  ASSUME NEW S, NEW requests \in SUBSET S, NEW details \in SUBSET S, NEW tops \in SUBSET S,
         NEW timings \in SUBSET S, NEW q
  PROVE  LET points == MetricPoints(requests, details, tops, timings, q)
         IN  /\ Apart(points)
             /\ \A p \in points : p.rows \subseteq S
             /\ RowsOf(points, "requests") = requests
  <1> DEFINE visited == {r \in requests : "visits" \in GroupFields(q.s[r.zone])}
             high == {r \in tops : config.topHosts = {} \/ r.host \in config.topHosts}
             large == Largest(InScope(timings))
             topSeries == [r \in high |-> TopSeries(high, r)]
             lateSeries == [r \in world |-> ByZone[r] + r.host]
             a == Points("requests", requests, ByHost)
             b == Points("visits", visited, ByZone)
             c == Points("detail", details, ByLabel)
             d == Points("top", high, topSeries)
             e == Points("latency", large, lateSeries)
  <1>1. MetricPoints(requests, details, tops, timings, q) = a \cup b \cup c \cup d \cup e
    BY DEF MetricPoints
  <1>2. visited \subseteq S /\ high \subseteq S /\ large \subseteq S
    BY DEF Largest, InScope
  <1> HIDE DEF visited, high, large, topSeries, lateSeries
  <1>3. /\ \A p \in a : p.metric = "requests" /\ p.rows \subseteq requests
        /\ \A r \in requests : \E p \in a : r \in p.rows
        /\ \A p \in b : p.metric = "visits" /\ p.rows \subseteq visited
        /\ \A p \in c : p.metric = "detail" /\ p.rows \subseteq details
        /\ \A p \in d : p.metric = "top" /\ p.rows \subseteq high
        /\ \A p \in e : p.metric = "latency" /\ p.rows \subseteq large
        /\ Apart(a) /\ Apart(b) /\ Apart(c) /\ Apart(d) /\ Apart(e)
    BY PointsOf
  <1> DEFINE points == a \cup b \cup c \cup d \cup e
  <1> HIDE DEF a, b, c, d, e
  <1>4. \A p \in points : p.rows \subseteq S
    BY <1>2, <1>3
  <1>5. Apart(points)
    <2>1. ASSUME NEW p1 \in points, NEW p2 \in points, p1.metric = p2.metric, p1.rows \cap p2.rows # {}
          PROVE  p1 = p2
      <3>1. \/ p1 \in a /\ p2 \in a
            \/ p1 \in b /\ p2 \in b
            \/ p1 \in c /\ p2 \in c
            \/ p1 \in d /\ p2 \in d
            \/ p1 \in e /\ p2 \in e
        BY <1>3, <2>1
      <3> QED BY <1>3, <2>1, <3>1 DEF Apart
    <2> HIDE DEF points
    <2> QED BY <2>1 DEF Apart
  <1>6. RowsOf(points, "requests") = requests
    <2>1. \A p \in points : p.metric = "requests" <=> p \in a
      BY <1>3
    <2>2. \A p \in a : p \in points
      OBVIOUS
    <2> HIDE DEF points
    <2> QED BY <1>3, <2>1, <2>2 DEF RowsOf
  <1> QED BY <1>1, <1>4, <1>5, <1>6

\* HTTP metrics and threats, by whole buckets.
LEMMA MetricsPromise ==
  ASSUME Given, kind = "httpreq.metrics", NEW from \in Nat, NEW to \in Nat, from < to, NEW q \in Requests
  PROVE  Promise(MetricsWindow(from, to, q), from)
  <1> DEFINE zones == SelectZones(MetricZones).zones
             groups == [z \in zones |-> Grouped(z, from, to, q)]
             details == [z \in zones |-> Breakdowns(z, from, to, q)]
             tops == [z \in zones |-> HighCardinality(z, from, to, q)]
             timings == [z \in zones |-> Latencies(z, from, to, q)]
             few(z) == IF FewHosts(groups[z].rows) THEN Rows({}) ELSE QueryFailed
             turn(z) == InTurn(<<details[z], tops[z], groups[z], few(z), timings[z], groups[z]>>)
             answers == [z \in zones |-> Checked(z, turn(z), q)]
             all == Merged(answers)
             rowsOf(parts) == UNION {parts[z].rows : z \in zones}
             points == MetricPoints(InScope(all.rows), rowsOf(details), rowsOf(tops), rowsOf(timings), q)
             w == Deliver(to, points, Finish(MetricZones, zones, {}))
             S == {r \in world : r.zone \in Asked /\ InWindow(r, from, to)}
  <1>1. zones = Asked /\ MetricZones.eligible \in SUBSET config.discovered
    BY DEF SelectZones, MetricZones, Choice, Asked, Included, Owned
  <1>2. zones \in SUBSET config.discovered /\ zones \in SUBSET Nat /\ \A z \in zones : Readable(q, z)
    BY <1>1, AskedFacts, RequestFacts
  <1>3. ASSUME NEW z \in zones
        PROVE  /\ Exact(groups[z], z, from, to) /\ Within(details[z], z, from, to)
               /\ Within(tops[z], z, from, to) /\ Within(timings[z], z, from, to)
    BY <1>2, GroupedExact DEF Given
  <1>4. MetricsWindow(from, to, q) =
          IF ~q.listed \/ ~MetricZones.ok \/ HostLimit = 0 \/ SeriesLimit = 0 THEN Refuse(from)
          ELSE IF ~all.ok THEN Failure(from, all)
          ELSE IF Cardinality(points) > SeriesLimit THEN Refuse(from)
          ELSE w
    BY DEF MetricsWindow
  <1>5. \A z \in zones : answers[z] = Checked(z, turn(z), q)
    OBVIOUS
  <1>6. DOMAIN answers = zones
    OBVIOUS
  <1>7. AddsUp(Finish(MetricZones, zones, {}))
    <2>1. zones \in SUBSET SelectZones(MetricZones).zones
      OBVIOUS
    <2> HIDE DEF zones
    <2> QED BY <1>1, <2>1, PollAddsUp
  <1>8. kind \notin Bucketed /\ kind \notin DNSKinds /\ Required = "requests"
    BY DEF Bucketed, DNSKinds, Required
  <1> HIDE DEF answers, groups, details, tops, timings, zones
  <1>9. ASSUME NEW z \in zones
        PROVE  /\ turn(z).ok => details[z].ok /\ tops[z].ok /\ timings[z].ok /\ turn(z) = groups[z]
               /\ Exact(turn(z), z, from, to)
    <2>1. /\ turn(z).ok => details[z].ok /\ tops[z].ok /\ groups[z].ok /\ few(z).ok /\ timings[z].ok /\ turn(z) = groups[z]
          /\ turn(z) \in {details[z], tops[z], groups[z], few(z), timings[z], groups[z]}
      <3> HIDE DEF few
      <3> QED BY InTurnOk
    <2>2. IsGap(few(z)) => FALSE
      BY DEF IsGap, Rows, QueryFailed
    <2> HIDE DEF turn, few
    <2>3. IsGap(turn(z)) => turn(z).floor \in Int /\ turn(z).floor <= now
      BY <1>3, <2>1, <2>2 DEF Exact, Within
    <2> QED BY <1>3, <2>1, <2>3 DEF Exact
  <1> HIDE DEF turn, few
  <1>10. \A z \in zones : Exact(answers[z], z, from, to)
    BY <1>5, <1>9, CheckedExact
  <1>11. /\ all.ok => all.rows = RowsOver(zones, from, to)
         /\ IsGap(all) => all.floor \in Int
    BY <1>2, <1>6, <1>10, MergedRows DEF Given
  <1>12. all.ok => \A z \in zones : turn(z).ok
    <2>1. \A z \in zones : IsGap(answers[z]) => answers[z].floor \in Int /\ answers[z].floor <= now
      BY <1>10 DEF Exact
    <2>2. all.ok => \A z \in zones : answers[z].ok
      BY <1>2, <1>6, <2>1, MergedExact DEF Given
    <2> HIDE DEF all
    <2> QED BY <1>5, <2>2, CheckedOk
  <1>13. ASSUME all.ok PROVE Promise(w, from)
    <2>1. ASSUME NEW z \in zones
          PROVE  /\ details[z].rows \subseteq S /\ tops[z].rows \subseteq S /\ timings[z].rows \subseteq S
      <3>1. details[z].ok /\ tops[z].ok /\ timings[z].ok
        BY <1>9, <1>12, <1>13
      <3>2. \A r \in RowsIn(z, from, to) : r \in S
        BY <1>1, <1>8, WindowRows DEF RowsIn
      <3> HIDE DEF S
      <3> QED BY <1>3, <3>1, <3>2 DEF Within
    <2>2. rowsOf(details) \in SUBSET S /\ rowsOf(tops) \in SUBSET S /\ rowsOf(timings) \in SUBSET S
      <3> HIDE DEF S
      <3> QED BY <2>1
    <2>3. InScope(all.rows) = {r \in S : r.host \in config.hosts}
      <3>1. all.rows = S
        BY <1>1, <1>8, <1>11, <1>13, WindowRows DEF RowsOver
      <3> HIDE DEF all, S
      <3> QED BY <3>1 DEF InScope
    <2> DEFINE requests == InScope(all.rows)
               detailRows == rowsOf(details)
               topRows == rowsOf(tops)
               timingRows == rowsOf(timings)
    <2>4. points = MetricPoints(requests, detailRows, topRows, timingRows, q)
      OBVIOUS
    <2>5. /\ requests \in SUBSET S /\ detailRows \in SUBSET S
          /\ topRows \in SUBSET S /\ timingRows \in SUBSET S
      BY <2>2, <2>3
    <2> HIDE DEF requests, detailRows, topRows, timingRows
    <2>6. /\ Apart(points) /\ \A p \in points : p.rows \subseteq S
          /\ RowsOf(points, "requests") = requests
      <3> HIDE DEF points, S
      <3> QED BY <2>4, <2>5, MetricPointsOf
    <2> HIDE DEF points
    <2>7. /\ w.mark = to /\ w.gaps = {} /\ w.skipped = {} /\ w.floor = None
          /\ w.points = points /\ w.poll = Finish(MetricZones, zones, {})
      BY DeliverFields
    <2> HIDE DEF w
    <2>8. Level(to)
      BY <1>8 DEF Level
    <2>9. \A r : IsEvent(r) <=> r.host \in config.hosts
      BY DEF IsEvent
    <2>10. RowsOf(w.points, Required) = {r \in S : IsEvent(r)}
      BY <1>8, <2>3, <2>6, <2>7, <2>9 DEF requests
    <2>11. /\ \A p \in w.points : \A r \in p.rows : r \in world /\ r.zone \in Asked /\ InWindow(r, from, to)
           /\ \A r \in RowsOf(w.points, Required) : IsEvent(r)
           /\ \A r \in world : r.zone \in Asked /\ IsEvent(r) /\ InWindow(r, from, to) =>
                r \in RowsOf(w.points, Required)
      BY <2>6, <2>7, <2>10
    <2> QED BY <1>7, <2>6, <2>7, <2>8, <2>11, WholeWindow
  <1> HIDE DEF all, w, points
  <1> QED BY <1>4, <1>8, <1>11, <1>13, RefusePromise, FailurePromise

\* What is left of one zone beyond its retention floor.
LEMMA QueryZoneExact ==
  ASSUME Given, NEW q, NEW z, Readable(q, z), NEW from \in Nat, NEW to \in Nat, from < to, NEW key
  PROVE  LET answer == QueryZone(z, from, to, q, key)
         IN  answer.ok => /\ answer.until \in Nat /\ from <= answer.until /\ answer.until <= to
                          /\ answer.rows = RowsIn(z, answer.until, to)
                          /\ answer.until # from => Aged(from, q.s[z])
  <1> DEFINE first == InSlices(z, from, to, q, key)
             retry == FloorOf(q.s[z]) + Minute
             second == InSlices(z, retry, to, q, key)
             answer == QueryZone(z, from, to, q, key)
  <1>1. Given => world \in Worlds /\ now \in Nat
    BY DEF Given
  <1>2. Exact(first, z, from, to) /\ (IsGap(first) => Aged(from, q.s[z]))
    BY <1>1, InSlicesExact
  <1>3. retry \in Int
    BY <1>1, LimitAssumption DEF FloorOf, Readable
  <1>4. retry > from /\ ~IsGap(second) => Exact(second, z, retry, to) /\ retry \in Nat
    <2> DEFINE start2 == retry
    <2>1. retry > from => retry \in Nat
      BY <1>3
    <2> HIDE DEF retry
    <2> QED BY <1>1, <2>1, InSlicesExact
  <1>5. answer = IF ~IsGap(first) THEN Reached(first, from)
                 ELSE IF retry <= from THEN Reached(QueryFailed, from)
                 ELSE IF retry >= to THEN Reached(Rows({}), to)
                 ELSE IF IsGap(second) THEN Reached(QueryFailed, from)
                 ELSE Reached(second, retry)
    BY DEF QueryZone
  <1>6. RowsIn(z, to, to) = {}
    BY <1>1, EventAssumption DEF RowsIn
  <1> HIDE DEF first, second, retry, answer
  <1>7. answer.ok => /\ answer.until \in Nat /\ from <= answer.until /\ answer.until <= to
                     /\ answer.rows = RowsIn(z, answer.until, to)
                     /\ answer.until # from => Aged(from, q.s[z])
    <2>1. CASE ~IsGap(first)
      <3>1. answer = Reached(first, from)
        BY <1>5, <2>1
      <3> QED BY <1>2, <3>1 DEF Reached, Exact
    <2>2. CASE IsGap(first) /\ retry <= from
      <3>1. answer = Reached(QueryFailed, from)
        BY <1>5, <2>2
      <3> QED BY <3>1 DEF Reached, QueryFailed
    <2>3. CASE IsGap(first) /\ retry > from /\ retry >= to
      <3>1. answer = Reached(Rows({}), to)
        BY <1>3, <1>5, <2>3
      <3> QED BY <1>2, <1>6, <2>3, <3>1 DEF Reached, Rows
    <2>4. CASE IsGap(first) /\ retry > from /\ retry < to /\ IsGap(second)
      <3>1. answer = Reached(QueryFailed, from)
        BY <1>3, <1>5, <2>4
      <3> QED BY <3>1 DEF Reached, QueryFailed
    <2>5. CASE IsGap(first) /\ retry > from /\ retry < to /\ ~IsGap(second)
      <3>1. answer = Reached(second, retry)
        BY <1>3, <1>5, <2>5
      <3> QED BY <1>2, <1>4, <2>5, <3>1 DEF Reached, Exact
    <2> QED BY <1>3, <2>1, <2>2, <2>3, <2>4, <2>5
  <1> QED BY <1>7 DEF answer

\* One DNS window, before its rows become points.
Collected(to, rows, gaps, skipped, poll) ==
  [mark |-> to, floor |-> None, points |-> rows, gaps |-> gaps, skipped |-> skipped, poll |-> poll,
   admitted |-> admitted]

\* A DNS window: each zone is read, is behind a gap or is skipped on its own.
LEMMA DNSRows ==
  ASSUME Given, kind \in DNSKinds, NEW from \in Nat, NEW to \in Nat, from < to, NEW q \in Requests,
         start \in Nat, start <= from, NEW required, NEW key
  PROVE  \/ DNSWindow(from, to, required, q, key) = Refuse(from)
         \/ \E rows \in SUBSET world : \E gaps, skipped, poll :
              LET w == Collected(to, rows, gaps, skipped, poll)
              IN  /\ DNSWindow(from, to, required, q, key) = w
                  /\ \A r \in world : r \in rows <=>
                       r.zone \in Asked /\ InWindow(r, from, to) /\ ~LeftOut(w, r)
                  /\ \A g \in gaps : /\ g.until \in Nat /\ from < g.until /\ g.until <= to
                                     /\ g.zone \notin Steady
                  /\ skipped \cap Steady = {}
                  /\ AddsUp(poll)
  <1> DEFINE zones == SelectZones(DNSZones).zones
             used == {z \in zones : q.s[z].enabled \/ config.wanted # {}}
             answer == [z \in used |->
                          IF ~Entitled(q.s[z], required) \/ q.bad = z THEN Reached(QueryFailed, from)
                          ELSE QueryZone(z, from, to, q, key)]
             short == {z \in used : answer[z].until # from}
             rows == RowsReached(answer)
             gaps == {[zone |-> z, until |-> answer[z].until] : z \in short}
             skipped == zones \ used
             poll == Finish(DNSZones, used, zones \ used)
             w == Collected(to, rows, gaps, skipped, poll)
  <1>1. zones = Asked /\ DNSZones.eligible \in SUBSET config.discovered
    BY DEF SelectZones, DNSZones, Choice, Asked, Included, DNSKinds
  <1>2. used \subseteq zones /\ zones \in SUBSET config.discovered /\ \A z \in used : Readable(q, z)
    BY <1>1, AskedFacts, RequestFacts
  <1>3. ASSUME NEW z \in used, answer[z].ok
        PROVE  /\ answer[z].until \in Nat /\ from <= answer[z].until /\ answer[z].until <= to
               /\ answer[z].rows = RowsIn(z, answer[z].until, to)
               /\ answer[z].until # from => Aged(from, q.s[z])
    <2>1. ~Reached(QueryFailed, from).ok
      BY DEF Reached, QueryFailed
    <2>2. answer[z] = QueryZone(z, from, to, q, key)
      BY <1>3, <2>1
    <2> HIDE DEF answer, used
    <2> QED BY <1>2, <1>3, <2>2, QueryZoneExact
  <1>4. \/ DNSWindow(from, to, required, q, key) = Refuse(from)
        \/ /\ DNSWindow(from, to, required, q, key) =
                [Deliver(to, rows, poll) EXCEPT !.skipped = skipped, !.gaps = gaps]
           /\ \A z \in used : answer[z].ok
    BY DEF DNSWindow
  <1>5. [Deliver(to, rows, poll) EXCEPT !.skipped = skipped, !.gaps = gaps] = w
    <2> HIDE DEF rows, gaps, skipped, poll
    <2> DEFINE d == [Deliver(to, rows, poll) EXCEPT !.skipped = skipped, !.gaps = gaps]
    <2>1. d \in [mark : {to}, floor : {None}, points : {rows}, gaps : {gaps}, skipped : {skipped},
                 poll : {poll}, admitted : {admitted}]
      BY DEF Deliver, Refuse
    <2> HIDE DEF d
    <2>2. d = w
      BY <2>1 DEF Collected
    <2> QED BY <2>2 DEF d
  <1>6. AddsUp(poll)
    <2>1. used \in SUBSET SelectZones(DNSZones).zones
      BY <1>2
    <2> HIDE DEF used
    <2> QED BY <1>1, <2>1, PollAddsUp
  <1>7. skipped \cap Steady = {}
    BY RequestFacts DEF Steady
  <1>8. ASSUME \A z \in used : answer[z].ok
        PROVE  /\ rows \in SUBSET world
               /\ \A r \in world : r \in rows <=> r.zone \in Asked /\ InWindow(r, from, to) /\ ~LeftOut(w, r)
               /\ \A g \in gaps : /\ g.until \in Nat /\ from < g.until /\ g.until <= to
                                  /\ g.zone \notin Steady
    <2> DEFINE until(z) == answer[z].until
    <2>1. \A z \in used : /\ until(z) \in Nat /\ from <= until(z) /\ until(z) <= to
                          /\ answer[z].rows = RowsIn(z, until(z), to)
                          /\ until(z) # from => Aged(from, q.s[z])
      BY <1>3, <1>8
    <2>2. rows = UNION {RowsIn(z, until(z), to) : z \in used}
      <3>1. DOMAIN answer = used
        OBVIOUS
      <3> HIDE DEF answer, used
      <3> QED BY <2>1, <3>1 DEF RowsReached
    <2>3. gaps = {[zone |-> z, until |-> until(z)] : z \in short}
      OBVIOUS
    <2>4. \A z \in short : z \in used /\ until(z) # from
      OBVIOUS
    <2>5. \A z \in used : until(z) # from => z \in short
      OBVIOUS
    <2>6. \A z : z \in skipped <=> z \in zones /\ z \notin used
      OBVIOUS
    <2> HIDE DEF answer, used, short, rows, until, gaps, skipped
    <2>7. \A r \in rows : r \in world
      BY <2>2 DEF RowsIn
    <2>8. ASSUME NEW z \in short PROVE z \notin Steady
      <3>1. Aged(from, q.s[z]) /\ q.s[z].retention \in Nat
        BY <1>2, <2>1, <2>4 DEF Readable
      <3>2. Aged(start, q.s[z])
        BY <3>1 DEF Aged, Given
      <3>3. q.s \in Settings
        BY RequestFacts
      <3> QED BY <3>2, <3>3 DEF Steady
    <2>9. \A g \in gaps : /\ g.until \in Nat /\ from < g.until /\ g.until <= to /\ g.zone \notin Steady
      BY <2>1, <2>3, <2>4, <2>8
    <2>10. ASSUME NEW r \in world
           PROVE  r \in rows <=> r.zone \in Asked /\ InWindow(r, from, to) /\ ~LeftOut(w, r)
      <3>1. kind \notin Bucketed
        BY DEF DNSKinds, Bucketed
      <3>2. InWindow(r, from, to) <=> from <= r.at /\ r.at < to
        BY <3>1, WindowRows
      <3>3. r.at \in Nat /\ Early(r) = r.at
        BY <3>1, RowTimes DEF Early
      <3>4. LeftOut(w, r) <=> r.zone \in skipped \/ \E z \in short : z = r.zone /\ r.at < until(z)
        <4>1. w.gaps = gaps /\ w.skipped = skipped
          BY DEF Collected
        <4>2. (\E g \in gaps : g.zone = r.zone /\ Early(r) < g.until)
                <=> \E z \in short : z = r.zone /\ r.at < until(z)
          <5> DEFINE gap(z) == [zone |-> z, until |-> until(z)]
          <5>1. \A z : gap(z).zone = z /\ gap(z).until = until(z)
            OBVIOUS
          <5>2. gaps = {gap(z) : z \in short}
            BY <2>3
          <5> HIDE DEF gap
          <5> QED BY <3>3, <5>1, <5>2
        <4> HIDE DEF w
        <4> QED BY <4>1, <4>2 DEF LeftOut
      <3>5. r \in rows <=> r.zone \in used /\ until(r.zone) <= r.at /\ r.at < to
        BY <2>2 DEF RowsIn
      <3> HIDE DEF w
      <3>6. r.zone \in Asked /\ r.zone \notin skipped <=> r.zone \in used
        BY <1>1, <1>2, <2>6
      <3>7. r.zone \in used => /\ until(r.zone) \in Nat /\ from <= until(r.zone)
                               /\ r.zone \notin short => until(r.zone) = from
        BY <2>1, <2>5
      <3> QED BY <3>2, <3>3, <3>4, <3>5, <3>6, <3>7
    <2> QED BY <2>7, <2>9, <2>10
  <1>9. CASE DNSWindow(from, to, required, q, key) = Refuse(from)
    BY <1>9
  <1>10. CASE DNSWindow(from, to, required, q, key) # Refuse(from)
    <2>1. DNSWindow(from, to, required, q, key) = w /\ \A z \in used : answer[z].ok
      <3> HIDE DEF rows, gaps, skipped, poll, w
      <3> QED BY <1>4, <1>5, <1>10
    <2> HIDE DEF answer, used, rows, gaps, skipped, poll
    <2> QED BY <1>6, <1>7, <1>8, <2>1
  <1> QED BY <1>9, <1>10

\* The gaps of a DNS window cover what its points leave out.
LEMMA DNSPromise ==
  ASSUME Given, kind \in DNSKinds, NEW from \in Nat, NEW to \in Nat, from < to, NEW q \in Requests,
         start \in Nat, start <= from, NEW required, NEW key, NEW w, NEW metric, metric = Required, NEW series,
         LET d == DNSWindow(from, to, required, q, key)
         IN  /\ w.mark = d.mark /\ w.floor = d.floor /\ w.gaps = d.gaps /\ w.skipped = d.skipped
             /\ w.poll = d.poll /\ w.points = Points(metric, d.points, series)
  PROVE  Promise(w, from) /\ DNSWindow(from, to, required, q, key).points \in SUBSET world
  <1> DEFINE d == DNSWindow(from, to, required, q, key)
  <1>1. ASSUME d = Refuse(from) PROVE Promise(w, from) /\ d.points \in SUBSET world
    <2>1. d.mark = from /\ d.floor = None /\ d.points = {}
      BY <1>1 DEF Refuse
    <2> HIDE DEF d
    <2> QED BY <2>1 DEF Promise, d
  <1>2. ASSUME NEW rows \in SUBSET world, NEW gaps, NEW skipped, NEW poll,
               NEW c, c = Collected(to, rows, gaps, skipped, poll), d = c,
               \A r \in world : r \in rows <=> r.zone \in Asked /\ InWindow(r, from, to) /\ ~LeftOut(c, r),
               \A g \in gaps : /\ g.until \in Nat /\ from < g.until /\ g.until <= to
                              /\ g.zone \notin Steady,
               skipped \cap Steady = {}, AddsUp(poll)
        PROVE  Promise(w, from) /\ d.points \in SUBSET world
    <2>1. /\ d.mark = to /\ d.floor = None /\ d.gaps = gaps /\ d.skipped = skipped /\ d.poll = poll
          /\ d.points = rows /\ c.gaps = gaps /\ c.skipped = skipped
      BY <1>2 DEF Collected
    <2>2. /\ w.mark = to /\ w.floor = None /\ w.gaps = gaps /\ w.skipped = skipped /\ w.poll = poll
          /\ w.points = Points(metric, rows, series)
      BY <2>1
    <2>3. RowsOf(w.points, Required) = rows /\ Apart(w.points) /\ \A p \in w.points : p.rows \subseteq rows
      BY <2>2, RowsOfPoints, PointsOf
    <2>4. Level(to)
      BY DEF Level, DNSKinds, Bucketed
    <2>5. \A r : IsEvent(r)
      BY DEF IsEvent, DNSKinds
    <2>6. \A r : LeftOut(w, r) <=> LeftOut(c, r)
      BY <2>1, <2>2 DEF LeftOut
    <2> HIDE DEF d
    <2>7. /\ \A p \in w.points : \A r \in p.rows : r \in world /\ r.zone \in Asked /\ InWindow(r, from, to)
          /\ \A r \in world : r.zone \in Asked /\ IsEvent(r) /\ InWindow(r, from, to) =>
               (r \in RowsOf(w.points, Required) <=> ~LeftOut(w, r))
      BY <1>2, <2>3, <2>6
    <2> QED BY <1>2, <2>1, <2>2, <2>3, <2>4, <2>5, <2>7 DEF Promise, Sound
  <1> HIDE DEF d
  <1> QED BY <1>1, <1>2, DNSRows DEF d

LEMMA DNSFields ==
  ASSUME Given, kind \in DNSKinds, NEW from \in Nat, NEW to \in Nat, from < to, NEW q \in Requests,
         start \in Nat, start <= from, NEW required, NEW key, NEW kept, NEW points
  PROVE  LET d == DNSWindow(from, to, required, q, key)
             w == [d EXCEPT !.points = points]
             v == [d EXCEPT !.admitted = kept, !.points = points]
         IN  /\ w.mark = d.mark /\ w.floor = d.floor /\ w.gaps = d.gaps /\ w.skipped = d.skipped
             /\ w.poll = d.poll /\ w.points = points /\ w.admitted = admitted
             /\ v.mark = d.mark /\ v.floor = d.floor /\ v.gaps = d.gaps /\ v.skipped = d.skipped
             /\ v.poll = d.poll /\ v.points = points /\ v.admitted = kept
  <1> DEFINE d == DNSWindow(from, to, required, q, key)
  <1>1. PICK mark0, rows, gaps, skipped, poll : d = Collected(mark0, rows, gaps, skipped, poll)
    <2>1. Refuse(from) = Collected(from, {}, {}, {}, NotPolled)
      BY DEF Refuse, Collected
    <2> HIDE DEF d
    <2> QED BY <2>1, DNSRows DEF d
  <1> HIDE DEF d
  <1>2. d \in [mark : {mark0}, floor : {None}, points : {rows}, gaps : {gaps}, skipped : {skipped},
               poll : {poll}, admitted : {admitted}]
    BY <1>1 DEF Collected
  <1>3. LET w == [d EXCEPT !.points = points]
            v == [d EXCEPT !.admitted = kept, !.points = points]
        IN  /\ w.mark = d.mark /\ w.floor = d.floor /\ w.gaps = d.gaps /\ w.skipped = d.skipped
            /\ w.poll = d.poll /\ w.points = points /\ w.admitted = admitted
            /\ v.mark = d.mark /\ v.floor = d.floor /\ v.gaps = d.gaps /\ v.skipped = d.skipped
            /\ v.poll = d.poll /\ v.points = points /\ v.admitted = kept
    BY <1>2
  <1> QED BY <1>3 DEF d

\* DNS events and DNS metrics, each from its DNS window.
LEMMA DNSEventsPromise ==
  ASSUME Given, kind = "dns.events", NEW from \in Nat, NEW to \in Nat, from < to, NEW q \in Requests,
         start \in Nat, start <= from
  PROVE  Promise(DNSEventsWindow(from, to, q), from)
  <1> DEFINE required == {"value", "host", "label"}
             d == DNSWindow(from, to, required, q, Itself)
             points == Points("log", d.points, ByHost)
             w == [d EXCEPT !.points = points]
  <1>1. kind \in DNSKinds /\ Required = "log"
    BY DEF DNSKinds, Required
  <1>2. DNSEventsWindow(from, to, q) = w
    BY DEF DNSEventsWindow
  <1> HIDE DEF required, points
  <1>3. /\ w.mark = d.mark /\ w.floor = d.floor /\ w.gaps = d.gaps /\ w.skipped = d.skipped
        /\ w.poll = d.poll /\ w.points = points
    BY <1>1, DNSFields
  <1> HIDE DEF w
  <1>4. Promise(w, from)
    BY <1>1, <1>3, DNSPromise DEF points
  <1> QED BY <1>2, <1>4

LEMMA SeriesOfPoints ==
  ASSUME NEW metric, NEW rows, NEW series, NEW p \in Points(metric, rows, series)
  PROVE  \E r \in rows : p.series = series[r]
  BY DEF Points, Point

LEMMA DNSMetricsPromise ==
  ASSUME Given, kind = "dns.metrics", NEW from \in Nat, NEW to \in Nat, from < to, NEW q \in Requests,
         start \in Nat, start <= from
  PROVE  LET w == DNSMetricsWindow(from, to, q)
         IN  /\ Promise(w, from)
             /\ \E rows \in SUBSET world : w.admitted = AdmitSeries({DNSSeries(q)[r] : r \in rows} \ admitted)
             /\ \A p \in w.points : p.metric = "requests" /\ p.series \in w.admitted \cup {Other}
  <1> DEFINE required == {"value"}
             key == DNSSeries(q)
             d == DNSWindow(from, to, required, q, key)
             rows == d.points
             kept == AdmitSeries({key[r] : r \in rows} \ admitted)
             series == [r \in world |-> IF key[r] \in kept THEN key[r] ELSE Other]
             points == Points("requests", rows, series)
             w == [d EXCEPT !.admitted = kept, !.points = points]
  <1>1. kind \in DNSKinds /\ Required = "requests"
    BY DEF DNSKinds, Required
  <1>2. DNSMetricsWindow(from, to, q) = w
    BY DEF DNSMetricsWindow
  <1>3. \A r \in world : series[r] \in kept \cup {Other}
    <2> HIDE DEF key, kept
    <2> QED OBVIOUS
  <1> HIDE DEF required, points, kept, series, key
  <1>4. /\ w.mark = d.mark /\ w.floor = d.floor /\ w.gaps = d.gaps /\ w.skipped = d.skipped
        /\ w.poll = d.poll /\ w.points = points /\ w.admitted = kept
    BY <1>1, DNSFields
  <1> HIDE DEF w
  <1>5. Promise(w, from) /\ rows \in SUBSET world
    BY <1>1, <1>4, DNSPromise DEF points
  <1>6. kept = AdmitSeries({DNSSeries(q)[r] : r \in rows} \ admitted)
    BY DEF kept, key
  <1>7. ASSUME NEW p \in w.points PROVE p.metric = "requests" /\ p.series \in w.admitted \cup {Other}
    <2> HIDE DEF rows
    <2>1. p \in Points("requests", rows, series)
      BY <1>4 DEF points
    <2>2. p.metric = "requests"
      BY <2>1, PointsOf
    <2>3. PICK r \in rows : p.series = series[r]
      BY <2>1, SeriesOfPoints
    <2> QED BY <1>3, <1>4, <1>5, <2>2, <2>3
  <1> HIDE DEF rows
  <1> QED BY <1>2, <1>4, <1>5, <1>6, <1>7

-----------------------------------------------------------------------------
(* The inductive invariant. *)

Covered(r) == \E g \in spans : g.zone = r.zone /\ g.from < End(r) /\ Early(r) < g.until

Typed ==
  /\ world \in Worlds /\ config \in Configs /\ kind \in Kinds
  /\ start \in Nat /\ mark \in Nat /\ start <= mark /\ now \in Nat /\ Holdback <= now

CountedBefore ==
  /\ DOMAIN counted = Metrics
  /\ \A m \in Metrics : \A r \in counted[m] : r \in world /\ r.zone \in Asked /\ End(r) <= mark
  /\ \A r \in counted[Required] : IsEvent(r)

SpansBefore ==
  \A g \in spans : /\ g.from \in Nat /\ g.until \in Nat /\ g.from < g.until /\ g.until <= mark
                   /\ kind \in DNSKinds => g.zone \notin Steady

\* Of what is done every event is counted or covered, and of the bucket the
\* checkpoint lies in all are covered.
Complete ==
  \A r \in world : r.zone \in Asked /\ start <= Early(r) =>
    /\ End(r) <= mark /\ IsEvent(r) => (r \in counted[Required] <=> ~Covered(r))
    /\ Early(r) < mark /\ mark < End(r) => Covered(r)

SeriesKept ==
  /\ kind = "dns.metrics" => /\ IsFiniteSet(admitted) /\ Cardinality(admitted) <= SeriesBudget - 1
                             /\ \A e \in exported : \E k \in admitted \cup {Other} : e = <<"requests", k>>
  /\ kind = "firewall.metrics" => IsFiniteSet(admitted) /\ Cardinality(admitted) <= SourceLimit

ZoneInv ==
  Typed /\ ~again /\ CountedBefore /\ SpansBefore /\ Complete /\ AddsUp(polled) /\ SeriesKept

\* Every window of every kind keeps the promise.
LEMMA WindowPromise ==
  ASSUME Given, kind \in Kinds, NEW from \in Nat, NEW to \in Nat, from < to, NEW q \in Requests,
         start \in Nat, start <= from
  PROVE  Promise(Window(from, to, q), from)
  <1>1. CASE kind = "httpreq.events"
    <2>1. Window(from, to, q) = EventsWindow(from, to, q)
      BY <1>1 DEF Window
    <2> QED BY <1>1, <2>1, EventsPromise
  <1>2. CASE kind = "httpreq.metrics"
    <2>1. Window(from, to, q) = MetricsWindow(from, to, q)
      BY <1>2 DEF Window
    <2> QED BY <1>2, <2>1, MetricsPromise
  <1>3. CASE kind = "httpreq.threats"
    <2>1. Window(from, to, q) = ThreatsWindow(from, to, q)
      BY <1>3 DEF Window
    <2> QED BY <1>3, <2>1, ThreatsPromise
  <1>4. CASE kind = "email"
    <2>1. Window(from, to, q) = EmailWindow(from, to, q)
      BY <1>4 DEF Window
    <2> QED BY <1>4, <2>1, EmailPromise
  <1>5. CASE kind = "dns.events"
    <2>1. Window(from, to, q) = DNSEventsWindow(from, to, q)
      BY <1>5 DEF Window
    <2> QED BY <1>5, <2>1, DNSEventsPromise
  <1>6. CASE kind = "dns.metrics"
    <2>1. Window(from, to, q) = DNSMetricsWindow(from, to, q)
      BY <1>6 DEF Window
    <2> QED BY <1>6, <2>1, DNSMetricsPromise
  <1>7. CASE kind = "firewall.events"
    <2>1. Window(from, to, q) = FirewallEventsWindow(from, to, q)
      BY <1>7 DEF Window
    <2> QED BY <1>7, <2>1, FirewallEventsPromise
  <1>8. CASE kind = "firewall.metrics"
    <2>1. Window(from, to, q) = FirewallMetricsWindow(from, to, q)
      BY <1>8 DEF Window
    <2> QED BY <1>8, <2>1, FirewallMetricsPromise
  <1> QED BY <1>1, <1>2, <1>3, <1>4, <1>5, <1>6, <1>7, <1>8, KindAssumption

\* A poll asks for a window that begins at the checkpoint.
LEMMA UntilFacts ==
  ASSUME Typed, mark < Until
  PROVE  Until \in Nat /\ Given
  <1>1. Lag \in Int
    <2>1. now - Holdback \in Nat /\ Holdback \in Nat
      BY LimitAssumption DEF Typed
    <2>2. FloorBucket(now - Holdback) \in Nat
      BY <2>1, BucketFacts
    <2> QED BY <2>1, <2>2 DEF Lag, LagAt, Typed
  <1>2. Until \in Int
    BY <1>1, LimitAssumption DEF Until, Least, Typed
  <1> QED BY <1>2 DEF Typed, Given

\* The terms of the invariant depend on what a step leaves alone.
LEMMA SameTerms ==
  ASSUME Typed, UNCHANGED <<kind, world, config, start>>, now' \in Nat, now <= now'
  PROVE  /\ Asked' = Asked /\ Required' = Required /\ Steady' \subseteq Steady
         /\ \A r : Early(r)' = Early(r) /\ End(r)' = End(r) /\ (IsEvent(r)' <=> IsEvent(r))
  <1>1. Asked' = Asked
    BY DEF Asked, Owned, Included
  <1>2. Required' = Required
    BY DEF Required
  <1>3. \A r : Early(r)' = Early(r) /\ End(r)' = End(r) /\ (IsEvent(r)' <=> IsEvent(r))
    BY DEF Early, End, IsEvent, Bucketed
  <1>4. ASSUME NEW z \in Steady' PROVE z \in Steady
    <2>1. z \in config.discovered /\ \A s \in Settings : s[z].enabled /\ ~Aged(start, s[z])'
      BY DEF Steady
    <2>2. ASSUME NEW s \in Settings, Aged(start, s[z]) PROVE FALSE
      <3>1. s[z].retention \in Nat
        BY <2>1, SettingsAssumption DEF Typed
      <3>2. Aged(start, s[z])'
        BY <2>2, <3>1 DEF Aged, Typed
      <3> QED BY <2>1, <3>2
    <2> QED BY <2>1, <2>2 DEF Steady
  <1> QED BY <1>1, <1>2, <1>3, <1>4

\* The invariant without the series, which every step must keep.
Accounted == Typed /\ ~again /\ CountedBefore /\ SpansBefore /\ Complete /\ AddsUp(polled)

\* A window that is kept moves the checkpoint over what it accounts for.
LEMMA CommitKeeps ==
  ASSUME Accounted, UNCHANGED <<kind, world, config, now, start>>,
         NEW w, Sound(w, mark), Commit(w)
  PROVE  Accounted'
  <1> DEFINE added(m) == RowsOf(w.points, m)
  <1>1. /\ Given /\ mark \in Nat /\ start \in Nat /\ start <= mark
        /\ mark' = w.mark /\ w.mark \in Nat /\ mark < w.mark /\ Level(w.mark)
    BY DEF Accounted, Typed, Given, Commit, Sound
  <1>2. /\ Asked' = Asked /\ Required' = Required /\ Steady' \subseteq Steady
        /\ \A r : Early(r)' = Early(r) /\ End(r)' = End(r) /\ (IsEvent(r)' <=> IsEvent(r))
    BY SameTerms DEF Accounted, Typed
  <1>3. \A r \in world : Early(r) \in Nat /\ End(r) \in Nat /\ Early(r) < End(r)
                        /\ (w.mark <= Early(r) \/ End(r) <= w.mark)
    BY <1>1, RowTimes
  <1>4. \A m : \A r \in added(m) : r \in world /\ r.zone \in Asked /\ mark <= Early(r) /\ End(r) <= w.mark
    BY DEF Sound, RowsOf, InWindow
  <1>5. counted' = [m \in Metrics |-> counted[m] \cup added(m)]
    BY DEF Commit
  <1>6. Required \in Metrics
    BY DEF Required, Metrics
  <1>7. \A m \in Metrics : \A r \in counted[m] : r \in world /\ r.zone \in Asked /\ End(r) <= mark
    BY DEF Accounted, CountedBefore
  <1> HIDE DEF added
  <1>8. Typed'
    BY <1>1 DEF Accounted, Typed
  <1>9. ~again'
    <2>1. ~Overlap(w.points)
      BY ApartNoOverlap DEF Sound
    <2>2. \A m \in Metrics : counted[m] \cap added(m) = {}
      BY <1>1, <1>3, <1>4, <1>7
    <2> QED BY <2>1, <2>2 DEF Commit, Accounted, added
  <1>10. CountedBefore'
    <2>1. DOMAIN counted' = Metrics
      BY <1>5
    <2>2. ASSUME NEW m \in Metrics, NEW r \in counted'[m]
          PROVE  r \in world' /\ r.zone \in Asked' /\ End(r)' <= mark'
      <3>1. r \in counted[m] \/ r \in added(m)
        BY <1>5, <2>2
      <3> QED BY <1>1, <1>2, <1>3, <1>4, <1>7, <3>1
    <2>3. ASSUME NEW r \in counted'[Required'] PROVE IsEvent(r)'
      <3>1. r \in counted[Required] \/ r \in added(Required)
        BY <1>2, <1>5, <1>6, <2>3
      <3>2. IsEvent(r)
        BY <3>1 DEF Accounted, CountedBefore, Sound, added
      <3> QED BY <1>2, <3>2
    <2> QED BY <2>1, <2>2, <2>3 DEF CountedBefore, Metrics
  <1>11. spans' = spans \cup {[zone |-> g.zone, from |-> mark, until |-> g.until] : g \in w.gaps}
                       \cup {[zone |-> z, from |-> mark, until |-> w.mark] : z \in w.skipped}
    BY DEF Commit
  <1> DEFINE gapped == {[zone |-> g.zone, from |-> mark, until |-> g.until] : g \in w.gaps}
             skipped == {[zone |-> z, from |-> mark, until |-> w.mark] : z \in w.skipped}
  <1>12. /\ \A g \in w.gaps : \E h \in gapped : h.zone = g.zone /\ h.from = mark /\ h.until = g.until
         /\ \A h \in gapped : \E g \in w.gaps : h.zone = g.zone /\ h.from = mark /\ h.until = g.until
         /\ \A z \in w.skipped : \E h \in skipped : h.zone = z /\ h.from = mark /\ h.until = w.mark
         /\ \A h \in skipped : h.zone \in w.skipped /\ h.from = mark /\ h.until = w.mark
    <2> DEFINE span(g) == [zone |-> g.zone, from |-> mark, until |-> g.until]
               skip(z) == [zone |-> z, from |-> mark, until |-> w.mark]
    <2>1. /\ \A g : span(g).zone = g.zone /\ span(g).from = mark /\ span(g).until = g.until
          /\ \A z : skip(z).zone = z /\ skip(z).from = mark /\ skip(z).until = w.mark
      OBVIOUS
    <2>2. gapped = {span(g) : g \in w.gaps} /\ skipped = {skip(z) : z \in w.skipped}
      OBVIOUS
    <2> HIDE DEF span, skip, gapped, skipped
    <2> QED BY <2>1, <2>2
  <1>13. spans' = spans \cup gapped \cup skipped
    BY <1>11
  <1> HIDE DEF gapped, skipped
  <1>14. SpansBefore'
    <2>1. ASSUME NEW g \in spans'
          PROVE  /\ g.from \in Nat /\ g.until \in Nat /\ g.from < g.until /\ g.until <= mark'
                 /\ kind' \in DNSKinds => g.zone \notin Steady'
      <3>1. CASE g \in spans
        BY <1>1, <1>2, <3>1 DEF Accounted, SpansBefore
      <3>2. CASE g \in gapped
        BY <1>1, <1>2, <1>12, <3>2 DEF Sound
      <3>3. CASE g \in skipped
        BY <1>1, <1>2, <1>12, <3>3 DEF Sound
      <3> QED BY <1>13, <2>1, <3>1, <3>2, <3>3
    <2> QED BY <2>1 DEF SpansBefore, DNSKinds
  <1>15. Complete'
    <2>1. ASSUME NEW r \in world, r.zone \in Asked, start <= Early(r)
          PROVE  /\ End(r) <= w.mark /\ IsEvent(r) => (r \in counted'[Required] <=> ~Covered(r)')
                 /\ Early(r) < w.mark /\ w.mark < End(r) => Covered(r)'
      <3>1. Covered(r)' <=> \/ Covered(r)
                            \/ mark < End(r) /\ \E g \in gapped : g.zone = r.zone /\ Early(r) < g.until
                            \/ mark < End(r) /\ Early(r) < w.mark /\ r.zone \in w.skipped
        <4>1. Covered(r)' <=> \E g \in spans' : g.zone = r.zone /\ g.from < End(r) /\ Early(r) < g.until
          BY <1>2 DEF Covered
        <4> QED BY <1>12, <1>13, <4>1 DEF Covered
      <3>2. (\E g \in gapped : g.zone = r.zone /\ Early(r) < g.until)
              <=> \E g \in w.gaps : g.zone = r.zone /\ Early(r) < g.until
        BY <1>12
      <3>3. r \in counted'[Required] <=> r \in counted[Required] \/ r \in added(Required)
        BY <1>5, <1>6
      <3>4. /\ End(r) <= mark /\ IsEvent(r) => (r \in counted[Required] <=> ~Covered(r))
            /\ Early(r) < mark /\ mark < End(r) => Covered(r)
        BY <2>1 DEF Accounted, Complete
      <3>5. r \in counted[Required] => End(r) <= mark
        BY <1>6, <1>7
      <3>6. r \in added(Required) => mark <= Early(r) /\ End(r) <= w.mark
        BY <1>4
      <3>7. Early(r) \in Nat /\ End(r) \in Nat /\ Early(r) < End(r) /\ (w.mark <= Early(r) \/ End(r) <= w.mark)
        BY <1>3
      <3>8. ASSUME End(r) <= w.mark, IsEvent(r) PROVE r \in counted'[Required] <=> ~Covered(r)'
        <4>1. CASE End(r) <= mark
          BY <1>1, <3>1, <3>3, <3>4, <3>6, <3>7, <3>8, <4>1
        <4>2. CASE mark <= Early(r)
          <5>1. r \in added(Required) <=> ~LeftOut(w, r)
            BY <2>1, <3>8, <4>2 DEF Sound, InWindow, added
          <5>2. ~Covered(r)
            BY <1>1, <3>7, <4>2 DEF Accounted, SpansBefore, Covered
          <5>3. r \notin counted[Required]
            BY <1>1, <3>5, <3>7, <4>2
          <5>4. mark < End(r) /\ Early(r) < w.mark
            BY <1>1, <3>7, <3>8, <4>2
          <5> QED BY <3>1, <3>2, <3>3, <5>1, <5>2, <5>3, <5>4 DEF LeftOut
        <4>3. CASE Early(r) < mark /\ mark < End(r)
          <5>1. r \notin counted[Required] /\ r \notin added(Required)
            BY <1>1, <3>5, <3>6, <3>7, <4>3
          <5> QED BY <3>1, <3>3, <3>4, <4>3, <5>1
        <4> QED BY <1>1, <3>7, <4>1, <4>2, <4>3
      <3>9. ~(Early(r) < w.mark /\ w.mark < End(r))
        BY <1>1, <3>7
      <3> QED BY <3>8, <3>9
    <2> QED BY <1>1, <1>2, <2>1 DEF Complete
  <1>16. AddsUp(polled)'
    <2>1. AddsUp(polled')
      BY DEF Commit, Accounted, Sound
    <2> QED BY <2>1 DEF AddsUp
  <1> QED BY <1>8, <1>9, <1>10, <1>14, <1>15, <1>16 DEF Accounted

\* A skip moves the checkpoint to the floor, or by the margin, and reports the span.
LEMMA SkipKeeps ==
  ASSUME Accounted, UNCHANGED <<kind, world, config, now, start>>, mark < Until,
         NEW w, w.floor \in Int, kind \notin DNSKinds, SkipGap(w)
  PROVE  Accounted'
  <1> DEFINE until == Least(Until, w.floor + Margin)
             reported == {[zone |-> z, from |-> mark, until |-> until] : z \in config.discovered}
  <1>1. Given /\ mark \in Nat /\ start \in Nat /\ start <= mark /\ Until \in Nat
    BY UntilFacts DEF Accounted, Typed
  <1>2. until \in Nat /\ mark < until /\ mark' = until
    <2>1. until \in Int
      BY <1>1, LimitAssumption DEF Least
    <2>2. until > mark /\ mark' = until
      BY DEF SkipGap
    <2> HIDE DEF until
    <2> QED BY <1>1, <2>1, <2>2
  <1>3. spans' = spans \cup reported /\ UNCHANGED <<counted, again, polled>>
    BY DEF SkipGap
  <1>4. /\ \A h \in reported : h.zone \in config.discovered /\ h.from = mark /\ h.until = until
        /\ \A z \in config.discovered : \E h \in reported : h.zone = z /\ h.from = mark /\ h.until = until
    <2> DEFINE span(z) == [zone |-> z, from |-> mark, until |-> until]
    <2>1. \A z : span(z).zone = z /\ span(z).from = mark /\ span(z).until = until
      OBVIOUS
    <2>2. reported = {span(z) : z \in config.discovered}
      OBVIOUS
    <2> HIDE DEF span, reported, until
    <2> QED BY <2>1, <2>2
  <1> HIDE DEF until, reported
  <1>5. /\ Asked' = Asked /\ Required' = Required /\ Steady' \subseteq Steady
        /\ \A r : Early(r)' = Early(r) /\ End(r)' = End(r) /\ (IsEvent(r)' <=> IsEvent(r))
    BY SameTerms DEF Accounted, Typed
  <1>6. \A r \in world : Early(r) \in Nat /\ End(r) \in Nat /\ Early(r) < End(r)
    BY <1>1, RowTimes
  <1>7. Required \in Metrics
    BY DEF Required, Metrics
  <1>8. Typed'
    BY <1>1, <1>2 DEF Accounted, Typed
  <1>9. CountedBefore'
    <2>1. ASSUME NEW m \in Metrics, NEW r \in counted[m] PROVE r \in world /\ r.zone \in Asked /\ End(r) <= until
      BY <1>1, <1>2, <1>6 DEF Accounted, CountedBefore
    <2>2. ASSUME NEW r \in counted[Required] PROVE IsEvent(r)
      BY DEF Accounted, CountedBefore
    <2> QED BY <1>2, <1>3, <1>5, <2>1, <2>2 DEF Accounted, CountedBefore, Metrics
  <1>10. SpansBefore'
    <2>1. ASSUME NEW g \in spans'
          PROVE  /\ g.from \in Nat /\ g.until \in Nat /\ g.from < g.until /\ g.until <= mark'
                 /\ kind' \in DNSKinds => g.zone \notin Steady'
      <3>1. CASE g \in spans
        BY <1>1, <1>2, <1>5, <3>1 DEF Accounted, SpansBefore
      <3>2. CASE g \in reported
        BY <1>1, <1>2, <1>4, <3>2
      <3> QED BY <1>3, <2>1, <3>1, <3>2
    <2> QED BY <2>1 DEF SpansBefore, DNSKinds
  <1>11. Complete'
    <2>1. ASSUME NEW r \in world, r.zone \in Asked, start <= Early(r)
          PROVE  /\ End(r) <= until /\ IsEvent(r) => (r \in counted[Required] <=> ~Covered(r)')
                 /\ Early(r) < until /\ until < End(r) => Covered(r)'
      <3>1. r.zone \in config.discovered
        BY <1>1, <2>1, AskedFacts
      <3>2. Covered(r)' <=> Covered(r) \/ (mark < End(r) /\ Early(r) < until)
        <4>1. Covered(r)' <=> \E g \in spans' : g.zone = r.zone /\ g.from < End(r) /\ Early(r) < g.until
          BY <1>5 DEF Covered
        <4> QED BY <1>3, <1>4, <3>1, <4>1 DEF Covered
      <3>3. /\ End(r) <= mark /\ IsEvent(r) => (r \in counted[Required] <=> ~Covered(r))
            /\ r \in counted[Required] => End(r) <= mark
        BY <1>7, <2>1 DEF Accounted, Complete, CountedBefore
      <3>4. Early(r) \in Nat /\ End(r) \in Nat /\ Early(r) < End(r)
        BY <1>6
      <3> QED BY <1>1, <1>2, <3>2, <3>3, <3>4
    <2> QED BY <1>2, <1>3, <1>5, <2>1 DEF Complete
  <1>12. ~again' /\ AddsUp(polled)'
    BY <1>3 DEF Accounted, AddsUp
  <1> QED BY <1>8, <1>9, <1>10, <1>11, <1>12 DEF Accounted

\* Where nothing is exported or skipped.
LEMMA StillAccounted ==
  ASSUME Accounted, UNCHANGED <<kind, world, config, start, mark, counted, again, spans, polled>>,
         now' \in Nat, now <= now'
  PROVE  Accounted'
  <1>1. /\ Asked' = Asked /\ Required' = Required /\ Steady' \subseteq Steady
        /\ \A r : Early(r)' = Early(r) /\ End(r)' = End(r) /\ (IsEvent(r)' <=> IsEvent(r))
    BY SameTerms DEF Accounted, Typed
  <1>2. Typed'
    BY LimitAssumption DEF Accounted, Typed
  <1>3. CountedBefore'
    BY <1>1 DEF Accounted, CountedBefore, Metrics
  <1>4. SpansBefore'
    BY <1>1 DEF Accounted, SpansBefore, DNSKinds
  <1>5. Complete'
    <2>1. \A r : Covered(r)' <=> Covered(r)
      BY <1>1 DEF Covered
    <2> QED BY <1>1, <2>1 DEF Accounted, Complete
  <1>6. ~again' /\ AddsUp(polled)'
    BY DEF Accounted, AddsUp
  <1> QED BY <1>2, <1>3, <1>4, <1>5, <1>6 DEF Accounted

\* The names of some rows that are not admitted yet.
LEMMA FreshNames ==
  ASSUME world \in Worlds, NEW rows \in SUBSET world, NEW names, \A r \in world : names[r] \in Nat
  PROVE  LET fresh == {names[r] : r \in rows} \ admitted
         IN  fresh \in SUBSET Nat /\ IsFiniteSet(fresh)
  <1> DEFINE values == {names[r] : r \in rows}
  <1>1. IsFiniteSet(rows)
    BY EventAssumption, FS_Subset
  <1>2. IsFiniteSet(values)
    BY <1>1, FiniteValues
  <1>3. values \ admitted \in SUBSET Nat /\ values \ admitted \in SUBSET values
    OBVIOUS
  <1> HIDE DEF values
  <1>4. IsFiniteSet(values \ admitted)
    BY <1>2, <1>3, FS_Subset
  <1> QED BY <1>3, <1>4 DEF values

\* Admission stays within the budget, and never forgets a series.
LEMMA SeriesAdmitted ==
  ASSUME NEW fresh \in SUBSET Nat, IsFiniteSet(fresh), IsFiniteSet(admitted)
  PROVE  /\ Cardinality(admitted) <= SeriesBudget - 1 =>
              IsFiniteSet(AdmitSeries(fresh)) /\ Cardinality(AdmitSeries(fresh)) <= SeriesBudget - 1
         /\ Cardinality(admitted) <= SourceLimit =>
              IsFiniteSet(AdmitSources(fresh)) /\ Cardinality(AdmitSources(fresh)) <= SourceLimit
         /\ admitted \subseteq AdmitSeries(fresh)
  <1> DEFINE newSeries == {k \in fresh : Cardinality({m \in fresh : m < k}) + Cardinality(admitted) < SeriesBudget - 1}
             newSources == {k \in fresh : Cardinality({m \in fresh : m < k}) < SourceLimit - Cardinality(admitted)}
  <1>1. AdmitSeries(fresh) = newSeries \cup admitted /\ AdmitSources(fresh) = admitted \cup newSources
    BY DEF AdmitSeries, AdmitSources
  <1>2. Cardinality(admitted) \in Nat /\ SeriesBudget - 1 \in Nat /\ SourceLimit \in Nat
    BY LimitAssumption, FS_CardinalityType
  <1>3. \A k : Cardinality({m \in fresh : m < k}) \in Nat
    <2> TAKE k
    <2>1. {m \in fresh : m < k} \in SUBSET fresh
      OBVIOUS
    <2>2. IsFiniteSet({m \in fresh : m < k})
      BY <2>1, FS_Subset, Zenon
    <2> QED BY <2>2, FS_CardinalityType, Zenon
  <1>4. Cardinality(admitted) <= SeriesBudget - 1 =>
          IsFiniteSet(admitted \cup newSeries) /\ Cardinality(admitted \cup newSeries) <= SeriesBudget - 1
    <2> DEFINE limit == SeriesBudget - 1
    <2>1. newSeries \in SUBSET fresh /\ limit \in Nat
          /\ \A k \in newSeries : Cardinality({m \in fresh : m < k}) + Cardinality(admitted) < limit
      BY <1>2
    <2> HIDE DEF limit, newSeries
    <2>2. Cardinality(admitted) <= limit =>
            IsFiniteSet(admitted \cup newSeries) /\ Cardinality(admitted \cup newSeries) <= limit
      BY <2>1, Admission
    <2> QED BY <2>2 DEF limit
  <1>5. Cardinality(admitted) <= SourceLimit =>
          IsFiniteSet(admitted \cup newSources) /\ Cardinality(admitted \cup newSources) <= SourceLimit
    <2>1. newSources \in SUBSET fresh
      OBVIOUS
    <2>2. \A k \in newSources : Cardinality({m \in fresh : m < k}) + Cardinality(admitted) < SourceLimit
      <3> TAKE k \in newSources
      <3> DEFINE n == Cardinality({m \in fresh : m < k})
      <3>1. n \in Nat
        BY <1>3
      <3>2. n < SourceLimit - Cardinality(admitted)
        OBVIOUS
      <3> HIDE DEF n, newSources
      <3>3. n + Cardinality(admitted) < SourceLimit
        BY <1>2, <3>1, <3>2
      <3> QED BY <3>3 DEF n
    <2> HIDE DEF newSources
    <2> QED BY <1>2, <2>1, <2>2, Admission
  <1>6. newSeries \cup admitted = admitted \cup newSeries
    OBVIOUS
  <1> HIDE DEF newSeries, newSources
  <1>7. AdmitSeries(fresh) = admitted \cup newSeries /\ AdmitSources(fresh) = admitted \cup newSources
    BY <1>1, <1>6
  <1> QED BY <1>4, <1>5, <1>7

\* A poll keeps the bound, whether its points are kept or not.
LEMMA SeriesAfterPoll ==
  ASSUME ZoneInv, NEW q \in Requests, mark < Until, kind' = kind,
         admitted' = Window(mark, Until, q).admitted,
         \A e \in exported' : e \in exported \/ \E p \in Window(mark, Until, q).points : e = <<p.metric, p.series>>
  PROVE  SeriesKept'
  <1> DEFINE w == Window(mark, Until, q)
  <1>0. start \in Nat /\ start <= mark
    BY DEF ZoneInv, Typed
  <1>1. Typed /\ Given /\ mark \in Nat /\ Until \in Nat /\ world \in Worlds
    BY UntilFacts DEF ZoneInv, Typed
  <1>2. ASSUME kind = "dns.metrics"
        PROVE  /\ IsFiniteSet(admitted') /\ Cardinality(admitted') <= SeriesBudget - 1
               /\ \A e \in exported' : \E k \in admitted' \cup {Other} : e = <<"requests", k>>
    <2>1. w = DNSMetricsWindow(mark, Until, q)
      BY <1>2 DEF Window
    <2> DEFINE names == DNSSeries(q)
    <2> HIDE DEF w
    <2>2. PICK rows \in SUBSET world : w.admitted = AdmitSeries({names[r] : r \in rows} \ admitted)
      BY <1>0, <1>1, <1>2, <2>1, DNSMetricsPromise
    <2>3. \A p \in w.points : p.metric = "requests" /\ p.series \in w.admitted \cup {Other}
      BY <1>0, <1>1, <1>2, <2>1, DNSMetricsPromise
    <2>4. ASSUME NEW r \in world PROVE names[r] \in Nat
      <3>1. r.zone \in Nat /\ r.label \in Nat
        BY <1>1, EventAssumption
      <3>2. ByLabel[r] \in Nat /\ ByZone[r] \in Nat
        BY <3>1 DEF ByLabel, ByZone
      <3> QED BY <3>2 DEF DNSSeries
    <2>5. /\ IsFiniteSet(admitted) /\ Cardinality(admitted) <= SeriesBudget - 1
          /\ \A e \in exported : \E k \in admitted \cup {Other} : e = <<"requests", k>>
      BY <1>2 DEF ZoneInv, SeriesKept
    <2> HIDE DEF names
    <2> DEFINE fresh == {names[r] : r \in rows} \ admitted
    <2>6. IsFiniteSet(w.admitted) /\ Cardinality(w.admitted) <= SeriesBudget - 1 /\ admitted \subseteq w.admitted
      <3>1. w.admitted = AdmitSeries(fresh)
        BY <2>2
      <3>2. fresh \in SUBSET Nat /\ IsFiniteSet(fresh)
        BY <1>1, <2>4, FreshNames
      <3> HIDE DEF fresh
      <3> QED BY <2>5, <3>1, <3>2, SeriesAdmitted
    <2>7. admitted' = w.admitted
      BY DEF w
    <2>8. \A e \in exported' : e \in exported \/ \E p \in w.points : e = <<p.metric, p.series>>
      BY DEF w
    <2>9. ASSUME NEW e \in exported' PROVE \E k \in w.admitted \cup {Other} : e = <<"requests", k>>
      BY <2>3, <2>5, <2>6, <2>8
    <2> QED BY <2>6, <2>7, <2>9
  <1>3. ASSUME kind = "firewall.metrics"
        PROVE  IsFiniteSet(admitted') /\ Cardinality(admitted') <= SourceLimit
    <2>1. w = FirewallMetricsWindow(mark, Until, q)
      BY <1>3 DEF Window
    <2>2. IsFiniteSet(admitted) /\ Cardinality(admitted) <= SourceLimit
      BY <1>3 DEF ZoneInv, SeriesKept
    <2> HIDE DEF w
    <2>3. CASE w.admitted = admitted
      BY <2>2, <2>3 DEF w
    <2>4. CASE w.admitted # admitted
      <3>0. \/ w.admitted = admitted
            \/ \E rows \in SUBSET world : w.admitted = AdmitSources({r.label : r \in rows} \ admitted)
        BY <1>1, <1>3, <2>1, FirewallMetricsPromise
      <3>1. PICK rows \in SUBSET world : w.admitted = AdmitSources({r.label : r \in rows} \ admitted)
        BY <2>4, <3>0
      <3> DEFINE names == [r \in world |-> r.label]
      <3>2. \A r \in world : names[r] \in Nat
        BY <1>1, EventAssumption
      <3>3. {r.label : r \in rows} = {names[r] : r \in rows}
        OBVIOUS
      <3> HIDE DEF names
      <3> DEFINE fresh == {names[r] : r \in rows} \ admitted
      <3>4. IsFiniteSet(w.admitted) /\ Cardinality(w.admitted) <= SourceLimit
        <4>1. w.admitted = AdmitSources(fresh)
          BY <3>1, <3>3
        <4>2. fresh \in SUBSET Nat /\ IsFiniteSet(fresh)
          BY <1>1, <3>2, FreshNames
        <4> HIDE DEF fresh
        <4> QED BY <2>2, <4>1, <4>2, SeriesAdmitted
      <3> QED BY <3>4 DEF w
    <2> QED BY <2>3, <2>4
  <1> QED BY <1>2, <1>3 DEF SeriesKept

\* The steps.
LEMMA PollKeeps ==
  ASSUME ZoneInv, NEW q \in Requests, NEW commits \in BOOLEAN, Poll(q, commits)
  PROVE  ZoneInv'
  <1> DEFINE w == Window(mark, Until, q)
  <1>1. Accounted /\ mark < Until /\ kind \in Kinds
    BY DEF ZoneInv, Accounted, Poll, Typed
  <1>2. Given /\ mark \in Nat /\ Until \in Nat
    BY <1>1, UntilFacts DEF Accounted, Typed
  <1>3. Promise(w, mark)
    BY <1>1, <1>2, WindowPromise DEF Accounted, Typed
  <1>4. /\ UNCHANGED <<kind, world, config, now, start>> /\ admitted' = w.admitted
        /\ \/ commits /\ w.floor # None /\ SkipGap(w)
           \/ w.mark # mark /\ Commit(w)
           \/ UNCHANGED <<mark, counted, again, spans, polled, exported>>
    BY DEF Poll
  <1> HIDE DEF w
  <1>5. CASE commits /\ w.floor # None /\ SkipGap(w)
    <2>1. Accounted'
      BY <1>1, <1>3, <1>4, <1>5, SkipKeeps DEF Promise
    <2>2. \A e \in exported' : e \in exported
      BY <1>5 DEF SkipGap
    <2>3. SeriesKept'
      BY <1>1, <1>4, <2>2, SeriesAfterPoll DEF w
    <2> QED BY <2>1, <2>3 DEF ZoneInv, Accounted
  <1>6. CASE w.mark # mark /\ Commit(w)
    <2>1. Accounted'
      BY <1>1, <1>3, <1>4, <1>6, CommitKeeps DEF Promise
    <2>2. \A e \in exported' : e \in exported \/ \E p \in w.points : e = <<p.metric, p.series>>
      BY <1>6 DEF Commit
    <2>3. SeriesKept'
      BY <1>1, <1>4, <2>2, SeriesAfterPoll DEF w
    <2> QED BY <2>1, <2>3 DEF ZoneInv, Accounted
  <1>7. CASE UNCHANGED <<mark, counted, again, spans, polled, exported>>
    <2>1. Accounted'
      BY <1>1, <1>2, <1>4, <1>7, StillAccounted DEF Accounted, Typed
    <2>2. SeriesKept'
      BY <1>1, <1>4, <1>7, SeriesAfterPoll DEF w
    <2> QED BY <2>1, <2>2 DEF ZoneInv, Accounted
  <1> QED BY <1>4, <1>5, <1>6, <1>7

LEMMA ZoneInit ==
  Init => ZoneInv
  <1> SUFFICES ASSUME Init PROVE ZoneInv
    OBVIOUS
  <1>1. Typed
    BY LimitAssumption DEF Init, Typed
  <1>2. CountedBefore
    <2>1. Required \in Metrics
      BY DEF Required, Metrics
    <2> QED BY <2>1 DEF Init, CountedBefore
  <1>3. SpansBefore /\ ~again /\ AddsUp(polled)
    BY NotPolledAddsUp DEF Init, SpansBefore
  <1>4. Complete
    <2>1. Given /\ mark = start /\ start \in Nat
      BY <1>1 DEF Init, Typed, Given
    <2>2. \A r \in world : Early(r) \in Nat /\ End(r) \in Nat /\ Early(r) < End(r)
      BY <2>1, RowTimes
    <2> QED BY <2>1, <2>2 DEF Complete
  <1>5. SeriesKept
    <2>1. IsFiniteSet({}) /\ Cardinality({}) = 0
      BY FS_EmptySet
    <2>2. admitted = {} /\ exported = {}
      BY DEF Init
    <2> QED BY <2>1, <2>2, LimitAssumption DEF SeriesKept
  <1> QED BY <1>1, <1>2, <1>3, <1>4, <1>5 DEF ZoneInv

LEMMA ZoneStep ==
  ZoneInv /\ [Next]_vars => ZoneInv'
  <1> SUFFICES ASSUME ZoneInv, [Next]_vars PROVE ZoneInv'
    OBVIOUS
  <1>1. CASE Tick
    <2>1. Accounted /\ now \in Nat
      BY DEF ZoneInv, Accounted, Typed
    <2>2. now' = now + 1 /\ UNCHANGED <<kind, world, config, start, mark, admitted, counted, again, spans, polled, exported>>
      BY <1>1 DEF Tick
    <2>3. Accounted'
      BY <2>1, <2>2, StillAccounted
    <2>4. SeriesKept'
      BY <2>2 DEF ZoneInv, SeriesKept
    <2> QED BY <2>3, <2>4 DEF ZoneInv, Accounted
  <1>2. CASE UNCHANGED vars
    <2>1. Accounted /\ now \in Nat
      BY DEF ZoneInv, Accounted, Typed
    <2>2. now' = now /\ UNCHANGED <<kind, world, config, start, mark, admitted, counted, again, spans, polled, exported>>
      BY <1>2 DEF vars
    <2>3. Accounted'
      BY <2>1, <2>2, StillAccounted
    <2>4. SeriesKept'
      BY <2>2 DEF ZoneInv, SeriesKept
    <2> QED BY <2>3, <2>4 DEF ZoneInv, Accounted
  <1>3. ASSUME NEW q \in Requests, NEW commits \in BOOLEAN, Poll(q, commits) PROVE ZoneInv'
    BY <1>3, PollKeeps
  <1> QED BY <1>1, <1>2, <1>3 DEF Next

\* What the invariant implies.
LEMMA ZoneInvExact ==
  ZoneInv => ZonesExact
  <1> SUFFICES ASSUME ZoneInv PROVE ZonesExact
    OBVIOUS
  <1>1. Given /\ start \in Nat /\ mark \in Nat
    BY DEF ZoneInv, Typed, Given
  <1>2. ASSUME NEW r \in world, Due(r)
        PROVE  /\ r.zone \in Asked /\ start <= Early(r) /\ End(r) <= mark /\ IsEvent(r)
               /\ r \in counted[Required] <=> ~Covered(r)
    <2>1. r.at \in Nat
      BY <1>1, RowTimes
    <2>2. r.zone \in Asked /\ start <= Early(r) /\ End(r) <= mark /\ IsEvent(r)
      BY <1>1, <1>2, <2>1 DEF Due, CompleteBucket, Early, End
    <2> QED BY <2>2 DEF ZoneInv, Complete
  <1>3. ASSUME NEW r \in world PROVE Reported(r) <=> Covered(r)
    <2>1. r.at \in Nat /\ \A g \in spans : g.from \in Nat
      BY <1>1, RowTimes DEF ZoneInv, SpansBefore
    <2>2. CASE kind \in Bucketed
      BY <2>2 DEF Reported, Covered, Early, End
    <2>3. CASE kind \notin Bucketed
      <3>1. \A g \in spans : g.from <= r.at <=> g.from < r.at + 1
        BY <2>1
      <3> QED BY <2>3, <3>1 DEF Reported, Covered, Early, End
    <2> QED BY <2>2, <2>3
  <1>4. NoZoneLost
    BY <1>2, <1>3, Zenon DEF NoZoneLost
  <1>5. NeverTwice
    <2>1. ASSUME NEW m \in Metrics, NEW r \in counted[m] PROVE r.zone \in Asked /\ r.at < mark
      <3>1. r \in world /\ r.zone \in Asked /\ End(r) <= mark
        BY DEF ZoneInv, CountedBefore
      <3>2. r.at \in Nat /\ End(r) \in Nat /\ r.at < End(r)
        BY <1>1, <3>1, RowTimes
      <3> QED BY <1>1, <3>1, <3>2
    <2> QED BY <2>1 DEF ZoneInv, CountedBefore, NeverTwice
  <1>6. GapsAreLocal
    <2>1. ASSUME kind \in DNSKinds, NEW r \in world, Due(r), r.zone \in Steady PROVE r \in counted[Required]
      <3>1. ~Covered(r)
        BY <2>1 DEF ZoneInv, SpansBefore, Covered
      <3> QED BY <1>2, <2>1, <3>1
    <2> QED BY <2>1 DEF GapsAreLocal, DNSKinds
  <1> QED BY <1>4, <1>5, <1>6 DEF ZonesExact

LEMMA ZoneInvSeries ==
  ZoneInv => SeriesForLife
  <1> SUFFICES ASSUME ZoneInv PROVE SeriesForLife
    OBVIOUS
  <1>1. ASSUME kind = "dns.metrics" PROVE Cardinality(exported) <= SeriesBudget
    <2> DEFINE keys == admitted \cup {Other}
               name == [k \in keys |-> <<"requests", k>>]
               all == {name[k] : k \in keys}
    <2>1. IsFiniteSet(admitted) /\ Cardinality(admitted) <= SeriesBudget - 1 /\ Cardinality(admitted) \in Nat
      BY <1>1, FS_CardinalityType DEF ZoneInv, SeriesKept
    <2>2. IsFiniteSet(keys) /\ Cardinality(keys) <= SeriesBudget /\ Cardinality(keys) \in Nat
      <3>1. IsFiniteSet(keys) /\ Cardinality(keys) = IF Other \in admitted THEN Cardinality(admitted) ELSE Cardinality(admitted) + 1
        BY <2>1, FS_AddElement
      <3> QED BY <2>1, <3>1, LimitAssumption
    <2>3. exported \in SUBSET all
      <3>1. \A e \in exported : \E k \in keys : e = name[k]
        BY <1>1 DEF ZoneInv, SeriesKept
      <3> QED BY <3>1
    <2>4. name \in Surjection(keys, all)
      BY DEF Surjection
    <2> HIDE DEF keys, name, all
    <2>5. IsFiniteSet(all) /\ Cardinality(all) <= Cardinality(keys)
      BY <2>2, <2>4, FS_Surjection
    <2>6. Cardinality(exported) <= Cardinality(all) /\ IsFiniteSet(exported)
      BY <2>3, <2>5, FS_Subset
    <2>7. Cardinality(exported) \in Nat /\ Cardinality(all) \in Nat
      BY <2>5, <2>6, FS_CardinalityType
    <2> QED BY <2>2, <2>5, <2>6, <2>7, LimitAssumption
  <1> QED BY <1>1 DEF ZoneInv, SeriesKept, SeriesForLife

LEMMA ZoneInvAlways ==
  Spec => []ZoneInv
  BY ZoneInit, ZoneStep, PTL DEF Spec

(***************************************************************************)
(* Every event of a zone is counted exactly once or lies in a span that is *)
(* reported as skipped, and a DNS zone that can be read never loses one,   *)
(* however zones fail, age out of retention or come back between windows   *)
(* (CollectWindow of each zone collector, with SkipGap).                   *)
(***************************************************************************)

THEOREM ZonesAlwaysExact == Spec => []ZonesExact
  BY ZoneInvAlways, ZoneInvExact, PTL

(***************************************************************************)
(* The gauges of a poll account for every discovered zone exactly once, as *)
(* filtered, processed or skipped (ZonePoll.Finish).                       *)
(***************************************************************************)

THEOREM GaugesAlwaysAddUp == Spec => []ZonesAddUp
  <1>1. ZoneInv => ZonesAddUp
    BY DEF ZoneInv, AddsUp, ZonesAddUp
  <1> QED BY <1>1, ZoneInvAlways, PTL

(***************************************************************************)
(* Over its lifetime a DNS collector exports at most SeriesBudget series,  *)
(* the fold included, and firewall.metrics admits at most SourceLimit      *)
(* sources, whatever labels the zones return and whichever windows are     *)
(* kept or polled again (admit; firewallBotScoreSource).                   *)
(***************************************************************************)

THEOREM SeriesAlwaysBounded == Spec => []SeriesForLife
  BY ZoneInvAlways, ZoneInvSeries, PTL

-----------------------------------------------------------------------------
(* A healthy zone answers every query, so that no window is refused.         *)

Needed == {"value", "host", "label", "bucket", "top"}

\* The dataset of a zone offers all that is asked for from a time on, in one page.
Ample(q, z, since) ==
  /\ q.s[z].read /\ q.s[z].enabled /\ Needed \subseteq q.s[z].offered
  /\ q.s[z].fields \in Nat /\ q.s[z].fields >= 3
  /\ q.s[z].page \in Nat /\ q.s[z].page > Cardinality(world)
  /\ q.s[z].span \in Nat /\ q.s[z].span >= MaxWindow /\ q.s[z].retention \in Nat
  /\ \A a \in Nat : since <= a => ~Aged(a, q.s[z])
  /\ kind = "email" => q.s[z].retention > 0

\* No collector requires more than three fields.
LEMMA FewFields ==
  ASSUME NEW a, NEW b, NEW c
  PROVE  /\ IsFiniteSet({a}) /\ IsFiniteSet({a, b}) /\ IsFiniteSet({a, b, c})
         /\ Cardinality({a}) <= 3 /\ Cardinality({a, b}) <= 3 /\ Cardinality({a, b, c}) <= 3
  <1> DEFINE none == {}
             one == {a}
             two == {a, b}
             three == {a, b, c}
  <1>1. one = none \cup {a} /\ two = one \cup {b} /\ three = two \cup {c}
    OBVIOUS
  <1>2. IsFiniteSet(none) /\ Cardinality(none) = 0
    BY FS_EmptySet
  <1> HIDE DEF none, one, two, three
  <1>3. IsFiniteSet(one) /\ (Cardinality(one) = 0 \/ Cardinality(one) = 0 + 1)
    BY <1>1, <1>2, FS_AddElement
  <1>4. IsFiniteSet(two) /\ (Cardinality(two) = Cardinality(one) \/ Cardinality(two) = Cardinality(one) + 1)
    BY <1>1, <1>3, FS_AddElement
  <1>5. IsFiniteSet(three) /\ (Cardinality(three) = Cardinality(two) \/ Cardinality(three) = Cardinality(two) + 1)
    BY <1>1, <1>4, FS_AddElement
  <1>6. Cardinality(one) <= 3 /\ Cardinality(two) <= 3 /\ Cardinality(three) <= 3
    BY <1>3, <1>4, <1>5
  <1> QED BY <1>3, <1>4, <1>5, <1>6 DEF one, two, three

LEMMA EntitledHere ==
  ASSUME NEW q, NEW z, NEW since, Ample(q, z, since)
  PROVE  /\ Entitled(q.s[z], {"value"}) /\ Entitled(q.s[z], {"value", "bucket"})
         /\ Entitled(q.s[z], {"value", "host", "label"})
         /\ \A a \in Nat : since <= a => ~Aged(a, q.s[z])
  <1>1. /\ Cardinality({"value"}) <= 3 /\ Cardinality({"value", "bucket"}) <= 3
        /\ Cardinality({"value", "host", "label"}) <= 3
    BY FewFields
  <1>2. /\ IsFiniteSet({"value"}) /\ IsFiniteSet({"value", "bucket"})
        /\ IsFiniteSet({"value", "host", "label"})
    BY FewFields
  <1>3. /\ Cardinality({"value"}) \in Nat /\ Cardinality({"value", "bucket"}) \in Nat
        /\ Cardinality({"value", "host", "label"}) \in Nat
    BY <1>2, FS_CardinalityType
  <1>4. /\ {"value"} \subseteq q.s[z].offered /\ {"value", "bucket"} \subseteq q.s[z].offered
        /\ {"value", "host", "label"} \subseteq q.s[z].offered
    BY DEF Ample, Needed
  <1>5. \A a \in Nat : since <= a => ~Aged(a, q.s[z])
    BY DEF Ample
  <1>6. \A n \in Nat : n <= 3 => n <= q.s[z].fields
    BY DEF Ample
  <1> QED BY <1>1, <1>3, <1>4, <1>5, <1>6 DEF Entitled, Ample

\* One page holds all there is.
LEMMA FetchOk ==
  ASSUME world \in Worlds, NEW q, NEW z, NEW since, Ample(q, z, since), NEW a \in Nat, since <= a,
         NEW b, NEW key
  PROVE  /\ Fetch(z, a, b, q, key).ok /\ ~Fetch(z, a, b, q, key).saturated
         /\ Once(z, a, b, q, key).ok
  <1> DEFINE found == {r \in world : r.zone = z /\ a <= r.at /\ r.at < b}
             groups == {key[r] : r \in found}
  <1>1. IsFiniteSet(world)
    BY EventAssumption
  <1>2. found \in SUBSET world
    OBVIOUS
  <1>3. IsFiniteSet(groups) /\ Cardinality(groups) <= Cardinality(world)
    <2> HIDE DEF found
    <2>1. IsFiniteSet(found) /\ Cardinality(found) <= Cardinality(world)
      BY <1>1, <1>2, FS_Subset
    <2>2. IsFiniteSet(groups) /\ Cardinality(groups) <= Cardinality(found)
      BY <2>1, FiniteValues
    <2> HIDE DEF groups
    <2>3. Cardinality(groups) \in Nat /\ Cardinality(found) \in Nat /\ Cardinality(world) \in Nat
      BY <1>1, <2>1, <2>2, FS_CardinalityType
    <2> QED BY <2>1, <2>2, <2>3
  <1>4. Cardinality(groups) \in Nat /\ Cardinality(world) \in Nat
    <2> HIDE DEF groups
    <2> QED BY <1>1, <1>3, FS_CardinalityType
  <1>5. Fetch(z, a, b, q, key) =
          IF ~q.s[z].read \/ ~q.s[z].enabled THEN QueryFailed
          ELSE IF Aged(a, q.s[z]) THEN Gap(FloorOf(q.s[z]), FALSE)
          ELSE IF Cardinality(groups) >= q.s[z].page THEN Saturated
          ELSE Rows(found)
    BY DEF Fetch
  <1> HIDE DEF found, groups
  <1>6. ~(Cardinality(groups) >= q.s[z].page)
    BY <1>3, <1>4 DEF Ample
  <1>7. Fetch(z, a, b, q, key) = Rows(found)
    BY <1>5, <1>6, EntitledHere DEF Ample
  <1>8. Once(z, a, b, q, key) = Rows(found)
    BY <1>7 DEF Once, Rows
  <1> QED BY <1>7, <1>8 DEF Rows

\* Slices succeed together, and an unsaturated window is not split.
LEMMA SlicesOk ==
  ASSUME NEW from \in Nat, NEW to \in Nat, NEW span \in Nat \ {0}, NEW query,
         \A w \in Parts(from, to) : w[1] <= w[2] => query[w].ok
  PROVE  Sliced(from, to, span, query).ok
  <1> DEFINE starts == {a \in from .. to - 1 : (a - from) % span = 0}
  <1>1. ASSUME NEW a \in starts PROVE query[<<a, Least(a + span, to)>>].ok
    <2> DEFINE b == Least(a + span, to)
    <2>1. a \in Nat /\ from <= a /\ a < to
      OBVIOUS
    <2>2. b \in Nat /\ a <= b /\ b <= to
      BY <2>1 DEF Least
    <2> HIDE DEF starts, b
    <2>3. <<a, b>> \in Parts(from, to)
      BY <2>1, <2>2 DEF Parts
    <2> DEFINE w == <<a, b>>
    <2>4. w[1] = a /\ w[2] = b
      OBVIOUS
    <2> HIDE DEF w
    <2>5. query[w].ok
      BY <2>2, <2>3, <2>4 DEF w
    <2> QED BY <2>5 DEF b, w
  <1> QED BY <1>1 DEF Sliced, Rows

LEMMA InSlicesOk ==
  ASSUME world \in Worlds, NEW q, NEW z, NEW from \in Nat, Ample(q, z, from), NEW to \in Nat,
         MaxWindow > 0, NEW key
  PROVE  InSlices(z, from, to, q, key).ok /\ ~IsGap(InSlices(z, from, to, q, key))
  <1> DEFINE query == [w \in Parts(from, to) |-> Once(z, w[1], w[2], q, key)]
  <1>1. \A w \in Parts(from, to) : query[w].ok
    BY FetchOk DEF Parts
  <1>2. q.s[z].span \in Nat \ {0}
    BY LimitAssumption DEF Ample
  <1>3. InSlices(z, from, to, q, key) =
          IF Aged(from, q.s[z]) THEN Gap(FloorOf(q.s[z]), FALSE)
          ELSE IF q.s[z].span = 0 THEN QueryFailed ELSE Sliced(from, to, q.s[z].span, query)
    BY DEF InSlices
  <1> HIDE DEF query
  <1>4. Sliced(from, to, q.s[z].span, query).ok
    BY <1>1, <1>2, SlicesOk
  <1>5. ~Aged(from, q.s[z])
    BY DEF Ample
  <1>6. InSlices(z, from, to, q, key).ok
    BY <1>2, <1>3, <1>4, <1>5
  <1> QED BY <1>6 DEF IsGap

\* Fewer rows than the limit make fewer groups.
LEMMA InLimitOk ==
  ASSUME world \in Worlds, NEW z, NEW from \in Nat, NEW to, NEW answer, answer.ok,
         Exact(answer, z, from, to), Cardinality(RowsIn(z, from, to)) < RowLimit, NEW s, NEW key
  PROVE  InLimit(answer, from, s, key).ok
  <1> DEFINE rows == RowsIn(z, from, to)
             groups == {<<(r.at - from) \div s.span, key[r]>> : r \in rows}
             name == [r \in rows |-> <<(r.at - from) \div s.span, key[r]>>]
  <1>1. answer.rows = rows
    BY DEF Exact
  <1>2. IsFiniteSet(rows)
    BY EventAssumption, FS_Subset DEF RowsIn
  <1>3. groups = {name[r] : r \in rows}
    OBVIOUS
  <1>4. InLimit(answer, from, s, key) = IF Cardinality(groups) >= RowLimit THEN QueryFailed ELSE answer
    BY <1>1 DEF InLimit
  <1>5. Cardinality(rows) < RowLimit
    OBVIOUS
  <1> HIDE DEF name, rows, groups
  <1>6. IsFiniteSet(groups) /\ Cardinality(groups) <= Cardinality(rows)
    BY <1>2, <1>3, FiniteValues
  <1>7. Cardinality(groups) \in Nat /\ Cardinality(rows) \in Nat /\ RowLimit \in Nat
    BY <1>2, <1>6, FS_CardinalityType, LimitAssumption
  <1> QED BY <1>4, <1>5, <1>6, <1>7

LEMMA BisectOk ==
  ASSUME NEW from \in Nat, NEW to \in Nat, from <= to, NEW step \in Nat \ {0}, NEW minimum \in Nat,
         NEW query, \A w \in Parts(from, to) : query[w].ok /\ ~query[w].saturated
  PROVE  Bisect(from, to, step, minimum, query).ok
  <1> DEFINE w == <<from, to>>
  <1>1. w \in Parts(from, to)
    BY DEF Parts
  <1> HIDE DEF w
  <1>2. query[w].ok /\ ~query[w].saturated
    BY <1>1
  <1>3. Bisect(from, to, step, minimum, query) = query[w]
    BY <1>2, Unsplit DEF w
  <1> QED BY <1>2, <1>3

LEMMA HalvedOk ==
  ASSUME world \in Worlds, NEW q, NEW z, NEW from \in Nat, Ample(q, z, from), NEW to \in Nat, from <= to,
         NEW key
  PROVE  Halved(z, from, to, q, key).ok
  <1> DEFINE query == [w \in Parts(from, to) |-> Fetch(z, w[1], w[2], q, key)]
             one == 1
  <1>1. one \in Nat \ {0} /\ Minute \in Nat
    BY LimitAssumption
  <1>2. \A w \in Parts(from, to) : query[w].ok /\ ~query[w].saturated
    BY FetchOk DEF Parts
  <1>3. Halved(z, from, to, q, key) = Bisect(from, to, one, Minute, query)
    BY DEF Halved
  <1> HIDE DEF query, one
  <1> QED BY <1>1, <1>2, <1>3, BisectOk

\* So do zones.
LEMMA MergedOk ==
  ASSUME NEW answers, \A z \in DOMAIN answers : answers[z].ok
  PROVE  Merged(answers).ok
  <1> DEFINE ends == {z \in DOMAIN answers : ~answers[z].ok /\ (IsGap(answers[z]) => answers[z].alone)}
             gaps == {z \in DOMAIN answers : IsGap(answers[z])}
  <1>1. ends = {} /\ gaps = {}
    BY DEF IsGap
  <1> QED BY <1>1 DEF Merged, Rows

-----------------------------------------------------------------------------
(* The windows. *)

Ready(from, to, q) ==
  /\ Given /\ from = mark /\ to = Until /\ start \in Nat /\ start <= from /\ from \in Nat /\ to \in Nat /\ from < to /\ to <= from + MaxWindow
  /\ q \in Requests /\ Healthy(q)

\* What a healthy poll may rely on.
LEMMA ReadyFacts ==
  ASSUME NEW from, NEW to, NEW q, Ready(from, to, q)
  PROVE  /\ \A z \in config.discovered : Ample(q, z, from) /\ q.bad # z
         /\ Asked \in SUBSET config.discovered /\ Asked # {} /\ config.wanted \subseteq Asked
         /\ q.listed /\ MaxWindow \in Nat /\ MaxWindow > 0 /\ to - from <= MaxWindow
         /\ world \in Worlds /\ IsFiniteSet(world) /\ Cardinality(world) \in Nat
         /\ from \in Nat /\ to \in Nat /\ from < to
  <1>1. Given /\ from \in Nat /\ to \in Nat /\ from < to /\ to <= from + MaxWindow /\ q \in Requests
    BY DEF Ready
  <1>2. MaxWindow \in Nat /\ MaxWindow > 0 /\ to - from <= MaxWindow
    BY <1>1, LimitAssumption
  <1>3. \A z \in config.discovered : z # None /\ q.s[z].fields \in Nat /\ q.s[z].page \in Nat /\ q.s[z].span \in Nat
                                          /\ q.s[z].retention \in Nat
    <2>1. config.discovered \subseteq Nat \ {None}
      BY <1>1, SettingsAssumption DEF Given
    <2>2. \A z \in config.discovered : q.s[z] \in
              [read : BOOLEAN, enabled : BOOLEAN, fallback : BOOLEAN, fields : Nat, page : Nat,
               span : Nat, retention : Nat, offered : SUBSET STRING]
      BY <1>1, RequestFacts
    <2> QED BY <2>1, <2>2
  <1>4. Healthy(q)
    BY DEF Ready
  <1>5. \A z \in config.discovered : Ample(q, z, from) /\ q.bad # z
    <2> SUFFICES ASSUME NEW z \in config.discovered PROVE Ample(q, z, from) /\ q.bad # z
      OBVIOUS
    <2>1. ASSUME NEW a \in Nat, from <= a PROVE ~Aged(a, q.s[z])
      <3>1. ~Aged(from, q.s[z])
        BY <1>4 DEF Healthy, Ready
      <3> QED BY <1>1, <1>3, <2>1, <3>1 DEF Aged, Given
    <2> QED BY <1>3, <1>4, <2>1 DEF Ample, Needed, Healthy
  <1>6. IsFiniteSet(world) /\ world \in Worlds
    BY <1>1, EventAssumption DEF Given
  <1>7. Cardinality(world) \in Nat
    BY <1>6, FS_CardinalityType
  <1>8. Asked \in SUBSET config.discovered /\ Asked # {} /\ config.wanted \subseteq Asked /\ q.listed
    BY <1>1, <1>4, AskedFacts DEF Healthy
  <1> QED BY <1>1, <1>2, <1>5, <1>6, <1>7, <1>8

LEMMA ZonesFound ==
  ASSUME NEW from, NEW to, NEW q, Ready(from, to, q)
  PROVE  FirewallZones.ok /\ ~(from >= to) /\ DNSZones.ok
  <1>1. /\ config.wanted \subseteq Asked /\ Asked \subseteq config.discovered /\ Asked # {}
        /\ from \in Nat /\ to \in Nat /\ from < to
    BY ReadyFacts
  <1>2. config.wanted \subseteq config.discovered /\ config.discovered # {}
    BY <1>1
  <1>3. ~(from >= to)
    BY <1>1
  <1> QED BY <1>2, <1>3 DEF FirewallZones, DNSZones, Choice, AllFound

\* Raw events: every zone is read and none is invalid.
LEMMA EventsMove ==
  ASSUME NEW from, NEW to, NEW q, Ready(from, to, q), kind = "httpreq.events"
  PROVE  EventsWindow(from, to, q).mark = to
  <1> DEFINE zones == SelectZones(EventZones).zones
             answers == [z \in zones |-> Checked(z, EventRows(z, from, to, q), q)]
             all == Merged(answers)
  <1>1. zones = Asked
    BY DEF SelectZones, EventZones, Choice, Asked, Included
  <1>2. ASSUME NEW z \in zones PROVE answers[z].ok
    <2>1. Ample(q, z, from) /\ q.bad # z /\ world \in Worlds /\ from \in Nat /\ to \in Nat /\ from <= to
      BY <1>1, ReadyFacts
    <2>2. 1 \in Nat \ {0} /\ Minute \in Nat
      BY LimitAssumption
    <2>3. Halved(z, from, to, q, Itself).ok
      BY <2>1, <2>2, HalvedOk
    <2>4. answers[z] = Checked(z, EventRows(z, from, to, q), q)
      OBVIOUS
    <2> QED BY <2>1, <2>3, <2>4 DEF Checked, EventRows
  <1>3. all.ok
    <2>1. DOMAIN answers = zones
      OBVIOUS
    <2> HIDE DEF answers, zones
    <2> QED BY <1>2, <2>1, MergedOk
  <1>4. q.listed
    BY ReadyFacts
  <1> QED BY <1>3, <1>4 DEF EventsWindow, Deliver, Refuse

LEMMA FirewallEventsMove ==
  ASSUME NEW from, NEW to, NEW q, Ready(from, to, q), kind = "firewall.events"
  PROVE  FirewallEventsWindow(from, to, q).mark = to
  <1> DEFINE zones == SelectZones(FirewallZones).zones
             answers == [z \in zones |-> Checked(z, Halved(z, from, to, q, Itself), q)]
             all == Merged(answers)
  <1>1. zones = Asked
    BY DEF SelectZones, FirewallZones, Choice, Asked, Included
  <1>2. ASSUME NEW z \in zones PROVE answers[z].ok
    <2>1. Ample(q, z, from) /\ q.bad # z /\ world \in Worlds /\ from \in Nat /\ to \in Nat /\ from <= to
      BY <1>1, ReadyFacts
    <2>2. 1 \in Nat \ {0} /\ Minute \in Nat
      BY LimitAssumption
    <2>3. Halved(z, from, to, q, Itself).ok
      BY <2>1, <2>2, HalvedOk
    <2>4. answers[z] = Checked(z, Halved(z, from, to, q, Itself), q)
      OBVIOUS
    <2> QED BY <2>1, <2>3, <2>4 DEF Checked
  <1>3. all.ok
    <2>1. DOMAIN answers = zones
      OBVIOUS
    <2> HIDE DEF answers, zones
    <2> QED BY <1>2, <2>1, MergedOk
  <1>4. q.listed /\ FirewallZones.ok /\ ~(from >= to)
    BY ZonesFound, ReadyFacts
  <1> QED BY <1>3, <1>4 DEF FirewallEventsWindow, Deliver, Refuse

\* With the Groups dataset enabled the fallback changes nothing.
LEMMA FirewallMetricsMove ==
  ASSUME NEW from, NEW to, NEW q, Ready(from, to, q), kind = "firewall.metrics"
  PROVE  FirewallMetricsWindow(from, to, q).mark = to
  <1> DEFINE zones == SelectZones(FirewallZones).zones
             found == [q EXCEPT !.s = [z \in DOMAIN @ |-> DatasetForZone(@[z])]]
             labelled(z) == "label" \in Chosen(found.s[z], {"value"}, <<"label">>)
             key(z) == [r \in world |-> IF labelled(z) THEN r.label ELSE Blank]
             zoneRows(z) == IF ~Entitled(found.s[z], {"value"}) THEN QueryFailed
                            ELSE Halved(z, from, to, found, key(z))
             answers == [z \in zones |-> Checked(z, zoneRows(z), q)]
             all == Merged(answers)
             admits == {r \in all.rows : labelled(r.zone)}
             sources == AdmitSources({r.label : r \in admits} \ admitted)
             series == [r \in all.rows |-> IF ~labelled(r.zone) THEN ByZone[r]
                                           ELSE IF r.label \in sources THEN ByLabel[r] ELSE ByZone[r] + 99]
             points == Bounded(Points("requests", all.rows, series))
             w == [Deliver(to, points, Finish(FirewallZones, zones, {})) EXCEPT !.admitted = sources]
  <1>1. zones = Asked
    BY DEF SelectZones, FirewallZones, Choice, Asked, Included
  <1>2. zones \in SUBSET config.discovered /\ \A z \in zones : Ample(q, z, from) /\ q.bad # z
    BY <1>1, ReadyFacts
  <1>3. ASSUME NEW z \in zones PROVE Ample(found, z, from)
    <2> DEFINE s == q.s
    <2>1. q \in [s : Settings, listed : BOOLEAN, bad : {None} \cup config.discovered]
      BY DEF Requests, Ready
    <2>2. config.discovered \subseteq DOMAIN s
      BY RequestFacts DEF Ready
    <2>3. found.s = [y \in DOMAIN s |-> DatasetForZone(s[y])]
      BY <2>1
    <2>4. found.s[z] = DatasetForZone(s[z])
      BY <1>2, <2>2, <2>3
    <2>5. s[z].enabled
      BY <1>2 DEF Ample
    <2> HIDE DEF found, s
    <2>6. found.s[z] = s[z]
      BY <2>4, <2>5 DEF DatasetForZone
    <2>7. Ample(q, z, from)
      BY <1>2
    <2> QED BY <2>6, <2>7 DEF Ample, s
  <1>4. FirewallMetricsWindow(from, to, q) =
          IF from >= to \/ ~q.listed \/ ~FirewallZones.ok THEN Refuse(from)
          ELSE IF ~all.ok THEN Failure(from, all) ELSE w
    BY DEF FirewallMetricsWindow, found
  <1> HIDE DEF found
  <1>5. ASSUME NEW z \in zones PROVE answers[z].ok
    <2>1. /\ world \in Worlds /\ from \in Nat /\ to \in Nat /\ from <= to
          /\ 1 \in Nat \ {0} /\ Minute \in Nat
      BY ReadyFacts, LimitAssumption
    <2>2. Halved(z, from, to, found, key(z)).ok
      <3> HIDE DEF key
      <3> QED BY <1>3, <2>1, HalvedOk
    <2>3. zoneRows(z).ok
      <3> HIDE DEF key
      <3> QED BY <1>3, <2>2, EntitledHere
    <2>4. answers[z] = Checked(z, zoneRows(z), q)
      OBVIOUS
    <2> HIDE DEF answers, zoneRows
    <2> QED BY <1>2, <2>3, <2>4 DEF Checked
  <1>6. all.ok
    <2>1. DOMAIN answers = zones
      OBVIOUS
    <2> HIDE DEF answers, zones
    <2> QED BY <1>5, <2>1, MergedOk
  <1>7. w.mark = to
    <2> HIDE DEF points, sources
    <2> QED BY DEF Deliver, Refuse
  <1> HIDE DEF w, all
  <1> QED BY <1>4, <1>6, <1>7, ReadyFacts, ZonesFound

\* No floor, no skipped zone: the window is delivered as a whole.
LEMMA DNSMoves ==
  ASSUME NEW from, NEW to, NEW q, Ready(from, to, q), kind \in DNSKinds, NEW required, NEW key,
         \A z \in config.discovered : Entitled(q.s[z], required)
  PROVE  DNSWindow(from, to, required, q, key).mark = to
  <1> DEFINE zones == SelectZones(DNSZones).zones
             used == {z \in zones : q.s[z].enabled \/ config.wanted # {}}
             answer == [z \in used |->
                          IF ~Entitled(q.s[z], required) \/ q.bad = z THEN Reached(QueryFailed, from)
                          ELSE QueryZone(z, from, to, q, key)]
             short == {z \in used : answer[z].until # from}
             rows == RowsReached(answer)
             gaps == {[zone |-> z, until |-> answer[z].until] : z \in short}
             skipped == zones \ used
             poll == Finish(DNSZones, used, zones \ used)
             w == [Deliver(to, rows, poll) EXCEPT !.skipped = skipped, !.gaps = gaps]
  <1>1. zones = Asked
    BY DEF SelectZones, DNSZones, Choice, Asked, Included, DNSKinds
  <1>2. /\ zones \in SUBSET config.discovered /\ \A z \in zones : Ample(q, z, from) /\ q.bad # z
        /\ zones # {}
    BY <1>1, ReadyFacts
  <1>3. used = zones /\ \A z \in zones : q.s[z].read
    BY <1>2 DEF Ample
  <1>4. ASSUME NEW z \in used PROVE answer[z].ok
    <2>1. Ample(q, z, from) /\ q.bad # z /\ Entitled(q.s[z], required)
      BY <1>2, <1>3
    <2>2. InSlices(z, from, to, q, key).ok /\ ~IsGap(InSlices(z, from, to, q, key))
      BY <2>1, ReadyFacts, InSlicesOk
    <2>3. answer[z] = QueryZone(z, from, to, q, key)
      BY <2>1
    <2>4. QueryZone(z, from, to, q, key) = Reached(InSlices(z, from, to, q, key), from)
      BY <2>2 DEF QueryZone
    <2> HIDE DEF answer
    <2> QED BY <2>2, <2>3, <2>4 DEF Reached
  <1>5. DNSWindow(from, to, required, q, key) =
          IF from >= to \/ ~q.listed \/ ~DNSZones.ok \/ (\E z \in zones : ~q.s[z].read)
               \/ (\E z \in used : ~answer[z].ok) \/ (used = {} /\ zones # {}) THEN Refuse(from)
          ELSE w
    BY DEF DNSWindow
  <1>6. w.mark = to
    <2> HIDE DEF rows, gaps, skipped, poll
    <2> QED BY DEF Deliver, Refuse
  <1> HIDE DEF w, answer, used, zones
  <1> QED BY <1>2, <1>3, <1>4, <1>5, <1>6, ReadyFacts, ZonesFound

LEMMA DNSBothMove ==
  ASSUME NEW from, NEW to, NEW q, Ready(from, to, q), kind \in DNSKinds
  PROVE  /\ kind = "dns.events" => DNSEventsWindow(from, to, q).mark = to
         /\ kind = "dns.metrics" => DNSMetricsWindow(from, to, q).mark = to
  <1>1. /\ \A z \in config.discovered : /\ Entitled(q.s[z], {"value", "host", "label"})
                                        /\ Entitled(q.s[z], {"value"})
    BY ReadyFacts, EntitledHere
  <1>2. /\ Given /\ from \in Nat /\ to \in Nat /\ from < to /\ q \in Requests
        /\ start \in Nat /\ start <= from
    BY DEF Ready
  <1>3. DNSEventsWindow(from, to, q).mark = to
    <2> DEFINE required == {"value", "host", "label"}
               d == DNSWindow(from, to, required, q, Itself)
               points == Points("log", d.points, ByHost)
    <2>1. DNSEventsWindow(from, to, q) = [d EXCEPT !.points = points]
      BY DEF DNSEventsWindow
    <2>2. d.mark = to
      <3> HIDE DEF required
      <3>1. \A z \in config.discovered : Entitled(q.s[z], required)
        BY <1>1 DEF required
      <3> QED BY <3>1, DNSMoves
    <2>3. [d EXCEPT !.points = points].mark = d.mark
      <3> HIDE DEF required, points
      <3> QED BY <1>2, DNSFields
    <2> HIDE DEF d, points
    <2> QED BY <2>1, <2>2, <2>3
  <1>4. DNSMetricsWindow(from, to, q).mark = to
    <2> DEFINE required == {"value"}
               d == DNSWindow(from, to, required, q, DNSSeries(q))
               kept == AdmitSeries({DNSSeries(q)[r] : r \in d.points} \ admitted)
               series == [r \in world |-> IF DNSSeries(q)[r] \in kept THEN DNSSeries(q)[r] ELSE Other]
               points == Points("requests", d.points, series)
    <2>1. DNSMetricsWindow(from, to, q) = [d EXCEPT !.admitted = kept, !.points = points]
      BY DEF DNSMetricsWindow
    <2>2. d.mark = to
      <3> HIDE DEF required
      <3>1. \A z \in config.discovered : Entitled(q.s[z], required)
        BY <1>1 DEF required
      <3> QED BY <3>1, DNSMoves
    <2>3. [d EXCEPT !.admitted = kept, !.points = points].mark = d.mark
      <3> HIDE DEF required, points, kept
      <3> QED BY <1>2, DNSFields
    <2> HIDE DEF d, points, kept
    <2> QED BY <2>1, <2>2, <2>3
  <1> QED BY <1>3, <1>4

\* Hours and buckets: the aligned window is not empty.
LEMMA KpiOk ==
  ASSUME NEW from, NEW to, NEW q, Ready(from, to, q), NEW lo \in Nat, NEW hi \in Nat,
         from <= lo, hi <= to, lo <= hi, NEW z \in config.discovered
  PROVE  KpiRows(z, lo, hi, q).ok
  <1>1. Ample(q, z, from) /\ world \in Worlds /\ to - from <= MaxWindow /\ from \in Nat /\ to \in Nat /\ MaxWindow \in Nat
    BY ReadyFacts
  <1>2. ~(q.s[z].span < hi - lo)
    BY <1>1 DEF Ample
  <1>3. Once(z, lo, hi, q, ByBucket).ok
    BY <1>1, FetchOk
  <1> QED BY <1>1, <1>2, <1>3, EntitledHere DEF KpiRows

LEMMA ThreatsMove ==
  ASSUME NEW from, NEW to, NEW q, Ready(from, to, q), kind = "httpreq.threats",
         CeilBucket(from) < FloorBucket(to)
  PROVE  ThreatsWindow(from, to, q).mark = FloorBucket(to)
  <1> DEFINE lo == CeilBucket(from)
             hi == FloorBucket(to)
             zones == SelectZones(MetricZones).zones
             answers == [z \in zones |-> Checked(z, KpiRows(z, lo, hi, q), q)]
             all == Merged(answers)
  <1>1. zones = Asked
    BY DEF SelectZones, MetricZones, Choice, Asked, Included, Owned
  <1>2. /\ zones \in SUBSET config.discovered /\ zones # {} /\ \A z \in zones : q.bad # z
        /\ q.listed /\ from \in Nat /\ to \in Nat
    BY <1>1, ReadyFacts
  <1>3. lo \in Nat /\ hi \in Nat /\ from <= lo /\ hi <= to /\ lo < hi /\ lo <= hi /\ ~(lo >= hi)
    BY <1>2, CeilFacts, BucketFacts
  <1>4. MetricZones.ok
    <2>1. MetricZones.eligible # {}
      BY <1>2 DEF SelectZones
    <2> QED BY <2>1 DEF MetricZones, Choice, Included
  <1>5. ~(Cardinality(zones) > SeriesLimit)
    <2>1. IsFiniteSet(config.discovered)
      BY RequestFacts DEF Ready
    <2> HIDE DEF zones
    <2>2. IsFiniteSet(zones) /\ Cardinality(zones) <= Cardinality(config.discovered)
      BY <1>2, <2>1, FS_Subset
    <2>3. Cardinality(zones) \in Nat /\ Cardinality(config.discovered) \in Nat
      BY <2>1, <2>2, FS_CardinalityType
    <2>4. Cardinality(config.discovered) <= SeriesLimit /\ SeriesLimit \in Nat
      BY LimitAssumption DEF Ready, Healthy, Roomy
    <2> QED BY <2>2, <2>3, <2>4
  <1>6. ASSUME NEW z \in zones PROVE answers[z].ok
    <2>1. answers[z] = Checked(z, KpiRows(z, lo, hi, q), q)
      OBVIOUS
    <2> HIDE DEF answers, zones, lo, hi
    <2>2. KpiRows(z, lo, hi, q).ok
      BY <1>2, <1>3, KpiOk
    <2> QED BY <1>2, <2>1, <2>2 DEF Checked
  <1>7. all.ok
    <2>1. DOMAIN answers = zones
      OBVIOUS
    <2> HIDE DEF answers, zones
    <2> QED BY <1>6, <2>1, MergedOk
  <1>8. ThreatsWindow(from, to, q) =
          IF lo >= hi THEN IF from < lo /\ lo <= to THEN Deliver(lo, {}, NotPolled) ELSE Refuse(from)
          ELSE IF ~q.listed \/ ~MetricZones.ok \/ Cardinality(zones) > SeriesLimit THEN Refuse(from)
          ELSE IF ~all.ok THEN Failure(from, all)
          ELSE Deliver(hi, Points("requests", all.rows, ByZone), Finish(MetricZones, zones, {}))
    BY DEF ThreatsWindow
  <1> HIDE DEF all, zones, lo, hi
  <1>9. ThreatsWindow(from, to, q).mark = hi
    BY <1>2, <1>3, <1>4, <1>5, <1>7, <1>8 DEF Deliver, Refuse
  <1> QED BY <1>9 DEF hi

LEMMA CompleteBucketsOk ==
  ASSUME NEW from, NEW to, NEW q, Ready(from, to, q), NEW lo \in Nat, NEW hi \in Nat,
         from <= lo, Bucket <= MaxWindow, kind = "email", NEW z \in config.discovered
  PROVE  CompleteBuckets(z, lo, hi, q).ok
  <1> DEFINE s == q.s[z]
             least == Least(s.span \div Bucket, s.page)
             span == least * Bucket
             query(v) == [w \in Parts(v[1], v[2]) |-> Fetch(z, w[1], w[2], q, ByBucket)]
             part == [v \in Parts(lo, hi) |-> Bisect(v[1], v[2], Bucket, Bucket, query(v))]
  <1>1. CompleteBuckets(z, lo, hi, q) =
          IF \/ ~Entitled(s, {"value", "bucket"}) \/ s.page = 0 \/ s.retention = 0 \/ span = 0
             \/ Aged(lo, s) THEN QueryFailed
          ELSE Sliced(lo, hi, span, part)
    BY DEF CompleteBuckets
  <1>2. Ample(q, z, from) /\ from \in Nat /\ world \in Worlds /\ MaxWindow \in Nat /\ Bucket \in Nat \ {0} /\ Cardinality(world) \in Nat
    BY ReadyFacts, BucketAssumption
  <1>3. /\ s.span \in Nat /\ s.page \in Nat /\ s.page # 0 /\ s.span >= Bucket
        /\ s.retention # 0
    BY <1>2 DEF Ample
  <1>4. least \in Nat \ {0}
    <2> DEFINE d == s.span \div Bucket
               m == s.span % Bucket
    <2>1. d \in Nat /\ m \in 0 .. Bucket - 1 /\ s.span = Bucket * d + m
      BY <1>2, <1>3, DivFacts
    <2>2. d # 0
      <3> SUFFICES ASSUME d = 0 PROVE FALSE
        OBVIOUS
      <3>1. Bucket * d = 0
        BY <1>2
      <3> HIDE DEF d, m
      <3> QED BY <1>2, <1>3, <2>1, <3>1
    <2>3. least = Least(d, s.page)
      OBVIOUS
    <2> HIDE DEF d, s, least
    <2> QED BY <1>3, <2>1, <2>2, <2>3 DEF Least
  <1>5. span \in Nat \ {0}
    <2> HIDE DEF least
    <2> QED BY <1>2, <1>4
  <1>6. ASSUME NEW v \in Parts(lo, hi), v[1] <= v[2] PROVE part[v].ok
    <2>1. v[1] \in Nat /\ v[2] \in Nat
      BY DEF Parts
    <2>2. part[v] = Bisect(v[1], v[2], Bucket, Bucket, query(v))
      OBVIOUS
    <2>3. \A w \in Parts(v[1], v[2]) : query(v)[w].ok /\ ~query(v)[w].saturated
      BY <1>2, FetchOk DEF Parts
    <2> HIDE DEF part, query
    <2>4. Bucket \in Nat
      BY <1>2
    <2>5. Bisect(v[1], v[2], Bucket, Bucket, query(v)).ok
      BY <1>2, <1>6, <2>1, <2>3, <2>4, BisectOk
    <2> QED BY <2>2, <2>5
  <1> HIDE DEF span, part
  <1>7. Sliced(lo, hi, span, part).ok
    BY <1>5, <1>6, SlicesOk
  <1> HIDE DEF s
  <1>8. Entitled(s, {"value", "bucket"}) /\ ~Aged(lo, s)
    BY <1>2, EntitledHere DEF s
  <1> QED BY <1>1, <1>3, <1>5, <1>7, <1>8

LEMMA EmailMoves ==
  ASSUME NEW from, NEW to, NEW q, Ready(from, to, q), kind = "email",
         CeilBucket(from) < FloorBucket(to), Bucket <= MaxWindow
  PROVE  EmailWindow(from, to, q).mark = FloorBucket(to)
  <1> DEFINE lo == CeilBucket(from)
             hi == FloorBucket(to)
             zones == SelectZones(AccountZones).zones
             enabled == {z \in zones : q.s[z].enabled}
             answers == [z \in enabled |-> Checked(z, CompleteBuckets(z, lo, hi, q), q)]
             all == Merged(answers)
             d == Deliver(hi, Points("requests", all.rows, [r \in world |-> Other]),
                          Finish(AccountZones, enabled, zones \ enabled))
             w == [d EXCEPT !.skipped = zones \ enabled]
  <1>1. zones = Asked
    BY DEF SelectZones, AccountZones, Choice, Asked, Included, Owned
  <1>2. /\ zones \in SUBSET config.discovered /\ zones # {} /\ \A z \in zones : Ample(q, z, from) /\ q.bad # z
        /\ q.listed /\ from \in Nat /\ to \in Nat /\ config.wanted \subseteq zones
    BY <1>1, ReadyFacts
  <1>3. lo \in Nat /\ hi \in Nat /\ from <= lo /\ lo < hi /\ ~(lo >= hi)
    BY <1>2, CeilFacts, BucketFacts
  <1>4. enabled = zones /\ ~(\E z \in zones : ~q.s[z].read)
    BY <1>2 DEF Ample
  <1>5. AccountZones.ok
    <2>1. AccountZones.eligible # {} /\ config.wanted \subseteq AccountZones.eligible
      BY <1>2 DEF SelectZones
    <2> QED BY <2>1 DEF AccountZones, Choice, Included, AllFound
  <1>6. ASSUME NEW z \in enabled PROVE answers[z].ok
    <2>1. answers[z] = Checked(z, CompleteBuckets(z, lo, hi, q), q)
      OBVIOUS
    <2>2. z \in config.discovered /\ q.bad # z
      BY <1>2, <1>4
    <2> HIDE DEF answers, enabled, lo, hi
    <2>3. CompleteBuckets(z, lo, hi, q).ok
      BY <1>3, <2>2, CompleteBucketsOk
    <2> QED BY <2>1, <2>2, <2>3 DEF Checked
  <1>7. all.ok
    <2>1. DOMAIN answers = enabled
      OBVIOUS
    <2> HIDE DEF answers, enabled
    <2> QED BY <1>6, <2>1, MergedOk
  <1>8. EmailWindow(from, to, q) =
          IF SeriesLimit = 0 \/ lo >= hi \/ ~q.listed \/ ~AccountZones.ok THEN Refuse(from)
          ELSE IF zones = {} THEN Deliver(hi, {}, Finish(AccountZones, {}, {}))
          ELSE IF (\E z \in zones : ~q.s[z].read) \/ enabled = {} \/ ~all.ok THEN Refuse(from)
          ELSE w
    BY DEF EmailWindow
  <1>9. w.mark = hi
    <2> HIDE DEF all, zones, enabled, hi
    <2> QED BY DEF Deliver, Refuse
  <1>10. SeriesLimit # 0
    BY LimitAssumption DEF Ready, Healthy, Roomy
  <1> HIDE DEF all, zones, lo, hi, enabled, w
  <1>11. EmailWindow(from, to, q).mark = hi
    BY <1>2, <1>3, <1>4, <1>5, <1>7, <1>8, <1>9, <1>10
  <1> QED BY <1>11 DEF hi

-----------------------------------------------------------------------------
(* The points of the HTTP metrics are five for a row at most. *)

AtMost(S, n) == IsFiniteSet(S) /\ Cardinality(S) <= n

LEMMA PointsFew ==
  ASSUME NEW W, IsFiniteSet(W), NEW rows \in SUBSET W, NEW metric, NEW series
  PROVE  AtMost(Points(metric, rows, series), Cardinality(W))
  <1> DEFINE share(k) == Point(metric, k, {r \in rows : series[r] = k})
             h == [r \in rows |-> share(series[r])]
             values == {h[r] : r \in rows}
  <1>1. IsFiniteSet(rows) /\ Cardinality(rows) <= Cardinality(W)
    BY FS_Subset
  <1>2. IsFiniteSet(values) /\ Cardinality(values) <= Cardinality(rows)
    <2> HIDE DEF h
    <2> QED BY <1>1, FiniteValues
  <1>3. Points(metric, rows, series) = values
    <2>1. values = {share(series[r]) : r \in rows}
      OBVIOUS
    <2>2. Points(metric, rows, series) = {share(k) : k \in {series[r] : r \in rows}}
      BY DEF Points
    <2> HIDE DEF share, values
    <2> QED BY <2>1, <2>2
  <1> HIDE DEF values
  <1>4. Cardinality(values) \in Nat /\ Cardinality(rows) \in Nat /\ Cardinality(W) \in Nat
    BY <1>1, <1>2, FS_CardinalityType
  <1> QED BY <1>1, <1>2, <1>3, <1>4 DEF AtMost

LEMMA FewTogether ==
  ASSUME NEW S, NEW T, NEW n \in Nat, NEW m \in Nat, AtMost(S, n), AtMost(T, m)
  PROVE  AtMost(S \cup T, n + m)
  <1>1. IsFiniteSet(S) /\ IsFiniteSet(T) /\ IsFiniteSet(S \cap T)
    BY FS_Subset DEF AtMost
  <1>2. /\ Cardinality(S) \in Nat /\ Cardinality(T) \in Nat /\ Cardinality(S \cap T) \in Nat
        /\ IsFiniteSet(S \cup T)
        /\ Cardinality(S \cup T) = Cardinality(S) + Cardinality(T) - Cardinality(S \cap T)
    BY <1>1, FS_CardinalityType, FS_Union
  <1> QED BY <1>2 DEF AtMost

LEMMA MetricPointsFew ==
  ASSUME IsFiniteSet(world), NEW requests \in SUBSET world, NEW details \in SUBSET world,
         NEW tops \in SUBSET world, NEW timings \in SUBSET world, NEW q,
         5 * Cardinality(world) <= SeriesLimit
  PROVE  ~(Cardinality(MetricPoints(requests, details, tops, timings, q)) > SeriesLimit)
  <1> DEFINE visited == {r \in requests : "visits" \in GroupFields(q.s[r.zone])}
             high == {r \in tops : config.topHosts = {} \/ r.host \in config.topHosts}
             large == Largest(InScope(timings))
             topSeries == [r \in high |-> TopSeries(high, r)]
             lateSeries == [r \in world |-> ByZone[r] + r.host]
             a == Points("requests", requests, ByHost)
             b == Points("visits", visited, ByZone)
             c == Points("detail", details, ByLabel)
             d == Points("top", high, topSeries)
             e == Points("latency", large, lateSeries)
             n == Cardinality(world)
  <1>1. MetricPoints(requests, details, tops, timings, q) = a \cup b \cup c \cup d \cup e
    BY DEF MetricPoints
  <1>2. visited \in SUBSET world /\ high \in SUBSET world /\ large \in SUBSET world
    BY DEF Largest, InScope
  <1> HIDE DEF visited, high, large, topSeries, lateSeries
  <1>3. AtMost(a, n) /\ AtMost(b, n) /\ AtMost(c, n) /\ AtMost(d, n) /\ AtMost(e, n)
    BY <1>2, PointsFew
  <1>4. n \in Nat
    BY FS_CardinalityType
  <1> HIDE DEF a, b, c, d, e, n
  <1>5. n + n \in Nat /\ n + n + n \in Nat /\ n + n + n + n \in Nat
    BY <1>4
  <1>6. AtMost(a \cup b, n + n)
    BY <1>3, <1>4, FewTogether
  <1>7. AtMost(a \cup b \cup c, n + n + n)
    BY <1>3, <1>4, <1>5, <1>6, FewTogether
  <1>8. AtMost(a \cup b \cup c \cup d, n + n + n + n)
    BY <1>3, <1>4, <1>5, <1>7, FewTogether
  <1>9. AtMost(a \cup b \cup c \cup d \cup e, n + n + n + n + n)
    BY <1>3, <1>4, <1>5, <1>8, FewTogether
  <1> DEFINE all == a \cup b \cup c \cup d \cup e
  <1> HIDE DEF all
  <1>10. Cardinality(all) \in Nat
    BY <1>9, FS_CardinalityType DEF AtMost, all
  <1>11. Cardinality(all) <= n + n + n + n + n
    BY <1>9 DEF AtMost, all
  <1>12. 5 * n <= SeriesLimit /\ SeriesLimit \in Nat
    BY LimitAssumption DEF n
  <1>13. ~(Cardinality(all) > SeriesLimit)
    BY <1>4, <1>10, <1>11, <1>12
  <1> QED BY <1>1, <1>13 DEF all

LEMMA HostsFew ==
  ASSUME IsFiniteSet(world), NEW rows \in SUBSET world,
         Cardinality({r.host : r \in InScope(world)}) <= HostLimit
  PROVE  FewHosts(rows)
  <1> DEFINE wide == {r.host : r \in InScope(world)}
             hosts == {r.host : r \in InScope(rows)}
             scope == InScope(world)
             h == [r \in scope |-> r.host]
  <1>1. IsFiniteSet(scope)
    BY FS_Subset DEF InScope
  <1>2. wide = {h[r] : r \in scope}
    OBVIOUS
  <1>3. IsFiniteSet(wide)
    <2> HIDE DEF wide, h, scope
    <2> QED BY <1>1, <1>2, FiniteValues
  <1>4. hosts \in SUBSET wide
    BY DEF InScope
  <1>5. IsFiniteSet(hosts) /\ Cardinality(hosts) <= Cardinality(wide)
    <2> HIDE DEF hosts, wide
    <2> QED BY <1>3, <1>4, FS_Subset
  <1>6. Cardinality(hosts) \in Nat /\ Cardinality(wide) \in Nat /\ HostLimit \in Nat
    <2> HIDE DEF hosts, wide
    <2> QED BY <1>3, <1>5, FS_CardinalityType, LimitAssumption
  <1>7. Cardinality(wide) <= HostLimit
    OBVIOUS
  <1> HIDE DEF hosts, wide
  <1>8. Cardinality(hosts) <= HostLimit
    BY <1>5, <1>6, <1>7
  <1> QED BY <1>8 DEF FewHosts, hosts

\* Each query of a healthy zone's metrics succeeds, with rows of the world.
LEMMA ZoneMetricsOk ==
  ASSUME NEW from, NEW to, NEW q, Ready(from, to, q), kind = "httpreq.metrics",
         NEW z \in config.discovered
  PROVE  /\ Grouped(z, from, to, q).ok /\ Grouped(z, from, to, q).rows \in SUBSET world
         /\ Breakdowns(z, from, to, q).ok /\ Breakdowns(z, from, to, q).rows \in SUBSET world
         /\ HighCardinality(z, from, to, q).ok /\ HighCardinality(z, from, to, q).rows \in SUBSET world
         /\ Latencies(z, from, to, q).ok /\ Latencies(z, from, to, q).rows \in SUBSET world
  <1>1. /\ Ample(q, z, from) /\ world \in Worlds /\ from \in Nat /\ to \in Nat /\ MaxWindow > 0
        /\ to - from <= MaxWindow /\ MaxWindow \in Nat
    BY ReadyFacts
  <1>2. \A key : InSlices(z, from, to, q, key).ok /\ ~IsGap(InSlices(z, from, to, q, key))
    BY <1>1, InSlicesOk
  <1>3. \A key : Once(z, from, to, q, key).ok
    BY <1>1, FetchOk
  <1>4. Rows({}).ok
    BY DEF Rows
  <1>5. Given /\ Readable(q, z)
    BY RequestFacts DEF Ready
  <1>6. Cardinality(RowsIn(z, from, to)) < RowLimit
    BY DEF Ready, Healthy, Roomy, RowsIn
  <1>7. ASSUME NEW key PROVE InLimit(InSlices(z, from, to, q, key), from, q.s[z], key).ok
    <2> DEFINE answer == InSlices(z, from, to, q, key)
    <2>1. Exact(answer, z, from, to)
      BY <1>1, <1>5, InSlicesExact DEF Given
    <2>2. answer.ok
      BY <1>2
    <2> HIDE DEF answer
    <2>3. InLimit(answer, from, q.s[z], key).ok
      BY <1>1, <1>6, <2>1, <2>2, InLimitOk
    <2> QED BY <2>3 DEF answer
  <1>8. Grouped(z, from, to, q).ok
    BY <1>1, <1>7, EntitledHere DEF Grouped
  <1>9. Latencies(z, from, to, q).ok
    BY <1>4, <1>7 DEF Latencies
  <1>10. Breakdowns(z, from, to, q).ok
    <2>1. ~(q.s[z].span < to - from) /\ "value" \in q.s[z].offered
      BY <1>1 DEF Ample, Needed
    <2>2. q.s[z].read /\ q.s[z].enabled
      BY <1>1 DEF Ample
    <2> QED BY <1>3, <1>4, <2>1, <2>2 DEF Breakdowns
  <1>11. HighCardinality(z, from, to, q).ok
    <2>1. TopLimit > 0 /\ TopLimit \in Nat
      BY LimitAssumption DEF Ready, Healthy, Roomy
    <2>2. ~(TopLimit < 1) /\ q.s[z].read /\ q.s[z].enabled
      BY <1>1, <2>1 DEF Ample
    <2> QED BY <1>2, <1>4, <1>7, <2>2 DEF HighCardinality
  <1>12. /\ Exact(Grouped(z, from, to, q), z, from, to)
         /\ Within(Breakdowns(z, from, to, q), z, from, to)
         /\ Within(HighCardinality(z, from, to, q), z, from, to)
         /\ Within(Latencies(z, from, to, q), z, from, to)
    BY <1>1, <1>5, GroupedExact DEF Given
  <1>13. RowsIn(z, from, to) \subseteq world
    BY DEF RowsIn
  <1> QED BY <1>8, <1>9, <1>10, <1>11, <1>12, <1>13 DEF Exact, Within

\* Few hosts and few points: the window of the four queries is delivered.
LEMMA MetricsMove ==
  ASSUME NEW from, NEW to, NEW q, Ready(from, to, q), kind = "httpreq.metrics"
  PROVE  MetricsWindow(from, to, q).mark = to
  <1> DEFINE zones == SelectZones(MetricZones).zones
             groups == [z \in zones |-> Grouped(z, from, to, q)]
             details == [z \in zones |-> Breakdowns(z, from, to, q)]
             tops == [z \in zones |-> HighCardinality(z, from, to, q)]
             timings == [z \in zones |-> Latencies(z, from, to, q)]
             few(z) == IF FewHosts(groups[z].rows) THEN Rows({}) ELSE QueryFailed
             turn(z) == InTurn(<<details[z], tops[z], groups[z], few(z), timings[z], groups[z]>>)
             answers == [z \in zones |-> Checked(z, turn(z), q)]
             all == Merged(answers)
             rowsOf(parts) == UNION {parts[z].rows : z \in zones}
             points == MetricPoints(InScope(all.rows), rowsOf(details), rowsOf(tops), rowsOf(timings), q)
             w == Deliver(to, points, Finish(MetricZones, zones, {}))
  <1>1. zones = Asked
    BY DEF SelectZones, MetricZones, Choice, Asked, Included, Owned
  <1>2. /\ zones \in SUBSET config.discovered /\ zones # {} /\ \A z \in zones : q.bad # z
        /\ q.listed /\ IsFiniteSet(world) /\ zones \in SUBSET Nat
    <2>1. config.discovered \in SUBSET Nat
      BY RequestFacts DEF Ready
    <2> QED BY <1>1, <2>1, ReadyFacts
  <1>3. MetricZones.ok
    <2>1. MetricZones.eligible # {}
      BY <1>2 DEF SelectZones
    <2> QED BY <2>1 DEF MetricZones, Choice, Included
  <1>4. /\ HostLimit # 0 /\ SeriesLimit # 0 /\ 5 * Cardinality(world) <= SeriesLimit
        /\ Cardinality({r.host : r \in InScope(world)}) <= HostLimit
    <2>1. /\ HostLimit # 0 /\ SeriesLimit # 0 /\ 6 * Cardinality(world) <= SeriesLimit
          /\ Cardinality({r.host : r \in InScope(world)}) <= HostLimit
      BY LimitAssumption DEF Ready, Healthy, Roomy
    <2>2. Cardinality(world) \in Nat
      BY <1>2, FS_CardinalityType
    <2> QED BY <2>1, <2>2, LimitAssumption
  <1>5. ASSUME NEW z \in zones
        PROVE  /\ groups[z].ok /\ groups[z].rows \in SUBSET world
               /\ details[z].ok /\ details[z].rows \in SUBSET world
               /\ tops[z].ok /\ tops[z].rows \in SUBSET world
               /\ timings[z].ok /\ timings[z].rows \in SUBSET world
    <2>1. z \in config.discovered
      BY <1>2
    <2>2. /\ groups[z] = Grouped(z, from, to, q) /\ details[z] = Breakdowns(z, from, to, q)
          /\ tops[z] = HighCardinality(z, from, to, q) /\ timings[z] = Latencies(z, from, to, q)
      OBVIOUS
    <2> HIDE DEF groups, details, tops, timings, zones
    <2> QED BY <2>1, <2>2, ZoneMetricsOk
  <1>6. MetricsWindow(from, to, q) =
          IF ~q.listed \/ ~MetricZones.ok \/ HostLimit = 0 \/ SeriesLimit = 0 THEN Refuse(from)
          ELSE IF ~all.ok THEN Failure(from, all)
          ELSE IF Cardinality(points) > SeriesLimit THEN Refuse(from)
          ELSE w
    BY DEF MetricsWindow
  <1>7. DOMAIN answers = zones /\ \A z \in zones : answers[z] = Checked(z, turn(z), q)
    OBVIOUS
  <1> HIDE DEF answers, groups, details, tops, timings, zones
  <1>8. ASSUME NEW z \in zones PROVE turn(z).ok /\ turn(z).rows \in SUBSET world
    <2>1. few(z).ok /\ few(z).rows \in SUBSET world
      BY <1>2, <1>4, <1>5, HostsFew DEF Rows
    <2> HIDE DEF few
    <2>2. turn(z) \in {details[z], tops[z], groups[z], few(z), timings[z], groups[z]}
      BY InTurnOk
    <2> HIDE DEF turn
    <2> QED BY <1>5, <2>1, <2>2
  <1> HIDE DEF turn, few
  <1>9. \A z \in zones : answers[z].ok /\ answers[z].rows \in SUBSET world
    BY <1>2, <1>7, <1>8 DEF Checked
  <1>10. all.ok
    BY <1>7, <1>9, MergedOk
  <1>11. all.rows \in SUBSET world
    <2>1. \A z \in zones : IsGap(answers[z]) => answers[z].floor \in Int /\ answers[z].floor <= now
      BY <1>9 DEF IsGap
    <2>2. now \in Nat
      BY DEF Ready, Given
    <2>3. all.rows = UNION {answers[z].rows : z \in zones}
      BY <1>2, <1>7, <1>10, <2>1, <2>2, MergedExact
    <2> QED BY <1>9, <2>3
  <1> HIDE DEF all
  <1>12. InScope(all.rows) \in SUBSET world
    BY <1>11 DEF InScope
  <1>13. rowsOf(details) \in SUBSET world /\ rowsOf(tops) \in SUBSET world /\ rowsOf(timings) \in SUBSET world
    BY <1>5
  <1> HIDE DEF rowsOf
  <1>14. ~(Cardinality(points) > SeriesLimit)
    <2> DEFINE requests == InScope(all.rows)
               detailRows == rowsOf(details)
               topRows == rowsOf(tops)
               timingRows == rowsOf(timings)
    <2>1. /\ requests \in SUBSET world /\ detailRows \in SUBSET world /\ topRows \in SUBSET world
          /\ timingRows \in SUBSET world
      BY <1>12, <1>13
    <2> HIDE DEF requests, detailRows, topRows, timingRows
    <2>2. ~(Cardinality(MetricPoints(requests, detailRows, topRows, timingRows, q)) > SeriesLimit)
      BY <1>2, <1>4, <2>1, MetricPointsFew
    <2> QED BY <2>2 DEF requests, detailRows, topRows, timingRows
  <1> HIDE DEF points
  <1>15. w.mark = to
    BY DEF Deliver, Refuse
  <1> HIDE DEF w
  <1> QED BY <1>2, <1>3, <1>4, <1>6, <1>10, <1>14, <1>15

-----------------------------------------------------------------------------
(* The checkpoint moves. *)

\* A max_window that, for the kinds that take whole buckets, holds one
\* wherever it begins.
WideEnough == MaxWindow > 0 /\ (Kinds \cap Bucketed # {} => 2 * Bucket <= MaxWindow + 1)

\* A whole bucket, or for the others a moment, before the lag leaves room for a window.
LEMMA RoomThere ==
  ASSUME Typed, Available, WideEnough
  PROVE  /\ mark < Until /\ Until \in Nat /\ Until <= mark + MaxWindow
         /\ kind \in Bucketed => Bucket <= MaxWindow /\ CeilBucket(mark) < FloorBucket(Until)
  <1>0. /\ now \in Nat /\ Holdback <= now /\ mark \in Nat /\ Holdback \in Nat /\ MaxWindow \in Nat
        /\ Bucket \in Nat \ {0} /\ MaxTime \in Nat
        /\ MaxWindow > 0 /\ (kind \in Bucketed => 2 * Bucket <= MaxWindow + 1)
    BY LimitAssumption, BucketAssumption DEF Typed, WideEnough
  <1>1. MaxWindow > 0 /\ (kind \in Bucketed => Bucket <= MaxWindow)
    BY <1>0
  <1>2. CASE kind \notin Bucketed
    <2>1. mark + Holdback < now /\ Lag = Holdback
      BY <1>2 DEF Available, Lag
    <2>2. now - Holdback \in Nat /\ mark < now - Holdback /\ mark < mark + MaxWindow
      BY <1>0, <1>1, <2>1
    <2> QED BY <1>0, <1>1, <1>2, <2>1, <2>2 DEF Until, Least
  <1>3. CASE kind \in Bucketed
    <2>1. PICK b \in 0 .. MaxTime : mark <= b * Bucket /\ (b + 1) * Bucket + Holdback <= now
      BY <1>3 DEF Available
    <2> DEFINE x == Bucket * b
               behind == now - Holdback
               low == FloorBucket(behind)
               lo == CeilBucket(mark)
               far == mark + MaxWindow
    <2>2. b \in Nat /\ b * Bucket = x /\ (b + 1) * Bucket = x + Bucket
      BY <1>0
    <2>3. x \in Nat /\ Aligned(x)
      BY <2>2, TimesBucket
    <2> HIDE DEF x
    <2>4. mark <= x /\ x + Bucket + Holdback <= now
      BY <2>1, <2>2
    <2>5. behind \in Nat /\ x + Bucket <= behind
      BY <1>0, <2>3, <2>4
    <2>6. now - (now - low) = low \/ low \notin Nat
      BY <1>0
    <2>7. LagAt(now, Holdback) = now - low
      BY DEF LagAt
    <2> HIDE DEF behind
    <2>8. low \in Nat /\ low <= behind /\ behind < low + Bucket /\ Aligned(low)
      BY <2>5, BucketFacts
    <2>9. lo \in Nat /\ Aligned(lo) /\ mark <= lo /\ lo < mark + Bucket /\ lo <= x
      <3>1. FloorBucket(x) = x
        BY <2>3, BucketFacts
      <3> QED BY <1>0, <2>3, <2>4, <3>1, CeilFacts
    <2>10. Aligned(lo + Bucket)
      <3>1. Bucket % Bucket = 0 /\ Aligned(Bucket)
        BY <1>0 DEF Aligned
      <3> HIDE DEF lo
      <3> QED BY <1>0, <2>9, <3>1, AlignedSteps
    <2>11. lo + Bucket <= behind /\ lo + Bucket \in Nat
      <3> HIDE DEF lo
      <3> QED BY <1>0, <2>3, <2>5, <2>9
    <2>12. lo + Bucket <= low
      <3> HIDE DEF lo
      <3> QED BY <2>5, <2>10, <2>11, BucketOrder
    <2>13. far \in Nat /\ lo + Bucket <= far
      <3> HIDE DEF lo
      <3> QED BY <1>0, <1>3, <2>9
    <2>14. Until = Least(low, far)
      <3>1. Lag = now - low
        BY <1>3, <2>7 DEF Lag
      <3>2. now - Lag = low
        <4> HIDE DEF low
        <4> QED BY <2>6, <2>8, <3>1
      <3> HIDE DEF low
      <3> QED BY <3>2 DEF Until
    <2>15. Until \in Nat /\ lo + Bucket <= Until /\ Until <= far
      <3> HIDE DEF lo, low, far
      <3> QED BY <2>8, <2>11, <2>12, <2>13, <2>14 DEF Least
    <2>16. lo + Bucket <= FloorBucket(Until) /\ FloorBucket(Until) \in Nat
      <3> HIDE DEF lo
      <3> QED BY <2>10, <2>11, <2>15, BucketOrder, BucketFacts
    <2>17. mark < Until /\ lo < FloorBucket(Until)
      <3> HIDE DEF lo
      <3> QED BY <1>0, <2>9, <2>15, <2>16
    <2> QED BY <1>1, <1>3, <2>15, <2>17
  <1> QED BY <1>2, <1>3

LEMMA HealthyMoves ==
  ASSUME ZoneInv, WideEnough
  PROVE  ZonesMove
  <1> SUFFICES ASSUME Available, NEW q \in Requests, Healthy(q) PROVE Window(mark, Until, q).mark > mark
    BY DEF ZonesMove
  <1>1. Typed /\ kind \in Kinds /\ mark \in Nat
    BY DEF ZoneInv, Typed
  <1>2. /\ mark < Until /\ Until \in Nat /\ Until <= mark + MaxWindow
        /\ kind \in Bucketed => Bucket <= MaxWindow /\ CeilBucket(mark) < FloorBucket(Until)
    BY <1>1, RoomThere
  <1>3. Given
    BY <1>1 DEF Typed, Given
  <1>4. Ready(mark, Until, q)
    BY <1>1, <1>2, <1>3 DEF Ready, Typed
  <1>5. Promise(Window(mark, Until, q), mark)
    BY <1>1, <1>2, <1>3, WindowPromise DEF Typed
  <1> DEFINE to == Until
  <1> HIDE DEF to
  <1>6. Ready(mark, to, q) /\ to # mark /\ to \in Nat
        /\ (kind \in Bucketed => CeilBucket(mark) < FloorBucket(to))
    BY <1>1, <1>2, <1>4 DEF to
  <1>7. kind \in Bucketed => FloorBucket(to) # mark
    <2>1. CeilBucket(mark) \in Nat /\ mark <= CeilBucket(mark) /\ FloorBucket(to) \in Nat
      BY <1>1, <1>6, CeilFacts, BucketFacts
    <2> QED BY <1>1, <1>6, <2>1
  <1>8. Window(mark, to, q).mark # mark
    <2>1. CASE kind = "httpreq.events"
      BY <1>6, <2>1, EventsMove DEF Window
    <2>2. CASE kind = "httpreq.metrics"
      BY <1>6, <2>2, MetricsMove DEF Window
    <2>3. CASE kind = "httpreq.threats"
      BY <1>6, <1>7, <2>3, ThreatsMove DEF Window, Bucketed
    <2>4. CASE kind = "email"
      BY <1>2, <1>6, <1>7, <2>4, EmailMoves DEF Window, Bucketed
    <2>5. CASE kind = "dns.events"
      BY <1>6, <2>5, DNSBothMove DEF Window, DNSKinds
    <2>6. CASE kind = "dns.metrics"
      BY <1>6, <2>6, DNSBothMove DEF Window, DNSKinds
    <2>7. CASE kind = "firewall.events"
      BY <1>6, <2>7, FirewallEventsMove DEF Window
    <2>8. CASE kind = "firewall.metrics"
      BY <1>6, <2>8, FirewallMetricsMove DEF Window
    <2> QED BY <1>1, <2>1, <2>2, <2>3, <2>4, <2>5, <2>6, <2>7, <2>8, KindAssumption
  <1> DEFINE w == Window(mark, to, q)
  <1> HIDE DEF w
  <1>9. w.mark # mark /\ Promise(w, mark)
    BY <1>5, <1>8 DEF w, to
  <1>10. w.mark \in Nat /\ mark < w.mark
    BY <1>9 DEF Promise, Sound
  <1> QED BY <1>1, <1>10 DEF w, to

\* Once a max_window holds a whole bucket wherever the checkpoint stands, no
\* zone collector is stuck: whatever zones it skipped, cut or folded before, a
\* healthy poll with something to collect moves its checkpoint (the bound of
\* runWindow and the early returns of each CollectWindow).
THEOREM ZonesAlwaysMove ==
  ASSUME WideEnough
  PROVE  Spec => []ZonesMove
  <1>1. ZoneInv => ZonesMove
    BY HealthyMoves
  <1> QED BY <1>1, ZoneInvAlways, PTL
==============================================================================
