--------------------------- MODULE NamedCollectors ---------------------------
(***************************************************************************)
(* CollectWindow of the collectors whose series carry names listed by the  *)
(* REST API: d1, kv, queues and durableobjects.  Each package has its own  *)
(* copy of the fields it selects, the rows it asks for and what it does    *)
(* with an answer it does not expect; each result is what the window       *)
(* delivers, or a refusal that leaves the cursor where it was.             *)
(***************************************************************************)
EXTENDS GroupedWindows

\* The bounds a dataset must advertise before some collectors query it.
Limited(s) == s.page > 0 /\ s.span > 0 /\ s.retention > 0

\* A window <<from, to>> contains the complete buckets of <<Lo, Hi>>.
Lo(from) == CeilBucket(from)
Hi(to) == FloorBucket(to)
Empty(from, to) == from >= to \/ Lo(from) >= Hi(to)

Failed == [ok |-> FALSE, points |-> {}]
Series(points) == [ok |-> TRUE, points |-> points]

-----------------------------------------------------------------------------
\* d1: named counters or gauges, then the account-level depth series.
D1Fields(s) == Chosen(s, {"value", "bucket"}, <<"resource">>)

D1Rows(lo, hi, q) ==
  OnBuckets(lo, hi, [w \in Parts(lo, hi) |->
    Paged(Answer(w[1], w[2], lo, hi, q, Keyed(D1Fields(q.s))), q.s.page)])

D1Aggregate(rows, lo, hi, isGauge, name) == Aggregate(rows, lo, hi, isGauge, name)

\* The whole answer is validated before a name is admitted.
D1Named(rows, lo, hi, isGauge, q) ==
  LET used == NamedRows(rows, lo, hi, isGauge)
      names == NamesOf(used, q)
  IN  [ok |-> D1Aggregate(rows, lo, hi, isGauge, ByAccount(rows)).ok, admitted |-> names,
       points |-> D1Aggregate(used, lo, hi, isGauge, SeriesOf(used, names, q)).points]

D1DepthRowsAgain(lo, hi, q) ==
  OnBuckets(Greatest(lo, Bucket) - Bucket, hi, [w \in Parts(0, hi) |->
    Strict(Answer(w[1], w[2], lo, hi, q, ByNone), w[1], w[2], q.s.page)])

D1DepthRows(lo, hi, q) ==
  IF FloorBucket(q.s.span) = 0 \/ q.s.retention = 0 THEN QueryFailed
  ELSE Sliced(lo, hi, FloorBucket(q.s.span), [v \in Parts(lo, hi) |->
         OnBuckets(v[1], v[2], [w \in Parts(v[1], v[2]) |->
           Strict(Answer(w[1], w[2], lo, hi, q, ByNone), w[1], w[2], q.s.page)])])

\* Counters over every bucket, statistics from the newest one.
D1Depth(lo, hi, q) ==
  LET rows == D1DepthRows(lo, hi, q)
  IN  IF "depth" \notin q.s.offered \/ q.s.fields <= 1 THEN Series({})
      ELSE IF ~rows.ok \/ Twice(rows.rows) \/ ~Sound(rows.rows) THEN Failed
      ELSE Series(Counters(rows.rows, Depth, ByAccount(rows.rows))
                    \cup Gauges(rows.rows, DepthLevel, ByAccount(rows.rows)))

D1Window(from, to, isGauge, q) ==
  LET lo == Lo(from)
      hi == Hi(to)
      rows == D1Rows(lo, hi, q)
      named == D1Named(rows.rows, lo, hi, isGauge, q)
      depth == IF isGauge THEN Series({}) ELSE D1Depth(lo, hi, q)
  IN  IF Empty(from, to) \/ q.s.page = 0 \/ ~Entitled(q.s, {"value", "bucket"})
           \/ ~rows.ok \/ ~named.ok THEN Refuse(from)
      ELSE IF ~depth.ok \/ SeriesCap = 0
           THEN [Refuse(from) EXCEPT !.admitted = named.admitted]
      ELSE WithDepth(hi, named, depth, SeriesCap)

-----------------------------------------------------------------------------
\* kv: as d1, without the depth series.
KVFields(s) == Chosen(s, {"value", "bucket"}, <<"resource">>)

KVRows(lo, hi, q) ==
  OnBuckets(lo, hi, [w \in Parts(lo, hi) |->
    Paged(Answer(w[1], w[2], lo, hi, q, Keyed(KVFields(q.s))), q.s.page)])

KVAggregate(rows, lo, hi, isGauge, name) == Aggregate(rows, lo, hi, isGauge, name)

KVNamed(rows, lo, hi, isGauge, q) ==
  LET used == NamedRows(rows, lo, hi, isGauge)
      names == NamesOf(used, q)
  IN  [ok |-> KVAggregate(rows, lo, hi, isGauge, ByAccount(rows)).ok, admitted |-> names,
       points |-> KVAggregate(used, lo, hi, isGauge, SeriesOf(used, names, q)).points]

KVWindow(from, to, isGauge, q) ==
  LET lo == Lo(from)
      hi == Hi(to)
      rows == KVRows(lo, hi, q)
      named == KVNamed(rows.rows, lo, hi, isGauge, q)
      kept == Capped(named.points, SeriesCap)
  IN  IF Empty(from, to) \/ q.s.page = 0 \/ ~Entitled(q.s, {"value", "bucket"})
           \/ ~rows.ok \/ ~named.ok THEN Refuse(from)
      ELSE IF SeriesCap = 0 THEN [Refuse(from) EXCEPT !.admitted = named.admitted]
      ELSE Deliver(hi, kept, named.points \ kept, named.admitted)

-----------------------------------------------------------------------------
\* queues: a gauge is a maximum over queues and cannot do without their ids;
\* a bucket outside its query, in the leaf or in the window, is refused.
QueueRequired(isGauge) == {"value", "bucket"} \cup (IF isGauge THEN {"resource"} ELSE {})

QueuePlan(s, isGauge) ==
  [ok |-> Limited(s) /\ Entitled(s, QueueRequired(isGauge)),
   fields |-> Chosen(s, QueueRequired(isGauge), IF isGauge THEN <<>> ELSE <<"resource">>)]

QueueRows(lo, hi, fields, q) ==
  OnBuckets(lo, hi, [w \in Parts(lo, hi) |->
    Strict(Answer(w[1], w[2], lo, hi, q, Keyed(fields)), w[1], w[2], q.s.page)])

QueueAggregate(rows, lo, hi, isGauge, name) ==
  LET all == Aggregate(rows, lo, hi, isGauge, name)
  IN  [all EXCEPT !.ok = @ /\ Whole(rows, lo, hi) = rows
                           /\ (isGauge => \A r \in rows : r.id # Blank)]

QueueNamed(rows, lo, hi, isGauge, q) ==
  LET used == NamedRows(rows, lo, hi, isGauge)
      names == NamesOf(used, q)
  IN  [ok |-> QueueAggregate(rows, lo, hi, isGauge, ByAccount(rows)).ok, admitted |-> names,
       points |-> QueueAggregate(used, lo, hi, isGauge, SeriesOf(used, names, q)).points]

QueueDepthRows(lo, hi, q, key) ==
  IF FloorBucket(q.s.span) = 0 THEN QueryFailed
  ELSE Sliced(lo, hi, FloorBucket(q.s.span), [v \in Parts(lo, hi) |->
         OnBuckets(v[1], v[2], [w \in Parts(v[1], v[2]) |->
           Strict(Answer(w[1], w[2], lo, hi, q, key), w[1], w[2], q.s.page)])])

\* Averages: the largest of the newest bucket's queues.  Billable operations:
\* a counter over the whole window, where all five fields are to be had.
QueueDepth(lo, hi, q) ==
  LET lag == IF {"depth", "resource"} \subseteq q.s.offered /\ q.s.fields > 2
             THEN QueueDepthRows(lo, hi, q, ById) ELSE Rows({})
      bill == IF "actions" \in q.s.offered /\ q.s.fields >= 5
              THEN QueueDepthRows(lo, hi, q, ByNone) ELSE Rows({})
  IN  IF ~lag.ok \/ Twice(lag.rows) \/ (\E r \in lag.rows : r.id = Blank)
           \/ ~Sound(NewestOf(lag.rows)) \/ ~bill.ok \/ ~Sound(bill.rows) \/ Twice(bill.rows)
      THEN Failed
      ELSE Series(Gauges(NewestOf(lag.rows), DepthLevel, ByAccount(lag.rows))
                    \cup Counters(bill.rows, Depth, ByAccount(bill.rows)))

QueueWindow(from, to, isGauge, q) ==
  LET lo == Lo(from)
      hi == Hi(to)
      plan == QueuePlan(q.s, isGauge)
      rows == QueueRows(lo, hi, plan.fields, q)
      named == QueueNamed(rows.rows, lo, hi, isGauge, q)
      depth == IF isGauge THEN Series({}) ELSE QueueDepth(lo, hi, q)
  IN  IF Empty(from, to) \/ ~plan.ok \/ ~rows.ok \/ ~named.ok THEN Refuse(from)
      ELSE IF ~depth.ok THEN [Refuse(from) EXCEPT !.admitted = named.admitted]
      ELSE WithDepth(hi, named, depth, IF SeriesCap = 0 THEN DefaultCap ELSE SeriesCap)

-----------------------------------------------------------------------------
\* durableobjects: as d1; the depth series of invocations are by script.
DOFields(s) == Chosen(s, {"value", "bucket"}, <<"resource">>)

DORows(lo, hi, q) ==
  OnBuckets(lo, hi, [w \in Parts(lo, hi) |->
    Paged(Answer(w[1], w[2], lo, hi, q, Keyed(DOFields(q.s))), q.s.page)])

DOAggregate(rows, lo, hi, isGauge, name) == Aggregate(rows, lo, hi, isGauge, name)

DONamed(rows, lo, hi, isGauge, q) ==
  LET used == NamedRows(rows, lo, hi, isGauge)
      names == NamesOf(used, q)
  IN  [ok |-> DOAggregate(rows, lo, hi, isGauge, ByAccount(rows)).ok, admitted |-> names,
       points |-> DOAggregate(used, lo, hi, isGauge, SeriesOf(used, names, q)).points]

DODepthRows(lo, hi, q) ==
  IF FloorBucket(q.s.span) = 0 THEN QueryFailed
  ELSE Sliced(lo, hi, FloorBucket(q.s.span), [v \in Parts(lo, hi) |->
         OnBuckets(v[1], v[2], [w \in Parts(v[1], v[2]) |->
           Strict(Answer(w[1], w[2], lo, hi, q, ById), w[1], w[2], q.s.page)])])

\* Every row's count is checked; a row without a script then counts nowhere.
DODepth(lo, hi, q) ==
  LET rows == DODepthRows(lo, hi, q)
      scripts == {r \in rows.rows : r.id # Blank}
      script == [r \in scripts |-> r.id]
  IN  IF ~({"depth", "resource"} \subseteq q.s.offered) \/ q.s.fields <= 2 THEN Series({})
      ELSE IF ~rows.ok \/ ~Sound(rows.rows) \/ Twice(scripts) THEN Failed
      ELSE Series(Counters(scripts, Depth, script) \cup Gauges(scripts, DepthLevel, script))

DOWindow(from, to, isGauge, q) ==
  LET lo == Lo(from)
      hi == Hi(to)
      rows == DORows(lo, hi, q)
      named == DONamed(rows.rows, lo, hi, isGauge, q)
      depth == IF isGauge THEN Series({}) ELSE DODepth(lo, hi, q)
  IN  IF SeriesCap = 0 \/ Empty(from, to) \/ ~Limited(q.s) \/ ~Entitled(q.s, {"value", "bucket"})
           \/ ~rows.ok \/ ~named.ok THEN Refuse(from)
      ELSE IF ~depth.ok THEN [Refuse(from) EXCEPT !.admitted = named.admitted]
      ELSE WithDepth(hi, named, depth, SeriesCap)
=============================================================================
