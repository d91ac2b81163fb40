------------------------- MODULE ResourceCollectors -------------------------
(***************************************************************************)
(* CollectWindow of the collectors whose series need no REST lookup: r2    *)
(* (names in the rows), workersai and turnstile (account totals), workers  *)
(* (scripts), and the three that have no bucket dimension: RUM page loads, *)
(* RUM web vitals and Gateway DNS.                                         *)
(***************************************************************************)
EXTENDS NamedCollectors

CONSTANT Rolling    \* the interval web vitals are asked for, in ticks

\* r2: a bucket outside its query is refused; a resource name that is absent,
\* blank or too long is the remainder.
R2Plan(s) ==
  [ok |-> Limited(s) /\ Entitled(s, {"value", "bucket"}),
   fields |-> Chosen(s, {"value", "bucket"}, <<"resource">>)]

R2Rows(lo, hi, fields, q) ==
  OnBuckets(lo, hi, [w \in Parts(lo, hi) |->
    LET rows == Answer(w[1], w[2], lo, hi, q, Keyed(fields))
    IN  IF Cardinality(rows) >= q.s.page THEN Saturated
        ELSE IF \A r \in rows : w[1] <= r.at /\ r.at < w[2] THEN Rows(rows) ELSE QueryFailed])

\* A gauge keeps the newest bucket of each resource.
R2Points(rows, lo, hi, isGauge) ==
  LET resource == [r \in rows |-> IF r.id = Blank THEN Other ELSE r.id]
      all == Aggregate(rows, lo, hi, isGauge, resource)
  IN  [all EXCEPT !.ok = @ /\ Whole(rows, lo, hi) = rows]

\* Resources beyond the cap are merged: counters add up, gauges keep the largest.
R2Cap(points) ==
  LET names == Admit({p.name : p \in points})
      series(p) == IF p.name \in names THEN p.name ELSE Other
      value(ps) == IF \E p \in ps : p.gauge THEN Max({p.value : p \in ps})
                   ELSE Total(ps, [p \in ps |-> p.value])
      merged(name) == {p \in points : series(p) = name}
  IN  [admitted |-> names,
       points |-> {Point(Main, name, \E p \in merged(name) : p.gauge, value(merged(name)),
                         Max({p.at : p \in merged(name)})) : name \in {series(p) : p \in points}}]

R2Window(from, to, isGauge, q) ==
  LET plan == R2Plan(q.s)
      rows == R2Rows(Lo(from), Hi(to), plan.fields, q)
      all == R2Points(rows.rows, Lo(from), Hi(to), isGauge)
      capped == R2Cap(all.points)
      kept == Capped(capped.points, IF SeriesCap = 0 THEN DefaultCap ELSE SeriesCap)
  IN  IF ~plan.ok \/ Empty(from, to) \/ ~rows.ok \/ ~all.ok THEN Refuse(from)
      ELSE Deliver(Hi(to), kept, capped.points \ kept, capped.admitted)

-----------------------------------------------------------------------------
\* workersai: totals of the count and of the optional sums there is room for,
\* over slices no longer than the dataset's duration limit.
AIRows(lo, hi, q) ==
  Sliced(lo, hi, FloorBucket(q.s.span), [v \in Parts(lo, hi) |->
    OnBuckets(v[1], v[2], [w \in Parts(v[1], v[2]) |->
      Strict(Answer(w[1], w[2], lo, hi, q, ByNone), w[1], w[2], q.s.page)])])

AIWindow(from, to, q) ==
  LET wanted == Chosen(q.s, {"value", "bucket"}, <<"depth">>)
      rows == AIRows(Lo(from), Hi(to), q)
      points == Counters(rows.rows, Main, ByAccount(rows.rows))
                  \cup (IF "depth" \in wanted THEN Counters(rows.rows, Depth, ByAccount(rows.rows)) ELSE {})
      kept == Capped(points, SeriesCap)
  IN  IF SeriesCap = 0 \/ ~Limited(q.s) \/ ~Entitled(q.s, {"value", "bucket"}) \/ Empty(from, to)
           \/ FloorBucket(q.s.span) = 0 \/ ~rows.ok \/ ~Sound(rows.rows) THEN Refuse(from)
      ELSE Deliver(Hi(to), kept, points \ kept, admitted)

-----------------------------------------------------------------------------
\* workers: requests by script; a script without a usable name has none.
OverviewRows(lo, hi, fields, q) ==
  OnBuckets(lo, hi, [w \in Parts(lo, hi) |->
    Paged(Answer(w[1], w[2], lo, hi, q, Keyed(fields)), q.s.page)])

ScriptOf(rows) == [r \in rows |-> r.id]

OverviewWindow(from, to, q) ==
  LET rows == OverviewRows(Lo(from), Hi(to), Chosen(q.s, {"value", "bucket"}, <<"resource">>), q)
      all == Aggregate(rows.rows, from, Hi(to), FALSE, ScriptOf(rows.rows))
      kept == Capped(all.points, SeriesCap)
  IN  IF Empty(from, to) \/ SeriesCap = 0 \/ ~Limited(q.s) \/ ~Entitled(q.s, {"value", "bucket"})
           \/ ~rows.ok \/ ~all.ok THEN Refuse(from)
      ELSE Deliver(Hi(to), kept, all.points \ kept, admitted)

\* Sums by script, then quantiles in a query of their own: the newest bucket
\* of each named script, and no two rows for one of them.
InvocationRows(lo, hi, q) ==
  OnBuckets(lo, hi, [w \in Parts(lo, hi) |-> Paged(Answer(w[1], w[2], lo, hi, q, ById), q.s.page)])

InvocationsWindow(from, to, q) ==
  LET required == {"value", "bucket", "resource"}
      quantiles == q.s.offered \cap {"depth", "actions"}
      rows == InvocationRows(Lo(from), Hi(to), q)
      sums == Aggregate(rows.rows, Lo(from), Hi(to), FALSE, ScriptOf(rows.rows))
      whole == {r \in Whole(rows.rows, Lo(from), Hi(to)) : r.id # Blank}
      levels == IF quantiles = {} THEN {} ELSE Gauges(whole, DepthLevel, ScriptOf(whole))
      kept == Capped(sums.points \cup levels, SeriesCap)
  IN  IF SeriesCap = 0 \/ Empty(from, to) \/ ~Limited(q.s) \/ ~Entitled(q.s, required)
           \/ Cardinality({"bucket", "resource"} \cup quantiles) > q.s.fields
           \/ ~rows.ok \/ ~sums.ok \/ (quantiles # {} /\ (Twice(whole) \/ ~Sound(whole)))
      THEN Refuse(from)
      ELSE Deliver(Hi(to), kept, (sums.points \cup levels) \ kept, admitted)

-----------------------------------------------------------------------------
\* turnstile: one total.
TurnstileRows(lo, hi, q) ==
  OnBuckets(lo, hi, [w \in Parts(lo, hi) |-> Paged(Answer(w[1], w[2], lo, hi, q, ByNone), q.s.page)])

TurnstileWindow(from, to, q) ==
  LET rows == TurnstileRows(Lo(from), Hi(to), q)
      all == Aggregate(rows.rows, from, Hi(to), FALSE, ByAccount(rows.rows))
  IN  IF Empty(from, to) \/ SeriesCap = 0 \/ ~Limited(q.s) \/ ~Entitled(q.s, {"value", "bucket"})
           \/ ~rows.ok \/ ~all.ok THEN Refuse(from)
      ELSE Deliver(Hi(to), all.points, {}, admitted)

-----------------------------------------------------------------------------
\* rum and gateway: one query, never split, that fails when it reaches its
\* limit.  For rum no field limit means no limit.
FieldsForAccount(s, required, optional) ==
  LET unlimited == [s EXCEPT !.fields = IF @ = 0 THEN Len(optional) + Cardinality(required) ELSE @]
  IN  [ok |-> Entitled(unlimited, required), fields |-> Chosen(unlimited, required, optional)]

PageloadsWindow(from, to, q) ==
  LET plan == FieldsForAccount(q.s, {"value"}, <<"resource">>)
      rows == Tallies(from, to, q, Keyed(plan.fields))
  IN  IF from >= to \/ ~plan.ok \/ Cardinality(rows) >= QueryLimit \/ ~Sound(rows) THEN Refuse(from)
      ELSE Deliver(to, Counters(rows, Main, ScriptOf(rows)), {}, admitted)

\* Level 0 stands for a negative quantile: no data.
VitalsWindow(from, to, q) ==
  LET plan == FieldsForAccount(q.s, {"value"}, <<"resource">>)
      rows == Tallies(to - Least(to, Rolling), to, q, Keyed(plan.fields))
      measured == {r \in rows : r.level > 0}
  IN  IF from >= to \/ ~plan.ok \/ Cardinality(rows) >= QueryLimit \/ ~Sound(rows) THEN Refuse(from)
      ELSE Deliver(to, Gauges(measured, Main, ScriptOf(measured)), {}, admitted)

GatewayWindow(from, to, q) ==
  LET rows == Tallies(from, to, q, Keyed(Chosen(q.s, {"value"}, <<"resource">>)))
  IN  IF from >= to \/ ~Limited(q.s) \/ ~Entitled(q.s, {"value"})
           \/ Cardinality(rows) >= QueryLimit \/ ~Sound(rows) \/ (\E r \in rows : r.n = 0)
      THEN Refuse(from)
      ELSE Deliver(to, Counters(rows, Main, ScriptOf(rows)), {}, admitted)
=============================================================================
