--------------------------- MODULE GroupedWindows ---------------------------
(***************************************************************************)
(* The collectors that turn an account's GraphQL group datasets into       *)
(* counters and gauges: d1, kv, queues, durableobjects, r2, workersai,     *)
(* workers, turnstile, rum and gateway, each one's CollectWindow as the    *)
(* scheduler calls it.  One behaviour follows one collector (kind) over a  *)
(* dataset (world) that fills while the clock runs.                        *)
(*                                                                         *)
(* A row of the world is what happened at time `at' to the resource `id';  *)
(* n stands for its additive fields, level for its gauges and quantiles,   *)
(* and delay is how long it takes to show up in the dataset.  A bucketed   *)
(* dataset answers one row for each bucket and value of its dimension.     *)
(* Names and ids are numbers, so that sorting is <.                        *)
(***************************************************************************)
EXTENDS Windows, Sums

CONSTANTS
  Holdback,      \* Lag() of every one of these collectors, in ticks
  MaxTime,       \* the clock stops here
  MaxWindow,     \* the entry's max_window
  Starts,        \* where the first window may begin
  Kinds,         \* the collectors followed
  Worlds,        \* the datasets tried
  Settings,      \* the entitlements a poll may find
  Directory,     \* the name of each resource id, as the REST API lists it
  MaxNames,      \* names one metric may carry besides the remainder (49)
  SeriesCap,     \* platform.max_metric_series_per_window
  QueryLimit     \* rows at which an unsplit query fails

Other == 1000    \* the remainder "other"
Blank == 0       \* no value: a dimension that is absent, empty or too long
Main == 1        \* the metrics of a point
Level == 2
Depth == 3
DepthLevel == 4

Raw == {"rum.pageloads", "rum.web_vitals", "gateway.dns"}   \* not bucketed

VARIABLES
  kind,       \* the collector followed
  world,      \* the rows its dataset will ever hold
  now,        \* the clock
  start,      \* the first cursor
  mark,       \* the checkpoint
  admitted,   \* names admitted for the collector's lifetime
  total,      \* what each counter metric has exported
  lost,       \* what the series cap has cut from it
  gauge,      \* the points of the last committed window that are gauges
  exported    \* every counter and gauge series exported so far
vars == <<kind, world, now, start, mark, admitted, total, lost, gauge, exported>>

ASSUME LimitAssumption ==
  /\ Holdback \in Nat /\ MaxTime \in Nat /\ MaxWindow \in Nat /\ Starts \subseteq Nat
  /\ MaxNames \in Nat /\ SeriesCap \in Nat /\ QueryLimit \in Nat

ASSUME KindAssumption ==
  Kinds \subseteq
    {"d1.analytics", "d1.storage", "kv.operations", "kv.storage", "queues.message_operations",
     "queues.backlog", "durableobjects.invocations", "durableobjects.sql_storage",
     "r2.operations", "r2.storage", "workersai.metrics", "workers.overview",
     "workers.invocations", "turnstile.events"} \cup Raw

\* A row has shown up when the collectors' lag has passed.
ASSUME WorldAssumption ==
  \A rows \in Worlds :
    /\ IsFiniteSet(rows)
    /\ \A r \in rows : /\ r.at \in Nat /\ r.id \in Nat /\ r.n \in Nat /\ r.level \in Nat
                       /\ r.delay \in 0 .. Holdback

ASSUME DirectoryAssumption == \A id \in DOMAIN Directory : Directory[id] \in Nat

ASSUME SettingsAssumption ==
  Settings \subseteq [read : BOOLEAN, enabled : BOOLEAN, fields : Nat, page : Nat,
                     span : Nat, retention : Nat, offered : SUBSET STRING]

(***************************************************************************)
(* The API.  A request q carries the settings s in force, the names the    *)
(* REST lookup returned, and whether the answer has a stray row beyond the *)
(* end of the window or an invalid number in its first bucket.  Datasets   *)
(* without a bucket dimension answer one row for each value of a dimension *)
(* over the whole window.                                                  *)
(***************************************************************************)
Visible == {r \in world : r.at + r.delay <= now}

SumN(rows) == Total(rows, [r \in rows |-> r.n])
TopLevel(rows) == Max({r.level : r \in rows})

\* One row for each bucket and each value of the selected dimension.
Groups(a, b, key) ==
  LET within == {r \in Visible : a <= FloorBucket(r.at) /\ FloorBucket(r.at) < b}
      group(k) == {r \in within : <<FloorBucket(r.at), key[r.id]>> = k}
  IN  {[at |-> k[1], id |-> k[2], n |-> SumN(group(k)), level |-> TopLevel(group(k)),
        valid |-> TRUE] : k \in {<<FloorBucket(r.at), key[r.id]>> : r \in within}}

Oddities(a, b, from, to, q) ==
  (IF q.stray /\ b = to
   THEN {[at |-> to, id |-> Blank, n |-> 1, level |-> 9, valid |-> TRUE]} ELSE {})
  \cup
  (IF q.bad /\ a = from
   THEN {[at |-> from, id |-> Blank, n |-> 0, level |-> 0, valid |-> FALSE]} ELSE {})

Tallies(a, b, q, key) ==
  LET within == {r \in Visible : a <= r.at /\ r.at < b}
      group(k) == {r \in within : key[r.id] = k}
  IN  {[at |-> a, id |-> k, n |-> SumN(group(k)), level |-> TopLevel(group(k)), valid |-> ~q.bad]
        : k \in {key[r.id] : r \in within}}

Answer(a, b, from, to, q, key) == Groups(a, b, key) \cup Oddities(a, b, from, to, q)

DefaultCap == 500   \* of queues and r2, when the configured cap is not positive

\* The dimension a query groups by: the resource's id where it is selected.
Ids == {r.id : r \in world}
ById == [id \in Ids |-> id]
ByNone == [id \in Ids |-> Blank]
Keyed(wanted) == IF "resource" \in wanted THEN ById ELSE ByNone

\* The series a row falls into, as functions of the rows.
ByAccount(rows) == [r \in rows |-> Other]

(***************************************************************************)
(* Points, the series cap and the results of a window.                     *)
(***************************************************************************)
Point(metric, name, isGauge, value, at) ==
  [metric |-> metric, name |-> name, gauge |-> isGauge, value |-> value, at |-> at]

Sorted(p, r) == p.metric < r.metric \/ (p.metric = r.metric /\ p.name < r.name)

\* The first cap points in the order of their keys.
Capped(points, cap) ==
  {p \in points : Cardinality({r \in points : Sorted(r, p)}) < cap}

Refuse(from) == [mark |-> from, points |-> {}, cut |-> {}, admitted |-> admitted]
Deliver(to, points, cut, names) ==
  [mark |-> to, points |-> points, cut |-> cut, admitted |-> names]

\* One counter or one gauge for each series the rows fall into.
Counters(rows, metric, series) ==
  {Point(metric, s, FALSE, SumN({r \in rows : series[r] = s}), 0) : s \in {series[r] : r \in rows}}

AnyOf(rows) == rows
NewestOf(rows) == {r \in rows : \A other \in rows : other.at <= r.at}

Gauges(rows, metric, series) ==
  LET newest(s) == NewestOf({r \in rows : series[r] = s})
  IN  {Point(metric, s, TRUE, TopLevel(newest(s)), Max({r.at : r \in newest(s)}))
        : s \in {series[r] : r \in rows}}

Whole(rows, from, to) == {r \in rows : CompleteBucket(r.at, from, to)}
Sound(rows) == \A r \in rows : r.valid
Twice(rows) == \E r1, r2 \in rows : r1 # r2 /\ r1.at = r2.at /\ r1.id = r2.id

\* A query that fails above the page limit and splits on bucket boundaries.
Paged(rows, page) == IF Cardinality(rows) >= page THEN Saturated ELSE Rows(rows)

\* A leaf that also refuses a row outside its own window.
Strict(rows, a, b, page) ==
  IF Cardinality(rows) >= page THEN Saturated
  ELSE IF \A r \in rows : CompleteBucket(r.at, a, b) THEN Rows(rows) ELSE QueryFailed

OnBuckets(lo, hi, query) == Bisect(lo, hi, Bucket, Bucket, query)

\* The rows of whole buckets, refused when one of them has an invalid number.
Aggregate(rows, lo, hi, isGauge, series) ==
  LET whole == Whole(rows, lo, hi)
  IN  [ok |-> Sound(whole),
       points |-> IF isGauge THEN Gauges(whole, Main, series) ELSE Counters(whole, Main, series)]

(***************************************************************************)
(* Name admission: the first MaxNames names a metric meets stay admitted;  *)
(* every other name, and every unknown one, falls into the remainder.      *)
(***************************************************************************)
AdmitEachWindow(names) ==
  LET fresh == names \ (admitted \cup {Other})
  IN  admitted \cup {n \in fresh : Cardinality({m \in fresh : m < n}) < MaxNames}

Admit(names) ==
  LET fresh == names \ (admitted \cup {Other})
      room == MaxNames - Cardinality(admitted)
  IN  admitted \cup {n \in fresh : Cardinality({m \in fresh : m < n}) < room}

NameOf(q, id) == IF id \in DOMAIN q.names THEN q.names[id] ELSE Other

\* Rows by name; of a gauge, only those of the window's newest bucket.
NamedRows(rows, lo, hi, isGauge) ==
  IF isGauge THEN NewestOf(Whole(rows, lo, hi)) ELSE Whole(rows, lo, hi)

NamesOf(rows, q) == Admit({NameOf(q, r.id) : r \in rows})
SeriesOf(rows, names, q) ==
  [r \in rows |-> IF NameOf(q, r.id) \in names THEN NameOf(q, r.id) ELSE Other]

\* The cap is spent on the named series first.
WithDepth(hi, named, depth, cap) ==
  LET kept == Capped(named.points, cap)
      more == Capped(depth.points, cap - Cardinality(kept))
  IN  Deliver(hi, kept \cup more, (named.points \cup depth.points) \ (kept \cup more),
              named.admitted)
=============================================================================
