------------------------------ MODULE ZoneHTTP ------------------------------
(***************************************************************************)
(* CollectWindow of the HTTP collectors (internal/collectors/httpreq): the *)
(* sampled request events, the metrics put together from up to four        *)
(* queries of each zone, and the hourly threat rollup.                     *)
(***************************************************************************)
EXTENDS ZoneWindows

\* zones: what the selectors match, if anything.
EventZones == Choice(TRUE, Included(config.discovered), FALSE)

\* metricZones: the account's zones.  Only an explicit metrics scope of "all"
\* (broad) looks past the selectors.
MetricZones ==
  LET matched == IF config.broad THEN Owned ELSE Included(Owned)
  IN  Choice(Owned # {} /\ matched # {}, matched, TRUE)

\* hostsFor and selected: the hosts in scope, read anew for every window.
InScope(rows) == {r \in rows : r.host \in config.hosts}

-----------------------------------------------------------------------------
\* One record for each ray and time of a zone; a record without a ray is its own.
RayKey(r) == <<r.zone, r.ray, r.at>>
EachRecord(rows) == rows
FirstOf(rows) ==
  {r \in rows : r.ray # Blank => ~\E o \in rows : RayKey(o) = RayKey(r) /\ o.copy < r.copy}

EventRows(z, from, to, q) == Halved(z, from, to, q, Itself)

EventsWindow(from, to, q) ==
  LET zones == SelectZones(EventZones).zones
      all == Merged([z \in zones |-> Checked(z, EventRows(z, from, to, q), q)])
  IN  IF ~q.listed THEN Refuse(from)
      ELSE IF ~all.ok THEN Failure(from, all)
      ELSE Deliver(to, Points("log", FirstOf(InScope(all.rows)), ByHost),
                   Finish(EventZones, zones, {}))

-----------------------------------------------------------------------------
\* collectBreakdowns: one batch over the whole window, if a field is on offer.
Breakdowns(z, from, to, q) ==
  LET s == q.s[z]
  IN  IF "label" \notin config.breakdowns THEN Rows({})
      ELSE IF ~s.read \/ ~s.enabled \/ "value" \notin s.offered THEN QueryFailed
      ELSE IF "label" \notin s.offered \/ s.fields < 2 THEN Rows({})
      ELSE IF s.span < to - from THEN QueryFailed
      ELSE Once(z, from, to, q, ByLabel)

\* collectHighCardinality: in periods the dataset allows; no gap is waited for.
HighCardinality(z, from, to, q) ==
  LET s == q.s[z]
      answer == InSlices(z, from, to, q, ByHost)
  IN  IF "top" \notin config.breakdowns THEN Rows({})
      ELSE IF TopLimit < 1 \/ ~s.read \/ ~s.enabled THEN QueryFailed
      ELSE IF ~({"value", "top"} \subseteq s.offered) \/ s.fields < 2 THEN Rows({})
      ELSE IF IsGap(answer) THEN Gap(answer.floor, TRUE)
      ELSE InLimit(answer, from, s, ByHost)

\* The first TopLimit labels; the others, and those without a route, together.
TopSeries(rows, r) ==
  LET labels == {o.label : o \in {o \in rows : o.zone = r.zone}} \ {Blank}
  IN  IF r.label # Blank /\ Cardinality({m \in labels : m < r.label}) < TopLimit
      THEN ByLabel[r] ELSE ByZone[r] + 99

\* httpGroupQueryFields: visits come last, so that they displace nothing.
GroupFields(s) == Chosen(s, {"value", "host", "label"}, <<"latency", "visits">>)

Grouped(z, from, to, q) ==
  IF ~Entitled(q.s[z], {"value", "host", "label"}) THEN QueryFailed
  ELSE InLimit(InSlices(z, from, to, q, ByHost), from, q.s[z], ByHost)

FewHosts(rows) == Cardinality({r.host : r \in InScope(rows)}) <= HostLimit

Spelling == [r \in world |-> <<r.zone, r.host, r.copy>>]
Latencies(z, from, to, q) ==
  IF "latency" \notin GroupFields(q.s[z]) THEN Rows({})
  ELSE InLimit(InSlices(z, from, to, q, Spelling), from, q.s[z], Spelling)

\* A host's percentiles are those of its largest group, never a merge: of equal
\* ones the canonical spelling wins, then the first.
Largest(rows) ==
  LET size(r) == Cardinality({o \in rows : Spelling[o] = Spelling[r]})
  IN  {r \in rows : \A o \in rows : (o.zone = r.zone /\ o.host = r.host) =>
         size(o) < size(r) \/ (size(o) = size(r) /\ o.copy >= r.copy)}

\* The queries of one zone in turn; the first that fails is the zone's answer.
InTurn(answers) ==
  LET failed == {i \in DOMAIN answers : ~answers[i].ok}
  IN  IF failed = {} THEN answers[Len(answers)] ELSE answers[Min(failed)]

\* The series of a complete window.  Visits are counted where they are selected.
MetricPoints(requests, details, tops, timings, q) ==
  LET visited == {r \in requests : "visits" \in GroupFields(q.s[r.zone])}
      high == {r \in tops : config.topHosts = {} \/ r.host \in config.topHosts}
  IN  Points("requests", requests, ByHost) \cup Points("visits", visited, ByZone)
      \cup Points("detail", details, ByLabel)
      \cup Points("top", high, [r \in high |-> TopSeries(high, r)])
      \cup Points("latency", Largest(InScope(timings)), [r \in world |-> ByZone[r] + r.host])

MetricsWindow(from, to, q) ==
  LET zones == SelectZones(MetricZones).zones
      groups == [z \in zones |-> Grouped(z, from, to, q)]
      details == [z \in zones |-> Breakdowns(z, from, to, q)]
      tops == [z \in zones |-> HighCardinality(z, from, to, q)]
      timings == [z \in zones |-> Latencies(z, from, to, q)]
      few(z) == IF FewHosts(groups[z].rows) THEN Rows({}) ELSE QueryFailed
      all == Merged([z \in zones |->
               Checked(z, InTurn(<<details[z], tops[z], groups[z], few(z), timings[z], groups[z]>>), q)])
      rowsOf(answers) == UNION {answers[z].rows : z \in zones}
      points == MetricPoints(InScope(all.rows), rowsOf(details), rowsOf(tops), rowsOf(timings), q)
  IN  IF ~q.listed \/ ~MetricZones.ok \/ HostLimit = 0 \/ SeriesLimit = 0 THEN Refuse(from)
      ELSE IF ~all.ok THEN Failure(from, all)
      ELSE IF Cardinality(points) > SeriesLimit THEN Refuse(from)
      ELSE Deliver(to, points, Finish(MetricZones, zones, {}))

-----------------------------------------------------------------------------
\* threats: complete hours only.  A cursor inside an hour moves to its end
\* without anything being asked or exported.
KpiRows(z, lo, hi, q) ==
  LET s == q.s[z]
  IN  IF ~Entitled(s, {"value", "bucket"}) THEN QueryFailed
      ELSE IF Aged(lo, s) THEN Gap(FloorOf(s), TRUE)
      ELSE IF s.span < hi - lo THEN QueryFailed
      ELSE Once(z, lo, hi, q, ByBucket)

ThreatsWindow(from, to, q) ==
  LET lo == CeilBucket(from)
      hi == FloorBucket(to)
      zones == SelectZones(MetricZones).zones
      all == Merged([z \in zones |-> Checked(z, KpiRows(z, lo, hi, q), q)])
  IN  IF lo >= hi THEN IF from < lo /\ lo <= to THEN Deliver(lo, {}, NotPolled) ELSE Refuse(from)
      ELSE IF ~q.listed \/ ~MetricZones.ok \/ Cardinality(zones) > SeriesLimit THEN Refuse(from)
      ELSE IF ~all.ok THEN Failure(from, all)
      ELSE Deliver(hi, Points("requests", all.rows, ByZone), Finish(MetricZones, zones, {}))
=============================================================================
