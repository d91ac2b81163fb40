---------------------------- MODULE ZoneSecurity ----------------------------
(***************************************************************************)
(* CollectWindow of the email, dns and firewall collectors.  They differ   *)
(* in what a zone's retention floor does to the window: email refuses it,  *)
(* dns retries that zone beyond the floor and reports what it left out,    *)
(* firewall hands the error on and the scheduler skips every zone.         *)
(***************************************************************************)
EXTENDS ZoneHTTP

\* email: selectAccountZones.
AccountZones == Choice(AllFound(Owned) /\ Included(Owned) # {}, Included(Owned), TRUE)

CompleteBuckets(z, lo, hi, q) ==
  LET s == q.s[z]
      span == Least(s.span \div Bucket, s.page) * Bucket
      unlimited == s.page = 0 \/ s.retention = 0 \/ span = 0
  IN  IF ~Entitled(s, {"value", "bucket"}) \/ unlimited \/ Aged(lo, s) THEN QueryFailed
      ELSE Sliced(lo, hi, span, [v \in Parts(lo, hi) |->
             Bisect(v[1], v[2], Bucket, Bucket,
                    [w \in Parts(v[1], v[2]) |-> Fetch(z, w[1], w[2], q, ByBucket)])])

EmailWindow(from, to, q) ==
  LET lo == CeilBucket(from)
      hi == FloorBucket(to)
      zones == SelectZones(AccountZones).zones
      enabled == {z \in zones : q.s[z].enabled}
      all == Merged([z \in enabled |-> Checked(z, CompleteBuckets(z, lo, hi, q), q)])
  IN  IF SeriesLimit = 0 \/ lo >= hi \/ ~q.listed \/ ~AccountZones.ok THEN Refuse(from)
      ELSE IF zones = {} THEN Deliver(hi, {}, Finish(AccountZones, {}, {}))
      ELSE IF (\E z \in zones : ~q.s[z].read) \/ enabled = {} \/ ~all.ok THEN Refuse(from)
      ELSE [Deliver(hi, Points("requests", all.rows, [r \in world |-> Other]),
                    Finish(AccountZones, enabled, zones \ enabled))
            EXCEPT !.skipped = zones \ enabled]

-----------------------------------------------------------------------------
DNSZones == Choice(config.discovered # {} /\ AllFound(config.discovered),
                   Included(config.discovered), FALSE)

\* queryZone: [until, to) of the window is asked for; until = from means all.
Reached(answer, until) == [ok |-> answer.ok, rows |-> answer.rows, until |-> until]

QueryZone(z, from, to, q, key) ==
  LET first == InSlices(z, from, to, q, key)
      retry == FloorOf(q.s[z]) + Minute
      second == InSlices(z, retry, to, q, key)
  IN  IF ~IsGap(first) THEN Reached(first, from)
      ELSE IF retry <= from THEN Reached(QueryFailed, from)
      ELSE IF retry >= to THEN Reached(Rows({}), to)
      ELSE IF IsGap(second) THEN Reached(QueryFailed, from)
      ELSE Reached(second, retry)

\* What the zones hold, of each from where it could be read.
RowsBeyondFloors(answers) ==
  {r \in UNION {answers[z].rows : z \in DOMAIN answers} :
     \A z \in DOMAIN answers : answers[z].until <= r.at}
RowsReached(answers) == UNION {answers[z].rows : z \in DOMAIN answers}

\* The rows of one DNS window: zones without the dataset are skipped, unless
\* configured.
DNSWindow(from, to, required, q, key) ==
  LET zones == SelectZones(DNSZones).zones
      used == {z \in zones : q.s[z].enabled \/ config.wanted # {}}
      answer == [z \in used |->
                   IF ~Entitled(q.s[z], required) \/ q.bad = z THEN Reached(QueryFailed, from)
                   ELSE QueryZone(z, from, to, q, key)]
      short == {z \in used : answer[z].until # from}
  IN  IF from >= to \/ ~q.listed \/ ~DNSZones.ok \/ (\E z \in zones : ~q.s[z].read)
           \/ (\E z \in used : ~answer[z].ok) \/ (used = {} /\ zones # {}) THEN Refuse(from)
      ELSE [Deliver(to, RowsReached(answer), Finish(DNSZones, used, zones \ used))
            EXCEPT !.skipped = zones \ used,
                   !.gaps = {[zone |-> z, until |-> answer[z].until] : z \in short}]

DNSEventsWindow(from, to, q) ==
  [DNSWindow(from, to, {"value", "host", "label"}, q, Itself)
   EXCEPT !.points = Points("log", @, ByHost)]

\* admit: once SeriesBudget - 1 series are admitted, for the collector's
\* lifetime, the rest are folded into one.
AdmitAfresh(fresh) ==
  {k \in fresh : Cardinality({m \in fresh : m < k}) < SeriesBudget - 1} \cup admitted
AdmitSeries(fresh) ==
  {k \in fresh : Cardinality({m \in fresh : m < k}) + Cardinality(admitted) < SeriesBudget - 1}
  \cup admitted

DNSSeries(q) ==
  [r \in world |->
     IF "label" \in Chosen(q.s[r.zone], {"value"}, <<"label">>) THEN ByLabel[r] ELSE ByZone[r]]

DNSMetricsWindow(from, to, q) ==
  LET result == DNSWindow(from, to, {"value"}, q, DNSSeries(q))
      kept == AdmitSeries({DNSSeries(q)[r] : r \in result.points} \ admitted)
      series == [r \in world |-> IF DNSSeries(q)[r] \in kept THEN DNSSeries(q)[r] ELSE Other]
  IN  [result EXCEPT !.admitted = kept, !.points = Points("requests", @, series)]

-----------------------------------------------------------------------------
FirewallZones == Choice(AllFound(config.discovered), Included(config.discovered), FALSE)

\* One record for each ray and time, whatever the zone.
FirewallFirst(rows) ==
  {r \in rows : r.ray # Blank =>
     ~\E o \in rows : o.ray = r.ray /\ o.at = r.at
                      /\ (o.zone < r.zone \/ (o.zone = r.zone /\ o.copy < r.copy))}

FirewallEventsWindow(from, to, q) ==
  LET zones == SelectZones(FirewallZones).zones
      all == Merged([z \in zones |-> Checked(z, Halved(z, from, to, q, Itself), q)])
  IN  IF from >= to \/ ~q.listed \/ ~FirewallZones.ok THEN Refuse(from)
      ELSE IF ~all.ok THEN Failure(from, all)
      ELSE Deliver(to, Points("log", FirewallFirst(all.rows), ByHost),
                   Finish(FirewallZones, zones, {}))

\* datasetForZone: the Groups dataset, or the one grouped by time, which has
\* none of the dimensions.
DatasetForZone(s) ==
  IF s.enabled THEN s ELSE [s EXCEPT !.enabled = s.fallback, !.offered = @ \ {"label"}]

\* firewallBotScoreSource: names are staged and kept only with their window.
AdmitSources(fresh) ==
  LET room == SourceLimit - Cardinality(admitted)
  IN  admitted \cup {k \in fresh : Cardinality({m \in fresh : m < k}) < room}

\* boundFirewallMetrics: above the cap, the last series become one remainder.
Bounded(points) ==
  LET place(p) == Cardinality({o \in points : o.series < p.series})
      cut == IF Cardinality(points) <= FirewallLimit THEN {}
             ELSE {p \in points : place(p) >= FirewallLimit - 1}
  IN  (points \ cut)
      \cup (IF cut = {} THEN {} ELSE {Point("requests", Other, UNION {p.rows : p \in cut})})

FirewallMetricsWindow(from, to, q) ==
  LET zones == SelectZones(FirewallZones).zones
      found == [q EXCEPT !.s = [z \in DOMAIN @ |-> DatasetForZone(@[z])]]
      labelled(z) == "label" \in Chosen(found.s[z], {"value"}, <<"label">>)
      zoneRows(z) ==
        IF ~Entitled(found.s[z], {"value"}) THEN QueryFailed
        ELSE Halved(z, from, to, found, [r \in world |-> IF labelled(z) THEN r.label ELSE Blank])
      all == Merged([z \in zones |-> Checked(z, zoneRows(z), q)])
      sources == AdmitSources({r.label : r \in {r \in all.rows : labelled(r.zone)}} \ admitted)
      series == [r \in all.rows |-> IF ~labelled(r.zone) THEN ByZone[r]
                                    ELSE IF r.label \in sources THEN ByLabel[r] ELSE ByZone[r] + 99]
  IN  IF from >= to \/ ~q.listed \/ ~FirewallZones.ok THEN Refuse(from)
      ELSE IF ~all.ok THEN Failure(from, all)
      ELSE [Deliver(to, Bounded(Points("requests", all.rows, series)),
                    Finish(FirewallZones, zones, {}))
            EXCEPT !.admitted = sources]
=============================================================================
