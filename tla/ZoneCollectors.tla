--------------------------- MODULE ZoneCollectors ---------------------------
(***************************************************************************)
(* The scheduler polling one zone collector: a window is delivered and its *)
(* end committed, or it is asked for again, or a retention floor that the  *)
(* collector hands on makes the scheduler skip and report the start of the *)
(* window for every zone (skipGap).                                        *)
(***************************************************************************)
EXTENDS ZoneSecurity

Window(from, to, q) ==
  CASE kind = "httpreq.events" -> EventsWindow(from, to, q)
    [] kind = "httpreq.metrics" -> MetricsWindow(from, to, q)
    [] kind = "httpreq.threats" -> ThreatsWindow(from, to, q)
    [] kind = "email" -> EmailWindow(from, to, q)
    [] kind = "dns.events" -> DNSEventsWindow(from, to, q)
    [] kind = "dns.metrics" -> DNSMetricsWindow(from, to, q)
    [] kind = "firewall.events" -> FirewallEventsWindow(from, to, q)
    [] kind = "firewall.metrics" -> FirewallMetricsWindow(from, to, q)

Bucketed == {"httpreq.threats", "email"}

Lag == IF kind \in Bucketed THEN LagAt(now, Holdback) ELSE Holdback
Until == Least(now - Lag, mark + MaxWindow)

Metrics == {"log", "requests", "visits", "detail", "top"}

Init ==
  /\ kind \in Kinds
  /\ world \in Worlds
  /\ config \in Configs
  /\ start \in Starts
  /\ now = Holdback /\ mark = start
  /\ admitted = {} /\ again = FALSE /\ spans = {} /\ polled = NotPolled /\ exported = {}
  /\ counted = [m \in Metrics |-> {}]

Tick ==
  /\ now < MaxTime
  /\ now' = now + 1
  /\ UNCHANGED <<kind, world, config, start, mark, admitted, counted, again, spans, polled, exported>>

RowsOf(points, m) == UNION {p.rows : p \in {p \in points : p.metric = m}}
Overlap(points) ==
  \E p1, p2 \in points : p1 # p2 /\ p1.metric = p2.metric /\ p1.metric \in Metrics
                         /\ p1.rows \cap p2.rows # {}

\* The window commits: its points reach the SDK and its end is the checkpoint.
Commit(result) ==
  /\ mark' = result.mark
  /\ counted' = [m \in Metrics |-> counted[m] \cup RowsOf(result.points, m)]
  /\ again' = (again \/ Overlap(result.points)
                     \/ \E m \in Metrics : counted[m] \cap RowsOf(result.points, m) # {})
  /\ spans' = spans \cup {[zone |-> g.zone, from |-> mark, until |-> g.until] : g \in result.gaps}
                    \cup {[zone |-> z, from |-> mark, until |-> result.mark] : z \in result.skipped}
  /\ polled' = IF result.poll = NotPolled THEN polled ELSE result.poll
  /\ exported' = exported \cup {<<p.metric, p.series>> : p \in result.points}

\* skipGap: the start of the window is reported as skipped, for every zone.
SkipGap(result) ==
  LET until == Least(Until, result.floor + Margin)
  IN  /\ until > mark
      /\ mark' = until
      /\ spans' = spans \cup {[zone |-> z, from |-> mark, until |-> until] : z \in config.discovered}
      /\ UNCHANGED <<counted, again, polled, exported>>

Poll(q, commits) ==
  /\ mark < Until
  /\ \E result \in {Window(mark, Until, q)} :
       /\ admitted' = result.admitted
       /\ IF commits /\ result.floor # None THEN SkipGap(result)
          ELSE IF commits /\ result.mark # mark THEN Commit(result)
          ELSE UNCHANGED <<mark, counted, again, spans, polled, exported>>
  /\ UNCHANGED <<kind, world, config, now, start>>

\* What one poll finds: the zones' datasets, whether the lists it needs can
\* be read, and the zone (if any) whose answer has an invalid row.
Requests ==
  [s : Settings, listed : {TRUE}, bad : {None} \cup config.discovered]
  \cup [s : Settings, listed : {FALSE}, bad : {None}]

Next == Tick \/ \E q \in Requests, commits \in BOOLEAN : Poll(q, commits)

Spec == Init /\ [][Next]_vars

-----------------------------------------------------------------------------
(***************************************************************************)
(* The zones an operator asked for, and the events in them that a metric   *)
(* of this collector must carry.                                           *)
(***************************************************************************)
Asked ==
  LET mine == IF kind \in {"httpreq.metrics", "httpreq.threats", "email"}
              THEN Owned ELSE config.discovered
      named == IF kind \in {"httpreq.metrics", "httpreq.threats"} /\ config.broad
               THEN mine ELSE Included(mine)
  IN  named \ config.exclude

\* Of an event with a ray the first record, of one without every record.
IsEvent(r) ==
  CASE kind = "httpreq.events" -> (r.ray = Blank \/ r.copy = 0) /\ r.host \in config.hosts
    [] kind = "firewall.events" -> r.ray = Blank \/ r.copy = 0
    [] kind = "httpreq.metrics" -> r.host \in config.hosts
    [] OTHER -> TRUE

Due(r) ==
  /\ r.zone \in Asked /\ IsEvent(r)
  /\ IF kind \in Bucketed THEN CompleteBucket(FloorBucket(r.at), start, mark)
     ELSE start <= r.at /\ r.at < mark

\* A span its zone was left out of covers the event, or the bucket it is
\* counted in.
Reported(r) ==
  \E g \in spans :
    /\ g.zone = r.zone
    /\ IF kind \in Bucketed
       THEN g.from < FloorBucket(r.at) + Bucket /\ FloorBucket(r.at) < g.until
       ELSE g.from <= r.at /\ r.at < g.until

Required == IF kind \in {"httpreq.events", "dns.events", "firewall.events"} THEN "log" ELSE "requests"

(***************************************************************************)
(* However a window is put together from its zones, every event of a zone  *)
(* the operator asked for, before the checkpoint, is either exported, or   *)
(* its zone was left out of that window: behind a retention floor, which   *)
(* is reported with its span, or disabled, which shows in the gauge of the *)
(* skipped zones only, by count and reason (Merged: the loops over zones   *)
(* of every CollectWindow; queryZone and emitDNSGaps; skipGap).            *)
(***************************************************************************)
NoZoneLost == \A r \in world : Due(r) => (r \in counted[Required] <=> ~Reported(r))

(***************************************************************************)
(* No counter adds an event twice, over all the windows, periods, leaves   *)
(* and retries, and none counts an event outside the zones asked for or    *)
(* beyond the checkpoint, or a record more than once (httpreq's four       *)
(* queries of a zone, dedup by ray, folds into a remainder).               *)
(***************************************************************************)
NeverTwice ==
  /\ ~again
  /\ \A r \in counted[Required] : IsEvent(r)
  /\ \A m \in Metrics : \A r \in counted[m] : r.zone \in Asked /\ r.at < mark

(***************************************************************************)
(* The zone gauges of a complete poll account for every discovered zone    *)
(* exactly once: filtered, processed or skipped (ZonePoll.Finish with      *)
(* SelectZones, Process and Skip).                                         *)
(***************************************************************************)
ZonesAddUp ==
  polled.discovered = polled.filtered.include + polled.filtered.no_account
                      + polled.filtered.exclude + polled.processed + polled.skipped

\* Zones that no setting disables or has aged out of since the start.
Steady == {z \in config.discovered : \A s \in Settings : s[z].enabled /\ ~Aged(start, s[z])}

(***************************************************************************)
(* One DNS zone's retention floor costs the other zones nothing, though    *)
(* they share a checkpoint: all they hold before it is exported (queryZone *)
(* and the comment on it).                                                 *)
(***************************************************************************)
GapsAreLocal ==
  kind \in {"dns.events", "dns.metrics"} =>
    \A r \in world : Due(r) /\ r.zone \in Steady => r \in counted[Required]

(***************************************************************************)
(* Every event once or left out with its zone and reported, however the    *)
(* zones of a window fail, age out or overlap (every CollectWindow of a    *)
(* zone collector).                                                        *)
(***************************************************************************)
ZonesExact == NoZoneLost /\ NeverTwice /\ GapsAreLocal

(***************************************************************************)
(* Over its lifetime a DNS collector exports at most SeriesBudget series,  *)
(* the fold included, and firewall.metrics admits at most SourceLimit      *)
(* sources (admit; firewallBotScoreSource).                                *)
(***************************************************************************)
SeriesForLife ==
  /\ kind = "dns.metrics" => Cardinality(exported) <= SeriesBudget
  /\ kind = "firewall.metrics" => Cardinality(admitted) <= SourceLimit

\* The limits have room for all there is to count: of httpreq.metrics at most five
\* series a row, and one a zone for the host spellings left out.
Roomy ==
  /\ SeriesLimit > 0 /\ Cardinality(config.discovered) <= SeriesLimit
  /\ kind = "httpreq.metrics" =>
       /\ HostLimit > 0 /\ TopLimit > 0 /\ 6 * Cardinality(world) <= SeriesLimit
       /\ \A z \in config.discovered :
            Cardinality({r \in world : r.zone = z /\ mark <= r.at /\ r.at < Until}) < RowLimit
       /\ Cardinality({r.host : r \in InScope(world)}) <= HostLimit

\* Every zone entitled to everything, nothing at a limit or aged out, and a
\* selection.  Email refuses a dataset without a retention limit.
Healthy(q) ==
  /\ q.listed /\ q.bad = None /\ Asked # {} /\ config.wanted \subseteq Asked /\ Roomy
  /\ \A z \in config.discovered :
       /\ q.s[z].read /\ q.s[z].enabled /\ q.s[z].fields >= 3 /\ q.s[z].page > Cardinality(world)
       /\ {"value", "host", "label", "bucket", "top"} \subseteq q.s[z].offered
       /\ q.s[z].span >= MaxWindow /\ ~Aged(mark, q.s[z])
       /\ kind = "email" => q.s[z].retention > 0

Available ==
  IF kind \in Bucketed
  THEN \E b \in 0 .. MaxTime : mark <= b * Bucket /\ (b + 1) * Bucket + Holdback <= now
  ELSE mark + Holdback < now

(***************************************************************************)
(* A healthy poll with something to collect moves the checkpoint, whatever *)
(* zones were skipped, cut or folded before (early returns of every        *)
(* CollectWindow; the bound on max_window).                                *)
(***************************************************************************)
ZonesMove ==
  Available => \A q \in Requests : Healthy(q) => Window(mark, Until, q).mark > mark
=============================================================================
