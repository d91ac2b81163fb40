----------------------------- MODULE ZoneWindows -----------------------------
(***************************************************************************)
(* What the collectors of a zone's datasets share (httpreq, email, dns and *)
(* firewall): which zones a poll selects and what it publishes about them  *)
(* (internal/collector/zones.go), the answers of a zone's dataset, and how *)
(* one window is put together from every selected zone.                    *)
(*                                                                         *)
(* A row of the world is one event of a zone: host and label stand for the *)
(* dimensions its series carry, ray for its identity, and copy tells apart *)
(* records of one event (of a grouped dataset: spellings of one host, the  *)
(* canonical one being 0).  What a counter has added up is kept as the set *)
(* of rows it stands for.                                                  *)
(***************************************************************************)
EXTENDS Windows, FiniteSetsExt

CONSTANTS
  Minute,        \* a raw query is never split below this many ticks
  Holdback,      \* Lag() of these collectors
  Margin,        \* skipGap: interval, lag and a minute beyond the floor
  MaxTime, MaxWindow, Starts, Kinds, Worlds,
  Configs,       \* operator configurations, with the zones that exist
  Foreign,       \* zones of other accounts
  Settings,      \* what a poll may learn about each zone's dataset
  HostLimit,     \* http.max_metric_hosts_per_zone
  SeriesLimit,   \* max_metric_series_per_window of http and email
  FirewallLimit, \* firewall.max_metric_series_per_window
  TopLimit,      \* http.high_cardinality_limit
  RowLimit,      \* groups one HTTP metrics query may return, in all its slices (10000)
  SeriesBudget,  \* DNS series, from otlp.metric_cardinality_limit
  SourceLimit    \* bot-score sources firewall.metrics admits (32)

Blank == 0
Other == 1000

VARIABLES
  kind, world, config, now, start, mark,
  admitted,   \* series (dns) or sources (firewall) admitted for good
  counted,    \* rows exported, by metric
  again,      \* a metric counted a row twice
  spans,      \* spans of a zone reported as not collected
  polled,     \* the zone gauges of the last complete poll
  exported    \* every counter series exported so far
vars == <<kind, world, config, now, start, mark, admitted, counted, again, spans, polled, exported>>

ASSUME LimitAssumption ==
  /\ Minute \in Nat /\ Holdback \in Nat /\ Margin \in Nat /\ MaxWindow \in Nat /\ Starts \subseteq Nat
  /\ MaxTime \in Nat /\ HostLimit \in Nat /\ SeriesLimit \in Nat /\ TopLimit \in Nat /\ RowLimit \in Nat
  /\ SeriesBudget \in Nat \ {0} /\ SourceLimit \in Nat

ASSUME KindAssumption ==
  Kinds \subseteq {"httpreq.events", "httpreq.metrics", "httpreq.threats", "email",
                   "dns.events", "dns.metrics", "firewall.events", "firewall.metrics"}

\* Records that share a ray and a time are of one event, of one zone and host;
\* copy 0 is among them.
ASSUME EventAssumption ==
  \A rows \in Worlds :
    /\ IsFiniteSet(rows)
    /\ \A r \in rows : /\ r.zone \in Nat /\ r.at \in Nat /\ r.copy \in Nat
                       /\ r.host \in Nat /\ r.label \in Nat
    /\ \A r, o \in rows : r.ray # Blank /\ o.ray = r.ray /\ o.at = r.at => o.zone = r.zone
    /\ \A r \in rows : r.ray # Blank =>
         \E o \in rows : /\ o.ray = r.ray /\ o.at = r.at /\ o.zone = r.zone
                         /\ o.host = r.host /\ o.copy = 0

ASSUME SettingsAssumption ==
  \A c \in Configs :
    /\ IsFiniteSet(c.discovered) /\ c.discovered \subseteq Nat \ {None}
    /\ \A s \in Settings : c.discovered \subseteq DOMAIN s
    /\ \A s \in Settings, z \in c.discovered :
         s[z] \in [read : BOOLEAN, enabled : BOOLEAN, fallback : BOOLEAN, fields : Nat, page : Nat,
                  span : Nat, retention : Nat, offered : SUBSET STRING]

(***************************************************************************)
(* Zone selection.                                                         *)
(***************************************************************************)
Included(zones) == IF config.wanted = {} THEN zones ELSE zones \cap config.wanted
Owned == config.discovered \ Foreign
AllFound(zones) == config.wanted \subseteq zones

Choice(ok, eligible, byAccount) == [ok |-> ok, eligible |-> eligible, byAccount |-> byAccount]

\* A zone that is both foreign and not included counts as foreign where the
\* collector asks for the account's zones only.
SelectZones(choice) ==
  LET refused == config.discovered \ choice.eligible
      foreign == IF choice.byAccount THEN refused \cap Foreign ELSE {}
  IN  [zones |-> choice.eligible \ config.exclude,
       filtered |-> [include |-> Cardinality(refused \ foreign), no_account |-> Cardinality(foreign),
                     exclude |-> Cardinality(choice.eligible \cap config.exclude)]]

\* The gauges of a complete poll.  A selected zone that was neither processed
\* nor skipped for a known reason counts as skipped for another one.
FinishAll(choice, processed, skipped) ==
  [discovered |-> Cardinality(config.discovered), filtered |-> SelectZones(choice).filtered,
   processed |-> Cardinality(SelectZones(choice).zones), skipped |-> Cardinality(skipped)]

Finish(choice, processed, skipped) ==
  [discovered |-> Cardinality(config.discovered), filtered |-> SelectZones(choice).filtered,
   processed |-> Cardinality(processed), skipped |-> Cardinality(SelectZones(choice).zones \ processed)]

NotPolled == [discovered |-> 0, filtered |-> [include |-> 0, no_account |-> 0, exclude |-> 0],
              processed |-> 0, skipped |-> 0]

(***************************************************************************)
(* Answers.  A gap is a failure that names the dataset's retention floor;  *)
(* alone means that it ends the window instead of waiting for the others.  *)
(***************************************************************************)
Gap(floor, alone) ==
  [ok |-> FALSE, saturated |-> FALSE, rows |-> {}, floor |-> floor, alone |-> alone]
IsGap(answer) == ~answer.ok /\ "floor" \in DOMAIN answer

Aged(from, s) == s.retention > 0 /\ from + s.retention < now
FloorOf(s) == now - s.retention

\* One query: a page of rows (of a grouped dataset, of groups by key) or a failure.
Fetch(z, a, b, q, key) ==
  LET s == q.s[z]
      found == {r \in world : r.zone = z /\ a <= r.at /\ r.at < b}
  IN  IF ~s.read \/ ~s.enabled THEN QueryFailed
      ELSE IF Aged(a, s) THEN Gap(FloorOf(s), FALSE)
      ELSE IF Cardinality({key[r] : r \in found}) >= s.page THEN Saturated
      ELSE Rows(found)

\* The same without being split: a full page fails.
Once(z, a, b, q, key) ==
  LET answer == Fetch(z, a, b, q, key) IN IF answer.saturated THEN QueryFailed ELSE answer

\* A window longer than the dataset allows, as several queries.
InSlices(z, from, to, q, key) ==
  IF Aged(from, q.s[z]) THEN Gap(FloorOf(q.s[z]), FALSE)
  ELSE IF q.s[z].span = 0 THEN QueryFailed
  ELSE Sliced(from, to, q.s[z].span, [w \in Parts(from, to) |-> Once(z, w[1], w[2], q, key)])

\* The groups of all slices, counted anew in each, must stay below a limit.
InLimit(answer, from, s, key) ==
  IF answer.ok /\ Cardinality({<<(r.at - from) \div s.span, key[r]>> : r \in answer.rows}) >= RowLimit
  THEN QueryFailed ELSE answer

\* Raw rows, split down to a minute.
Halved(z, from, to, q, key) ==
  Bisect(from, to, 1, Minute, [w \in Parts(from, to) |-> Fetch(z, w[1], w[2], q, key)])

\* An invalid row fails the zone it came from.
Checked(z, answer, q) == IF answer.ok /\ q.bad = z THEN QueryFailed ELSE answer

(***************************************************************************)
(* One window over every zone: the first zone that fails outright ends it; *)
(* otherwise gaps end it together, at the latest of their floors.          *)
(***************************************************************************)
MergedAnyway(answers) == Rows(UNION {answers[z].rows : z \in DOMAIN answers})

Merged(answers) ==
  LET ends == {z \in DOMAIN answers : ~answers[z].ok /\ (IsGap(answers[z]) => answers[z].alone)}
      gaps == {z \in DOMAIN answers : IsGap(answers[z])}
  IN  IF ends # {} THEN answers[Min(ends)]
      ELSE IF gaps # {} THEN Gap(Max({answers[z].floor : z \in gaps}), FALSE)
      ELSE Rows(UNION {answers[z].rows : z \in DOMAIN answers})

\* Results of CollectWindow: an error, a retention error, or a delivery.
Refuse(from) == [mark |-> from, floor |-> None, points |-> {}, gaps |-> {}, skipped |-> {},
                 poll |-> NotPolled, admitted |-> admitted]
Failure(from, answer) ==
  IF IsGap(answer) THEN [Refuse(from) EXCEPT !.floor = answer.floor] ELSE Refuse(from)
Deliver(to, points, poll) == [Refuse(to) EXCEPT !.points = points, !.poll = poll]

\* A counter series stands for the rows it adds up; gauges are kept apart.
Point(metric, series, rows) == [metric |-> metric, series |-> series, rows |-> rows]
Points(metric, rows, series) ==
  {Point(metric, k, {r \in rows : series[r] = k}) : k \in {series[r] : r \in rows}}

\* Keys and series, as functions of the rows.
Itself == [r \in world |-> r]
ByZone == [r \in world |-> r.zone * 100]
ByLabel == [r \in world |-> r.zone * 100 + r.label]
ByHost == [r \in world |-> r.zone * 100 + r.host * 10 + r.label]
ByBucket == [r \in world |-> FloorBucket(r.at)]
=============================================================================
