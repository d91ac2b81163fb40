---------------------------- MODULE SnapshotPolls ----------------------------
(***************************************************************************)
(* What the collectors of inventory snapshots publish: certificate packs   *)
(* (certs), devices (warp), status components (statuspage), DEX tests and  *)
(* load balancer pools.  Each poll reads a catalog and details that may be *)
(* missing or fail one by one, bounds its series, and replaces the last    *)
(* snapshot or leaves it alone.                                            *)
(***************************************************************************)
EXTENDS Integers, Sequences, FiniteSets, Sums

CONSTANTS
  PollKinds,  \* collectors that are modelled
  PollWorlds, \* what a poll may find
  SeriesCap,  \* the collectors' series limits
  SnapshotPollLimit

\* A world: the items of the catalog, the answer of each zone, and the rows of
\* the request datasets.  An item has an id, a name, a kind, a value, a zone,
\* and the answer of its detail: "ok", "unknown" or "failed".
\* Other is the name of remainders, and of what must not be named.
Other == 0

VARIABLES
  polled,    \* the collector
  runs,      \* polls so far
  admittedTo,\* series that have a slot for the life of the process
  shown,     \* the points of the last snapshot published
  shownOf,   \* history: the world it was taken from
  everNamed  \* history: series that were ever shown under their own name
polling == <<polled, runs, admittedTo, shown, shownOf, everNamed>>

Point(gauge, series, value, count) == [gauge |-> gauge, series |-> series, value |-> value, count |-> count]
NoSnapshot == [ok |-> FALSE]
Snapshot(points, admitted) == [ok |-> TRUE, points |-> points, admitted |-> admitted]

Lex(a, b) == \E i \in DOMAIN a : a[i] < b[i] /\ \A j \in 1..(i - 1) : a[j] = b[j]
First(keys, n) == {k \in keys : Cardinality({o \in keys : Lex(o, k)}) < n}
Values(items) == {i.value : i \in items}

\* Slots go to series in order, as long as there are any, and are never returned.
\* (SlotsAfresh is wrong on purpose.)
SlotsAfresh(held, wanted, slots) == First(wanted, slots)
Slots(held, wanted, slots) == held \cup First(wanted \ held, slots - Cardinality(held))

-----------------------------------------------------------------------------
\* Certificate packs: any zone that fails leaves the snapshot alone; a pack
\* whose expiry is not known has no expiry point.
CertPacks(w) ==
  LET packs == {i \in w.items : w.zones[i.zone] # "none"}
  IN  IF \E z \in DOMAIN w.zones : w.zones[z] = "fail" THEN NoSnapshot
      ELSE Snapshot({Point("pack", <<i.zone, i.id>>, 1, 1) : i \in packs} \cup
                    {Point("expiry", <<i.zone, i.id>>, i.value, 1) : i \in {i \in packs : i.answer = "ok"}}, {})

\* Devices: listed again with the same dimensions is one device, with others an error.
Devices(w) ==
  LET names == {<<i.name>> : i \in w.items}
      own == First({n \in names : n[1] # Other}, SeriesCap)
      Of(set) == Cardinality({i.id : i \in {i \in w.items : <<i.name>> \in set}})
  IN  IF \/ \E i, o \in w.items : i.id = o.id /\ i.name # o.name
         \/ \E i \in w.items : i.answer = "failed"
        THEN NoSnapshot
      ELSE Snapshot({Point("devices", n, Of({n}), Of({n})) : n \in own} \cup
                    (IF names \subseteq own THEN {}
                     ELSE {Point("devices", <<Other>>, Of(names \ own), Of(names \ own))}), {})

\* Components: the worst of a name and kind, and the worst of those past the cap.
Components(w) ==
  LET keys == {<<i.name, i.kind>> : i \in w.items}
      own == First(keys, SeriesCap)
      Worst(set) == Max(Values({i \in w.items : <<i.name, i.kind>> \in set}))
  IN  IF \E i \in w.items : i.answer = "failed" THEN NoSnapshot
      ELSE Snapshot({Point("component", k, Worst({k}), 1) : k \in own} \cup
                    (IF keys = own THEN {} ELSE {Point("component", <<Other, 0>>, Worst(keys \ own), 1)}), {})

\* DEX tests: each kind has its metrics, and there is a slot in reserve for the
\* remainder of every metric of every kind.  A mean is kept as a sum and a count.
MetricsOf(kind) == IF kind = 1 THEN {1, 2} ELSE {2, 3}
Reserve == Cardinality(MetricsOf(1)) + Cardinality(MetricsOf(2))

DEXTests(w) ==
  LET good == {i \in w.items : i.answer # "failed"}
      measured == {i \in good : i.answer = "ok"}
      SeriesBy(i) == {<<i.name, i.kind, m>> : m \in MetricsOf(i.kind)}
      all == UNION {SeriesBy(i) : i \in measured}
      slots == Slots(admittedTo, {k \in all : k[1] # Other}, SeriesCap - Reserve)
      Rest(k, m) == {i \in measured : i.kind = k /\ <<i.name, k, m>> \notin slots /\ m \in MetricsOf(k)}
      Sum(set) == Total(set, [i \in set |-> i.value])
  IN  IF \/ \E i, o \in w.items : i # o /\ i.id = o.id
         \/ \E i, o \in w.items : i # o /\ i.name # Other /\ <<i.name, i.kind>> = <<o.name, o.kind>>
         \/ w.items # {} /\ good = {}
        THEN NoSnapshot
      ELSE Snapshot(
        (UNION {{Point("dex", s, i.value, 1) : s \in SeriesBy(i) \cap slots} : i \in measured}) \cup
        {Point("dex", <<Other, x[1], x[2]>>, Sum(Rest(x[1], x[2])), Cardinality(Rest(x[1], x[2]))) :
           x \in {x \in {1, 2} \X {1, 2, 3} : Rest(x[1], x[2]) # {}}}, slots)

\* Requests of each pool over the zones that answer; names past the budget, and
\* names of no pool, are counted together.
PoolRequests(w, budget) ==
  LET rows == {r \in w.rows : w.zones[r.zone] = "ok"}
      known == {<<i.name>> : i \in w.items}
      own == First({<<r.name>> : r \in {r \in rows : r.name # Other /\ <<r.name>> \in known}}, budget - 1)
      rest == {r \in rows : <<r.name>> \notin own}
      Sum(set) == Total(set, [r \in set |-> r.count])
      Of(n) == {r \in rows : <<r.name>> = n}
  IN  IF w.items = {} \/ budget < 1 THEN {}
      ELSE {Point("requests", n, Sum(Of(n)), Cardinality(Of(n))) : n \in own} \cup
           (IF rest = {} THEN {} ELSE {Point("requests", <<Other>>, Sum(rest), Cardinality(rest))})

\* Pools: a failed read leaves its pool out, an unknown flag too; the remainder
\* is as healthy as the least healthy pool in it. (LastHealth is wrong on purpose.)
LastHealth(values) == Max(values)
LeastHealth(values) == Min(values)

Pools(w) ==
  LET valid == {i \in w.items : i.answer # "failed"}
      measured == {i \in valid : i.answer = "ok"}
      slots == Slots(admittedTo, {<<i.name>> : i \in {i \in measured : i.name # Other}}, SeriesCap - 1)
      rest == {i \in measured : <<i.name>> \notin slots}
      health == {Point("health", <<i.name>>, i.value, 1) : i \in measured \ rest} \cup
                (IF rest = {} THEN {}
                 ELSE {Point("health", <<Other>>, LeastHealth(Values(rest)), Cardinality(rest))})
  IN  IF \/ \E i, o \in w.items : i # o /\ (i.id = o.id \/ i.name = o.name)
         \/ w.items # {} /\ valid = {}
         \/ w.items # {} /\ \E z \in DOMAIN w.zones : w.zones[z] = "fail"
        THEN NoSnapshot
      ELSE Snapshot(health \cup PoolRequests(w, SeriesCap - Cardinality(health)), slots)

ASSUME PollAssumption ==
  /\ PollKinds \subseteq {"certs.packs", "warp.fleet", "statuspage.components", "dex.tests", "lb.health"}
  /\ SeriesCap \in Nat \ {0} /\ ("dex.tests" \in PollKinds => SeriesCap >= Reserve)
  /\ SnapshotPollLimit \in Nat

\* Of the catalog: a zone lists a pack once.
ASSUME CatalogAssumption ==
  \A w \in PollWorlds :
    /\ IsFiniteSet(w.items) /\ IsFiniteSet(w.rows)
    /\ \A i \in w.items : i.name \in Nat /\ i.kind \in {1, 2} /\ i.value \in Nat
    /\ \A r \in w.rows : r.name \in Nat /\ r.count \in Nat
    /\ \A i, o \in w.items : i.zone = o.zone /\ i.id = o.id => i = o

SnapshotOf(w) ==
  CASE polled = "certs.packs" -> CertPacks(w) [] polled = "warp.fleet" -> Devices(w)
    [] polled = "statuspage.components" -> Components(w) [] polled = "dex.tests" -> DEXTests(w)
    [] polled = "lb.health" -> Pools(w)

\* A publication that fails takes no slot.
Publication(w) ==
  /\ runs < SnapshotPollLimit
  /\ runs' = runs + 1
  /\ \E s \in {SnapshotOf(w)} :
       \/ UNCHANGED <<admittedTo, shown, shownOf, everNamed>>
       \/ /\ s.ok
          /\ admittedTo' = s.admitted /\ shown' = s.points /\ shownOf' = w
          /\ everNamed' = everNamed \cup {p.series : p \in {p \in s.points :
                                       p.gauge \in {"dex", "health"} /\ p.series[1] # Other}}
  /\ UNCHANGED polled

RestartPolls ==
  /\ admittedTo' = {} /\ shown' = {} /\ shownOf' = [items |-> {}, zones |-> << >>, rows |-> {}]
  /\ everNamed' = {}
  /\ UNCHANGED <<polled, runs>>

PollsStart(kind) ==
  /\ polled = kind /\ runs = 0
  /\ admittedTo = {} /\ shown = {} /\ shownOf = [items |-> {}, zones |-> << >>, rows |-> {}] /\ everNamed = {}
PollsInit == \E kind \in PollKinds : PollsStart(kind)
PollsNext == (\E w \in PollWorlds : Publication(w)) \/ RestartPolls
PollsSpec == PollsInit /\ [][PollsNext]_polling

-----------------------------------------------------------------------------
Shown(gauge) == {p \in shown : p.gauge = gauge}
CountOf(points) == Total(points, [p \in points |-> p.count])
ValueOf(points) == Total(points, [p \in points |-> p.value])
Fine(items) == {i \in items : i.answer = "ok"}

SeriesOfItem(i) == IF polled = "dex.tests" THEN {<<i.name, i.kind, m>> : m \in MetricsOf(i.kind)}
                   ELSE {<<i.name>>}
NamesKept ==
  polled \in {"dex.tests", "lb.health"} =>
    /\ \A i \in Fine(shownOf.items) : \A s \in SeriesOfItem(i) \cap everNamed :
         \E p \in shown : p.gauge \in {"dex", "health"} /\ p.series = s
    /\ Cardinality(everNamed) < SeriesCap

PointsAddUp ==
  LET items == shownOf.items
  IN  CASE polled = "certs.packs" ->
             LET packs == {i \in items : shownOf.zones[i.zone] # "none"}
             IN  /\ CountOf(Shown("pack")) = Cardinality(packs)
                 /\ CountOf(Shown("expiry")) = Cardinality(Fine(packs))
        [] polled = "warp.fleet" ->
             /\ ValueOf(shown) = Cardinality({i.id : i \in items})
             /\ Cardinality(shown) <= SeriesCap + 1
        [] polled = "statuspage.components" ->
             /\ \A i \in items : \E p \in shown :
                  p.value >= i.value /\ (p.series = <<i.name, i.kind>> \/ p.series[1] = Other)
             /\ \A p \in shown : p.value \in Values(items)
             /\ Cardinality(shown) <= SeriesCap + 1
        [] polled = "dex.tests" ->
             /\ \A m \in {1, 2, 3} :
                  LET measured == {i \in Fine(items) : m \in MetricsOf(i.kind)}
                      points == {p \in shown : p.series[3] = m}
                  IN  /\ CountOf(points) = Cardinality(measured)
                      /\ ValueOf(points) = Total(measured, [i \in measured |-> i.value])
             /\ Cardinality(shown) <= SeriesCap
        [] polled = "lb.health" ->
             /\ CountOf(Shown("health")) = Cardinality(Fine(items))
             /\ Fine(items) # {} => Min({p.value : p \in Shown("health")}) = Min(Values(Fine(items)))
             /\ items # {} /\ Cardinality(Shown("health")) < SeriesCap =>
                  LET rows == {r \in shownOf.rows : shownOf.zones[r.zone] = "ok"}
                  IN  ValueOf(Shown("requests")) = Total(rows, [r \in rows |-> r.count])
             /\ Cardinality(Shown("health")) + Cardinality(Shown("requests")) <= SeriesCap

\* Whatever the caps and the failures, a snapshot accounts for everything its
\* poll measured: no device, measurement or request is lost or counted twice,
\* no outage hides in a remainder, and the series keep to the limit; and a
\* series once shown under its own name never disappears into a remainder for
\* as long as the process lives (fleet.Collect, componentCollector.Collect,
\* testsCollector.Collect, healthCollector.Collect).
PollsAddUp == PointsAddUp /\ NamesKept
=============================================================================
