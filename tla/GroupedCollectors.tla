-------------------------- MODULE GroupedCollectors --------------------------
(***************************************************************************)
(* The scheduler polling one account collector: each poll asks for the     *)
(* window from the checkpoint to as far as the collector's lag allows.     *)
(* The points of a window reach the SDK, and its end becomes the           *)
(* checkpoint, only when the commit succeeds; a refused window, or one     *)
(* whose commit fails, is asked for again.                                 *)
(***************************************************************************)
EXTENDS ResourceCollectors

Window(from, to, q) ==
  CASE kind = "d1.analytics" -> D1Window(from, to, FALSE, q)
    [] kind = "d1.storage" -> D1Window(from, to, TRUE, q)
    [] kind = "kv.operations" -> KVWindow(from, to, FALSE, q)
    [] kind = "kv.storage" -> KVWindow(from, to, TRUE, q)
    [] kind = "queues.message_operations" -> QueueWindow(from, to, FALSE, q)
    [] kind = "queues.backlog" -> QueueWindow(from, to, TRUE, q)
    [] kind = "durableobjects.invocations" -> DOWindow(from, to, FALSE, q)
    [] kind = "durableobjects.sql_storage" -> DOWindow(from, to, TRUE, q)
    [] kind = "r2.operations" -> R2Window(from, to, FALSE, q)
    [] kind = "r2.storage" -> R2Window(from, to, TRUE, q)
    [] kind = "workersai.metrics" -> AIWindow(from, to, q)
    [] kind = "workers.overview" -> OverviewWindow(from, to, q)
    [] kind = "workers.invocations" -> InvocationsWindow(from, to, q)
    [] kind = "turnstile.events" -> TurnstileWindow(from, to, q)
    [] kind = "rum.pageloads" -> PageloadsWindow(from, to, q)
    [] kind = "rum.web_vitals" -> VitalsWindow(from, to, q)
    [] kind = "gateway.dns" -> GatewayWindow(from, to, q)

\* Where the next window ends.
Lag == IF kind \in Raw THEN Holdback ELSE LagAt(now, Holdback)
Until == Least(now - Lag, mark + MaxWindow)

Sums(points, metric) ==
  SumN({[name |-> p.name, n |-> p.value] : p \in {p \in points : ~p.gauge /\ p.metric = metric}})

Metrics == {Main, Depth}

Init ==
  /\ kind \in Kinds
  /\ world \in Worlds
  /\ start \in Starts
  /\ kind \in {"queues.message_operations", "queues.backlog"} => \A r \in world : r.id # Blank
  /\ now = Holdback /\ mark = start
  /\ admitted = {} /\ exported = {} /\ gauge = {}
  /\ total = [m \in Metrics |-> 0] /\ lost = [m \in Metrics |-> 0]

Tick ==
  /\ now < MaxTime
  /\ now' = now + 1
  /\ UNCHANGED <<kind, world, start, mark, admitted, total, lost, gauge, exported>>

\* A window is collected and committed, or collected and its commit fails.
Poll(q, commits) ==
  /\ mark < Until
  /\ \E result \in {Window(mark, Until, q)} :
       /\ admitted' = result.admitted
       /\ IF commits /\ result.mark # mark
          THEN /\ mark' = result.mark
               /\ total' = [m \in Metrics |-> total[m] + Sums(result.points, m)]
               /\ lost' = [m \in Metrics |-> lost[m] + Sums(result.cut, m)]
               /\ gauge' = {p \in result.points : p.gauge}
               /\ exported' = exported \cup {<<p.metric, p.name>> : p \in result.points}
          ELSE UNCHANGED <<mark, total, lost, gauge, exported>>
  /\ UNCHANGED <<kind, world, now, start>>

Lists == {<<>>, Directory}     \* what the REST lookup may return
Requests == {q \in [s : Settings, names : Lists, stray : BOOLEAN, bad : BOOLEAN] : ~(q.stray /\ q.bad)}

\* The dataset is entitled to everything and no query reaches a limit.
Healthy(q) ==
  /\ q.s.read /\ q.s.enabled /\ q.s.fields >= 5 /\ q.s.page > Cardinality(world)
  /\ q.s.span >= Bucket /\ q.s.retention > 0
  /\ {"value", "bucket", "resource", "depth"} \subseteq q.s.offered
  /\ ~q.stray /\ ~q.bad
  /\ kind \in Raw => Cardinality({r.id : r \in world}) < QueryLimit

Next == Tick \/ \E q \in Requests, commits \in BOOLEAN : Poll(q, commits)

Spec == Init /\ [][Next]_vars

-----------------------------------------------------------------------------
\* What the dataset ends up holding for the windows already delivered.
Covered(r) ==
  IF kind \in Raw THEN start <= r.at /\ r.at < mark
  ELSE CompleteBucket(FloorBucket(r.at), start, mark)
Counted == kind \notin {"d1.storage", "kv.storage", "queues.backlog", "durableobjects.sql_storage",
                        "r2.storage", "rum.web_vitals"}

(***************************************************************************)
(* Every event of a delivered window is in the counter exactly once, or in *)
(* what the series cap is known to have cut: however windows are sized,    *)
(* split at a page limit, sliced by a duration limit, refused, retried, or *)
(* their names merged into the remainder (each CollectWindow; LagAt and    *)
(* the floor and ceiling that keep an incomplete bucket out).              *)
(***************************************************************************)
CountedOnce ==
  Counted => total[Main] + lost[Main] = SumN({r \in world : Covered(r)})

(***************************************************************************)
(* A series that depends on the entitlement of the moment is never counted *)
(* twice, though a window may go without it (collectDepth of d1, queues    *)
(* and durableobjects; the optional sums of workersai).                    *)
(***************************************************************************)
DepthAtMostOnce ==
  total[Depth] + lost[Depth] <= SumN({r \in world : Covered(r)})

(***************************************************************************)
(* The counters of a collector and the optional series beside them: each   *)
(* event once, whatever is refused (each CollectWindow with collectDepth). *)
(***************************************************************************)
CountsExact == CountedOnce /\ DepthAtMostOnce

(***************************************************************************)
(* A metric carries at most MaxNames names of its own over the collector's *)
(* lifetime, whatever the directory returns and however often a window is  *)
(* retried (nameAdmission of d1, kv, queues and durableobjects;            *)
(* capResources of r2).                                                    *)
(***************************************************************************)
SeriesBounded ==
  kind \in {"d1.analytics", "d1.storage", "kv.operations", "kv.storage", "queues.message_operations",
            "queues.backlog", "durableobjects.invocations", "durableobjects.sql_storage",
            "r2.operations", "r2.storage"}
    => Cardinality({s \in exported : s[1] = Main /\ s[2] # Other}) <= MaxNames

Recent(r, from, to) ==
  /\ CompleteBucket(FloorBucket(r.at), from, to)
  /\ \A other \in world :
       other.id = r.id /\ CompleteBucket(FloorBucket(other.at), from, to)
         => FloorBucket(other.at) <= FloorBucket(r.at)

(***************************************************************************)
(* A gauge that a bucketed window exports is a value some resource had in  *)
(* the last complete bucket the window found that resource in, never an    *)
(* older one and never a sum (aggregate, namedRows and collectDepth;       *)
(* aggregateRows and capResources of r2).                                  *)
(***************************************************************************)
GaugeNewest ==
  [][kind \notin Raw /\ mark' # mark =>
       \A p \in gauge' : \E r \in world : Recent(r, mark, mark') /\ r.level = p.value]_vars

Available ==
  IF kind \in Raw THEN mark + Holdback < now
  ELSE \E b \in 0 .. MaxTime : mark <= b * Bucket /\ (b + 1) * Bucket + Holdback <= now

(***************************************************************************)
(* No cursor is stuck: while there is a whole bucket (of a dataset without *)
(* buckets, any time at all) between the checkpoint and what the lag lets  *)
(* through, a poll that finds the API healthy moves the checkpoint.  An    *)
(* unaligned cursor, a narrow max_window, an earlier refusal or a name     *)
(* admission must not hold it where it is (runWindow's bound, each         *)
(* CollectWindow's early returns; config.go's lower bound on max_window).  *)
(***************************************************************************)
NeverStuck ==
  Available => \A q \in Requests : Healthy(q) => Window(mark, Until, q).mark > mark
=============================================================================
