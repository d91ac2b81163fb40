--------------------------- MODULE GaugeSnapshots ---------------------------
(***************************************************************************)
(* Gauge snapshots (internal/telemetry/snapshot.go): collectors replace    *)
(* all points of a batch of related gauges at once, while the readers of   *)
(* the SDK (the periodic OTLP reader and the Prometheus endpoint) collect. *)
(* A new gauge is observed by a new callback that covers every gauge; it   *)
(* is registered with each reader's pipeline in turn, then the old one is  *)
(* removed in the same way, and both wait for a collection that runs.      *)
(***************************************************************************)
EXTENDS Naturals, Sequences, Functions

CONSTANTS
  Publishers,  \* collectors that publish snapshots
  NamesOf,     \* the gauges each publishes
  Pipelines,   \* the SDK's readers: a sequence, in the order it keeps them
  TTL,         \* three intervals of the collector
  MaxMoment,   \* moments that are modelled
  Generations  \* snapshots each publisher puts together

NoOne == "no one"
Waiting == [at |-> "idle"]

ASSUME SnapshotAssumption ==
  /\ TTL \in Nat \ {0} /\ NoOne \notin Publishers
  /\ Pipelines \in Seq(Range(Pipelines)) \ {<< >>} /\ IsInjective(Pipelines)
  /\ \A p, o \in Publishers : p # o => NamesOf[p] \cap NamesOf[o] = {}

VARIABLES
  moment,       \* the clock
  held,         \* who has the emitter's mutex
  step,         \* where each publisher is in GaugeSnapshots
  made,         \* generations each publisher has put together
  snapshots,    \* the points published for each gauge, by generation and expiry
  callbacks,    \* each pipeline's callbacks and the gauges they may report
  registration, \* the callback the emitter knows of
  collecting    \* each pipeline's collection, if one runs, and what it has observed
gauges == <<moment, held, step, made, snapshots, callbacks, registration, collecting>>

Readers == Range(Pipelines)
Resting == [at |-> "rest"]
Busy(r) == collecting[r].at = "run"

-----------------------------------------------------------------------------
(* The SDK: a collection runs the callbacks of its pipeline one after the   *)
(* other, in any order, under the pipeline's lock.                          *)

StartCollection(r) ==
  /\ ~Busy(r)
  /\ collecting' = [collecting EXCEPT ![r] =
       [at |-> "run", todo |-> callbacks[r], seen |-> {}, before |-> snapshots]]
  /\ UNCHANGED <<moment, held, step, made, snapshots, callbacks, registration>>

\* observeSnapshots: one read lock and one instant for all gauges.  The SDK
\* drops what a callback reports of gauges it was not registered for.
Observed(c) ==
  {<<n, snapshots[n].generation>> :
     n \in {n \in DOMAIN snapshots \cap c.names : moment < snapshots[n].expires}}
RunCallback(r) ==
  /\ Busy(r)
  /\ \E c \in collecting[r].todo :
       collecting' = [collecting EXCEPT ![r].todo = @ \ {c}, ![r].seen = @ \cup Observed(c)]
  /\ UNCHANGED <<moment, held, step, made, snapshots, callbacks, registration>>

EndCollection(r) ==
  /\ Busy(r) /\ collecting[r].todo = {}
  /\ collecting' = [collecting EXCEPT ![r] = Resting]
  /\ UNCHANGED <<moment, held, step, made, snapshots, callbacks, registration>>

-----------------------------------------------------------------------------
(* A publication: GaugeSnapshots, from the lock of the emitter on.          *)

Leave(p) == held' = NoOne /\ step' = [step EXCEPT ![p] = Waiting]

\* Gauges seen for the first time need an instrument and a callback.
Enter(p) ==
  /\ step[p] = Waiting /\ held = NoOne /\ made[p] < Generations
  /\ made' = [made EXCEPT ![p] = @ + 1]
  /\ held' = p
  /\ step' = [step EXCEPT ![p] =
       [at |-> IF NamesOf[p] \subseteq DOMAIN snapshots THEN "publish" ELSE "register",
        names |-> DOMAIN snapshots \cup NamesOf[p], id |-> <<p, made[p] + 1>>, pipe |-> 1]]
  /\ UNCHANGED <<moment, snapshots, callbacks, registration, collecting>>

\* The SDK refuses an instrument or the callback, before it registers anything.
Refuse(p) ==
  /\ step[p].at = "register" /\ step[p].pipe = 1
  /\ Leave(p)
  /\ UNCHANGED <<moment, made, snapshots, callbacks, registration, collecting>>

\* What becomes of the old callback. (KeepOld is wrong on purpose.)
AfterRegister(s) == [s EXCEPT !.at = "unregister", !.pipe = 1]
KeepOld(s) == [s EXCEPT !.at = "publish"]
DropOld(s) == IF registration = << >> THEN KeepOld(s) ELSE AfterRegister(s)

Register(p) ==
  LET s == step[p]
      r == Pipelines[s.pipe]
      last == s.pipe = Len(Pipelines)
  IN  /\ s.at = "register" /\ ~Busy(r)
      /\ callbacks' = [callbacks EXCEPT ![r] = @ \cup {[id |-> s.id, names |-> s.names]}]
      /\ step' = [step EXCEPT ![p] = IF last THEN DropOld(s) ELSE [s EXCEPT !.pipe = @ + 1]]
      /\ registration' = IF last /\ DropOld(s).at = "publish" THEN s.id ELSE registration
      /\ UNCHANGED <<moment, held, made, snapshots, collecting>>

Unregister(p) ==
  LET s == step[p]
      r == Pipelines[s.pipe]
      last == s.pipe = Len(Pipelines)
  IN  /\ s.at = "unregister" /\ ~Busy(r)
      /\ callbacks' = [callbacks EXCEPT ![r] = {c \in @ : c.id # registration}]
      /\ step' = [step EXCEPT ![p] = IF last THEN [s EXCEPT !.at = "publish"] ELSE [s EXCEPT !.pipe = @ + 1]]
      /\ registration' = IF last THEN s.id ELSE registration
      /\ UNCHANGED <<moment, held, made, snapshots, collecting>>

\* All gauges of the batch change under one write lock, and expire together.
Publish(p) ==
  /\ step[p].at = "publish"
  /\ snapshots' = [n \in DOMAIN snapshots \cup NamesOf[p] |->
       IF n \in NamesOf[p] THEN [generation |-> made[p], expires |-> moment + TTL] ELSE snapshots[n]]
  /\ Leave(p)
  /\ UNCHANGED <<moment, made, callbacks, registration, collecting>>

\* The context of the poll has ended: nothing is published, but the callback stays.
Cancelled(p) ==
  /\ step[p].at = "publish"
  /\ Leave(p)
  /\ UNCHANGED <<moment, made, snapshots, callbacks, registration, collecting>>

Pass ==
  /\ moment < MaxMoment
  /\ moment' = moment + 1
  /\ UNCHANGED <<held, step, made, snapshots, callbacks, registration, collecting>>

GaugesInit ==
  /\ moment = 0 /\ held = NoOne
  /\ step = [p \in Publishers |-> Waiting] /\ made = [p \in Publishers |-> 0]
  /\ snapshots = [n \in {} |-> 0]
  /\ callbacks = [r \in Readers |-> {}] /\ registration = << >>
  /\ collecting = [r \in Readers |-> Resting]

GaugesNext ==
  \/ \E r \in Readers : StartCollection(r) \/ RunCallback(r) \/ EndCollection(r)
  \/ \E p \in Publishers : Enter(p) \/ Refuse(p) \/ Register(p) \/ Unregister(p) \/ Publish(p) \/ Cancelled(p)
  \/ Pass

GaugesSpec == GaugesInit /\ [][GaugesNext]_gauges

-----------------------------------------------------------------------------
GenerationsSeen(r, p) == {x[2] : x \in {x \in collecting[r].seen : x[1] \in NamesOf[p]}}

\* Every collection sees, of each batch, all gauges of one published snapshot,
\* no older than the one at hand when the collection began, or nothing; and
\* nothing only if there was none then or it has expired since
\* (observeSnapshots, GaugeSnapshots).
OneGeneration ==
  \A r \in Readers, p \in Publishers :
    Busy(r) /\ collecting[r].todo = {} =>
      LET before == collecting[r].before
          there == NamesOf[p] \subseteq DOMAIN before
      IN  \/ /\ GenerationsSeen(r, p) = {}
             /\ there => \A n \in NamesOf[p] : moment >= before[n].expires
          \/ \E g \in GenerationsSeen(r, p) :
               /\ {x \in collecting[r].seen : x[1] \in NamesOf[p]} = NamesOf[p] \X {g}
               /\ there => \A n \in NamesOf[p] : g >= before[n].generation
=============================================================================
