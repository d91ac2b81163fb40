----------------------------- MODULE MCGrouped -----------------------------
(***************************************************************************)
(* Instances of GroupedCollectors.  Buckets of two ticks and a clock of    *)
(* ten give windows of up to four buckets, cursors off the bucket grid,    *)
(* and windows that are split, sliced and cut.                             *)
(***************************************************************************)
EXTENDS GroupedCollectors

MCKinds ==
  {"d1.analytics", "d1.storage", "kv.operations", "kv.storage", "queues.message_operations",
   "queues.backlog", "durableobjects.invocations", "durableobjects.sql_storage",
   "r2.operations", "r2.storage", "workersai.metrics", "workers.overview",
   "workers.invocations", "turnstile.events", "rum.pageloads", "rum.web_vitals", "gateway.dns"}

\* The collectors whose max_window may be as short as one bucket.
NarrowKinds == MCKinds \ (Raw \cup {"workersai.metrics"})

Event(at, id, n, level, delay) == [at |-> at, id |-> id, n |-> n, level |-> level, delay |-> delay]

\* Resources that come and go; one event that has none.
Early == {Event(1, 1, 1, 7, 0), Event(1, 2, 2, 4, 2), Event(2, 3, 4, 5, 1), Event(3, 1, 8, 2, 2),
          Event(4, 2, 16, 6, 0), Event(7, 3, 32, 1, 2)}
Late == {Event(0, 2, 1, 3, 1), Event(4, 3, 2, 6, 2), Event(5, 1, 4, 2, 0), Event(6, 1, 8, 9, 2),
         Event(7, 2, 16, 4, 1), Event(5, Blank, 32, 8, 1)}
Even == {Event(2, 2, 1, 2, 0), Event(3, 3, 2, 6, 2), Event(6, 2, 4, 3, 1)}
MCWorlds == {Early, Late, Even}

MCDirectory == [id \in {1, 2} |-> 10 - id]

Full == [read |-> TRUE, enabled |-> TRUE, fields |-> 5, page |-> 10, span |-> 9, retention |-> 1,
         offered |-> {"value", "bucket", "resource", "depth", "actions"}]
MCSettings ==
  {Full,
   [Full EXCEPT !.page = 3, !.span = 5],            \* split and sliced
   [Full EXCEPT !.fields = 2],                      \* no optional field
   [Full EXCEPT !.fields = 3, !.page = 2],          \* some rows never fit
   [Full EXCEPT !.fields = 0],
   [Full EXCEPT !.span = 1],                        \* no room for a bucket
   [Full EXCEPT !.read = FALSE]}
=============================================================================
