# Verification of cf2otel

cf2otel is a Go daemon that polls Cloudflare's REST and GraphQL APIs and sends
what it reads to an OTLP backend as logs, traces and metrics.  This directory
holds TLA+ models of it, TLC configurations that check them on small instances,
and TLAPS proofs of the most important results for every instance.

What the daemon must get right is delivery: it keeps one durable cursor per
collector, and no source record may be passed by that cursor without having been
delivered, dropped for a stated reason, or reported as unavailable, whatever
fails and whenever the process stops.  What it delivers must also be right: a
counter adds each event once although windows are split, sliced, retried and cut,
and what lives only in memory (slots of series, names, login evidence, pending
changes, details read ahead) must not show in the result.

## The system

| Part | State it keeps | Operations | Interacts with |
| --- | --- | --- | --- |
| Scheduler (`internal/collector/scheduler.go`) | per collector: pending payload rejections, learned window limit, reduced payload budget; the process-wide `commitMu` | poll, fetch a window, commit, drop, skip a retention gap, shut down | collectors (fetch), providers (export), checkpoint store |
| Checkpoint store (`checkpoint.go`) | a map of cursors in memory and in one file | load, Get, Set | scheduler; file system |
| Commit accounting (`telemetry/provider.go`, `export_observer.go`, `log_batch.go`) | failure count and list, pending log batch, span queue | emit, background flush, BeginCommit, FlushCommit | scheduler, snapshot collectors, OTLP exporters |
| API client (`cfapi/client.go`, `limiter.go`, `entitlement_backoff.go`, `graphql.go`, `batch.go`) | token buckets and pauses, settings cache, in-flight settings reads | requests with retries, redirects and pagination; field intersection, chunking and joining of GraphQL queries | every collector |
| Zone polling and window splitting (`collector/zones.go`, `splitter.go`) | none between polls | choice of zones and their gauges, bisection of saturated windows | client, collectors |
| Account collectors (`internal/collectors/{d1,kv,queues,durableobjects,r2,workersai,workers,turnstile,rum,gateway}`) | names admitted for good | `CollectWindow`: whole five-minute buckets or raw rows, summed into counters and gauges | client, scheduler |
| Zone collectors (`internal/collectors/{httpreq,email,dns,firewall}`) | series and sources admitted for good | `CollectWindow`: the queries of every selected zone put together into one window | client, zone polling, scheduler |
| Identity index (`internal/identity`), `access.logins`, `httpreq` hydration | bounded set of login evidence | observe, look up, prune | each other; the Access log |
| `tunnels.status` | previous statuses and series, a pending snapshot | list, build, replay | SDK, log exporter |
| Snapshot collectors (`certs`, `warp`, `statuspage`, `dex`, `lb`) | series with a slot | `Collect` | client, gauge snapshots |
| `aigateway.logs` | details kept from a call that was cut | `CollectWindowBudget` | client, scheduler |
| Gauge snapshots (`telemetry/snapshot.go`) | published generations, the registered callback | publish, observe | SDK readers, snapshot collectors |
| Name caches (`names.go` of d1, kv, queues, durableobjects) | a mapping of ids to names and its expiry | look up, refresh | client, account collectors |
| Filters (`telemetry/filter.go`, `cardinality.go`) | deny policy | filter, name | emitters |
| Self-observability and health (`collectors/selfobs`, `internal/health`) | start and duration of polls, last successes, checkpoints, baselines of the identity outcomes | note, report | scheduler, identity index |
| Configuration, CLI, process (`internal/config`, `internal/cli`, `cmd/cf2otel`) | parsed settings | validate; run, run once, dry run, archive a checkpoint | everything |

What is hard in it: every collector is a goroutine that shares `commitMu`, the
checkpoint file and the export pipelines with the others; exports happen inside
emits whose errors the SDK swallows, on timers and in flushes with a deadline;
the API, the backend and the disk fail at any step; the process is stopped
during commits; rejected windows are pinned while the clock, the learned limit
and the budget move; retention overtakes a slow collector; the clock and
settings have fractions of a second while filters and cursors have none; lists
are read page by page while rows arrive in them; one zone of many fails or has
aged out; entitlements change which fields, spans and pages a query may use from
one poll to the next.  `PROJECT.json` lists these hazards at the lines where they
bite, with the properties that would catch them.

What makes each part correct:

- scheduler: no silent loss, cursors never go back, nothing is taken before it
  settled, a window is dropped only after three rejections of that very window,
  limits and budgets adapt within bounds, collectors catch up, shutdown ends;
- checkpoint store: an atomic map, readable after any crash, without lost
  updates between collectors;
- commit accounting: success means every record was accepted; a payload
  rejection is recognised exactly; a flush returns;
- API client: limits hold across buckets, retries end, a settings read is shared
  and its failure forgotten in time; a query returns whole rows or an error,
  whatever changes between its requests, and a listing loses nothing that stayed;
- name caches: no name is shared, wrong throughout the refresh that read it, or older
  than an hour (a mapping may mix moments of one refresh);
- filters and self-observability: nothing denied gets out, no look-up is told twice,
  and none is lost to a refused add or to snapshots that overlap;
- account collectors: whole buckets only, no event counted twice or missed, the
  newest gauge wins, names stay bounded, no cursor stands still;
- zone collectors: each event of each zone asked for is exported once, unless its zone
  was left out of that window, behind a retention floor, whose span is reported, or
  disabled, which shows in the gauge of skipped zones; the zone gauges add up;
- memory: whom a request is attributed to, which status a tunnel shows, which
  changes were told and which details a log carries depend on the source only,
  not on order, repetition, eviction, failure or restart.

## Modules

| Module | Models |
| --- | --- |
| `WindowDelivery` | the promise: a cursor that passes only accounted seconds |
| `Scheduler` | the polling loop of window collectors; implements `WindowDelivery` |
| `CheckpointStore` | the promise: an atomic map of cursors |
| `CheckpointFile` | `FileStore`; implements `CheckpointStore` |
| `ExportCommit` | `commit`, `BeginCommit`, `FlushCommit`, the observer and the batchers |
| `ApiClient` | REST and GraphQL requests, their retries and redirects, the token buckets they pass |
| `SettingsCache` | the shared, cached reads of GraphQL dataset settings |
| `GraphQLQuery` | one query: fields, chunks, slices, joined rows, saturation, renegotiation |
| `GraphQLBatch` | `QueryBatch`: checks, packing under budgets, whole answers |
| `Listings` | `Pages` and `Cursors` over a list that changes |
| `NameCache` | the id-to-name cache of the account collectors and its refresh |
| `IdentityOutcomes` | the counters of identity look-ups in `selfobs` |
| `DenyPolicy` | the deny policy on gauge snapshots |
| `Windows` | bucket arithmetic, the lag of bucketed collectors, `SplitWindow` and `Bisect`, slices of a long window, the choice of entitled fields |
| `GroupedWindows` | the answers of an account's datasets; points, caps and the admission of names |
| `NamedCollectors`, `ResourceCollectors` | `CollectWindow` of d1, kv, queues and durableobjects; of r2, workersai, workers, turnstile, rum and gateway |
| `GroupedCollectors` | the scheduler polling one of those seventeen collectors; the properties |
| `ZoneWindows` | `SelectZones` and `ZonePoll`; the answers of a zone's datasets; one window out of many zones |
| `ZoneHTTP`, `ZoneSecurity` | `CollectWindow` of the three httpreq collectors; of email, dns and firewall |
| `ZoneCollectors` | the scheduler polling one of those eight collectors, with `skipGap`; the properties |
| `LoginEvidence` | the identity index with the two collectors that fill it and the look-ups |
| `TunnelStatus` | the poll of `tunnels.status` with its pending replay |
| `GaugeSnapshots` | `GaugeSnapshots` and `observeSnapshots` against two readers of the SDK |
| `SnapshotPolls` | what certs, warp, statuspage, dex and lb publish |
| `GatewayLogs` | `CollectWindowBudget` of `aigateway.logs` with its pagers, cut and detail cache |
| `ProcessMemory` | the last five, and the six from `GraphQLQuery` to `DenyPolicy`, side by side |
| `MCScheduler`, `MCCommit`, `MCApiClient`, `MCGrouped`, `MCZones`, `MCProcessMemory` | instances for TLC |
| `Ranks` | the place of a number in a finite set; the pieces a list is cut into |
| `Sums` | sums over finite sets |
| `SchedulerProofs`, `ApiClientProofs` | theorems and proofs about the module of that name |
| `CommitProofs` | theorems about `ExportCommit` and `CheckpointFile` |
| `NumberProofs` | lemmas the other proofs share: least and greatest numbers, division, buckets, the recursion of `Bisect`, sums over finite sets |
| `ReadsProofs` | theorems about `Listings`, `NameCache`, `GraphQLBatch`, `GraphQLQuery`, `SnapshotPolls` and `DenyPolicy` |
| `MemoryProofs` | theorems about `GaugeSnapshots`, `IdentityOutcomes`, `LoginEvidence`, `TunnelStatus`, `GatewayLogs` and `SettingsCache` |
| `ZoneProofs` | theorems about `ZoneCollectors`, with lemmas about `ZoneWindows`, `ZoneHTTP` and `ZoneSecurity` |
| `GroupedProofs` | theorems about `GroupedCollectors`, with lemmas about `GroupedWindows`, `NamedCollectors` and `ResourceCollectors` |

Beside some definitions stands a variant of it marked "wrong on purpose": a
mutant, the same code with a dropped guard, a missing sync or a swapped order.
No specification uses a mutant.  `PROJECT.json` names, for each property, the
mutant that must violate it; some mutants are written without that remark but are
named there.

### Scheduler

Time is an integer number of ticks, `Second` of them to a second, so that the
fractional clock, lookbacks and windows of the code meet its whole-second filters
and cursors.  The rows of a window are the seconds it covers (`Rows`).  A
collector is `plain`, `adaptive` (its windows shrink after a commit deadline) or
`budgeted` (its payload budget shrinks and recovers), as its Go interfaces say.

| State | Code |
| --- | --- |
| `ckpt` | the checkpoint store, one atomic cursor per collector |
| `owner` | `commitMu` |
| `failed400`, `adaptiveWindows`, `commitBudgets` | the maps of the same names |
| `pc`, `run` | where the collector's goroutine is, and the locals of `runWindow` and `commitWindow` |
| `now`, `cancelled`, `restarts` | the clock, the context, the process |
| `origin`, `accounted`, `rejections` | history: first cursor, seconds accounted for, latest rejected windows |

| Action | Code |
| --- | --- |
| `Bootstrap`, `StartLookback`, `Resume` | `runWindow` up to its loop |
| `LeaveLoop`, `BeginWindow` | the loop's exits; the window chosen and the first half of `commitWindow` |
| `Fetched`, `FetchFailed`, `FetchedGap` | the collector's answer, checked as `commitWindow` checks it |
| `Lock`, `ExportOk`, `ExportDeadline`, `ExportFailed`, `ExportPanic`, `ExportRejected` | `commitWindow` under `commitMu`, by the result of the export |
| `Save`, `Announce`, `GapSave`, `CommitAborted` | `Checkpoints.Set`; `skipGap`; their failures |
| `Tick`, `Cancel`, `Stop`, `Restart`, `Exited` | time, the signal, the end of `runEntry`, crash or restart, the end of `Run` |

Two abstractions matter.  `Checkpoints.Set` is one atomic step; `CheckpointFile`
shows that `FileStore` provides that.  The export of a window has one result;
`ExportCommit` shows that a success covers every record and that a payload
rejection is what it says.  A power loss that undoes a rename is possible only
in `CheckpointFile`: it takes cursors back, and the scheduler then repeats work.

### CheckpointFile

The mutex, each caller's copy of the map and its temporary file, the file as
other processes see it (`file`) and the contents a power loss may leave (`disk`).
`Begin`, `Write`, `Sync`, `Rename`, `Finish` are the system calls of `Set` in
order, `Failed` any of their errors, `Load` is `NewFileStore`.  The error of the
directory sync is ignored by the code, so `Finish` may or may not make the rename
durable.  The history variables `acked` and `safe` hold what `Set` confirmed and
what the last directory sync covered.

### ExportCommit

Records are numbers.  The log batcher may export its pending batch before or
after it appends a record, depending on sizes, so `EmitLog` leaves open which.
An export under way holds the batcher's mutex and knows who waits for it: an emit
of the commit, of a snapshot collector (`OtherLog`), the timer (`LogTick`) or
ForceFlush.  Its result is success, a payload rejection (a 400 or a partial
success) or another failure, which may have reached the backend all the same.
The span batch processor is the SDK's: `SpanTick`, `FlushSpans` and `SpanDeadline`
follow from how the code uses it.  A commit runs `BeginCommit`, any number of
`ReplayLog` and `ReplaySpan` steps, and for each chunk `StartFlush`, both flushes,
`Judge` and `NextChunk`.

### ApiClient

A token is `Unit` parts and a rate is parts per tick.  Time is relative: a bucket
knows the ticks since its last refill and what is left of its pause, a caller what
is left of its timer.

| State | Code |
| --- | --- |
| `conf` | the accepted `RateLimitConfig`, with the account-based flag of `scopeBuckets` |
| `rate`, `burst`, `tokens`, `idle`, `paused`, `started` | the fields of each `tokenBucket` (`idle` is now less `last`) |
| `opened`, `holder` | the buckets `scopeBuckets` has made; their mutexes |
| `pc`, `path`, `held`, `timer` | where a call is: the buckets it locks in order, how many it holds, its sleep |
| `try`, `attempt`, `hop`, `at`, `token` | loops of `graph`, `do` and `doRedirects`, the next origin, the Authorization header |
| `level`, `barred`, `credit` | history: a leaky meter of each bucket's configured size, the longest pause asked for, admissions less exchanges |

| Action | Code |
| --- | --- |
| `Configure` | `ConfigureProcessRateLimit` |
| `Call`, `Attempt` | `Get` and its kin or `graph`; the request `do` builds and the buckets of `doRedirects` |
| `Lock`, `Admit`, `Delay`, `Woken`, `Cancelled` | `acquireBudgets` |
| `Failed`, `Answered`, `Redirected`, `TooManyRedirects`, `Retried`, `Exhausted`, `BackedOff` | the outcomes of an exchange in `doRedirects` and `do`, with the pause that the headers ask for |
| `BudgetRefused`, `Clamp` | the budget errors of `graph` and `clampRate` |

The header grammar is reduced to the pauses it can ask for (`Asks`), and the
exponential back-off is a table, because the prover cannot type a power of two.

### SettingsCache

`value` and `left` are the cached answer of a dataset and the time until it
expires, `pending` the table of reads in flight, `pc` where each query is.
`Hit`, `Join` and `Lead` are the three ways out of the loop of `settingsFor`,
`Answered`, `ReadFailed` and `Store` the read by its leader, and `Close` its
deferred function, which wakes the waiters.  `FieldDenied` is the renegotiation in
`queryWithSettings`.  What the API would answer (`upstream`) changes at any time.

### Windows, GroupedWindows and the account collectors

A behaviour follows one collector (`kind`) over one dataset (`world`): events
with a time, a resource, a number that counters add up, a level that gauges show
and a delay after which the dataset lists them.  The dataset answers a query by
what it lists at that moment, in rows by bucket and dimension.  Each poll draws
what it may find: the entitlement of the dataset (which fields are offered and
how many fit, the page limit, the longest window, whether the settings can be read),
the answer of the REST lookup for names, and a stray row past the end of the
window or an invalid number.  A collector's `CollectWindow` is one operator that
maps the window and these findings to a delivery or a refusal.

| State | Code |
| --- | --- |
| `mark`, `now`, `start` | the checkpoint, the clock, the first cursor |
| `admitted` | `nameAdmission` of d1, kv, queues and durableobjects; the resources of r2 |
| `total`, `lost` | history: what a counter has exported, and what the series cap cut |
| `gauge`, `exported` | the gauges of the last committed window; every series so far |

`Poll` is a window from the checkpoint to as far as lag and `max_window` allow,
with its commit or the failure of it; `Tick` is time.  `Bisect` and `Sliced` are
recursive functions over windows, so a page limit is met by the same leaves as in
the code.  What the scheduler does between windows is in `Scheduler` and is not
repeated here.

### ZoneWindows and the zone collectors

The same scheme with zones: a row also has a zone, a host, a label and a ray, and
`copy` tells apart records of one event.  `config` is what the operator asked for
(wanted, excluded, hosts, breakdowns, scope) and which zones exist, one of them of
another account.  Each poll draws the settings of every zone's dataset: readable,
enabled, fields, page, longest window, retention.  `Merged` puts a window together
as the loops over zones do: an outright failure ends it, retention gaps end it
together at their latest floor.  A counter that has been exported is kept as the
set of rows it stands for, so that a double count is visible (`again`).  `SkipGap`
is the scheduler's answer to a retention error; `spans` are the zone spans
reported as not collected, by it, by `emitDNSGaps` or because the dataset is
disabled.  Nobody reports a disabled zone's span: the code only counts the zone, by reason, in
the gauge of skipped zones.  `InLimit` is the limit on the groups of all slices of a window
together.  Email refuses a dataset without a retention limit, the others take zero for
none.  Three collectors treat a floor in three ways: email refuses the window,
dns retries that zone beyond its floor, firewall and httpreq hand the error on.

### LoginEvidence

`index` is the `MemoryIndex`: the latest time, the rows seen (fingerprints) and
the candidates kept, both bounded and both ordered by time and then by a digest
keyed anew in each process.  `access.logins` and `HydrateIdentity` of
`httpreq.events` read the Access log through `Open`, `ReadPage` (pages of a list
that moves while it is read), `ObserveRow` (a row is exported, then observed),
`Fail` and `Commit`.  `Ask` is `Lookup` with the advance of time it makes, `Prune`
the minute's pruning, `Restart` the end of the process, which keeps the marks only.
`told` compares the latest answer with the one that follows from all rows the log
listed when the window began (`due`) and all that were observed.

### TunnelStatus

`Read` is the poll's list, refused as a whole when a row is unnamed, without a
status or repeated.  `BuildNext` makes the pending snapshot: zeros for the series
that are gone, the new points, and a record for each change.  `ReplayPoint`,
`ReplayRecord`, `ReplayFails` and `ReplayEnds` are `finishPending`, one call at a
time; a poll first drains what an earlier one left pending.  `sdk` is what the SDK
shows, since it keeps every series it was ever given.

### GaugeSnapshots

Publishers hold the emitter's mutex from `Enter` to `Publish`; a gauge seen for the
first time needs a new callback, which `Register` adds to one reader's pipeline
after the other, and `Unregister` then removes the old one in the same way.  Each
reader collects by `StartCollection`, `RunCallback` for each callback in any order and
`EndCollection`, and registration waits for a collection that runs.  The SDK is
modelled from how the code uses it.

### SnapshotPolls

`Publication` is a poll of one of five collectors: what it read (a catalog whose
details may be unknown or fail, the answer of each zone, request rows) becomes the
points of a snapshot, or the last snapshot stays.  DEX tests and pools keep slots
of named series for the life of the process (`admittedTo`); devices, components
and certificate packs are cut afresh.

### GatewayLogs

Time is in instants, `Tenths` of them to a second of the source.  `Begin` opens a
call; `Decide` chooses the gateways whose next page is wanted, or the rows up to
which every gateway is listed (`AllHorizon`); `ListPage` reads a page of a list that
grows meanwhile.  `Land` is the answer to a read that runs ahead, `ReadDetail` takes
the next row's detail and starts one more, `EmitSecond` emits the rows of a second,
`CutOff` ends the window before a second that would overflow the budget and leaves
details to the retry, `Reached` goes on listing or ends the call, `Break` is any
error.  `Accept` is the scheduler's commit, saved or not.

### GraphQLQuery and GraphQLBatch

`world` is a request with the events of its dataset; `granted` are the settings the
API enforces at the moment, while `pass` keeps the settings, fields and chunks a pass
of `queryWithSettings` has taken (`OpenPass`), which come from the cache and may be any
grant there ever was.  `Answered` is one request of one chunk of one slice, `Close` the
end of a slice with the saturation check, `FieldDenied` and `Renegotiate` the single
second pass.  Events arrive late between two requests, and of a sampled dataset each
request gets any sample.  In a sampled dataset of the instance no two events share a
join key: the code joins by key alone, since `types.go:23` requires join fields that
"uniquely identify a row within one query window".

`Prepare` checks one selection of a batch against its settings, `PacketEnd` packs the
prepared ones, `AskPacket` sends a packet and stores or refuses its arrays.

### Listings and NameCache

A list is a set of items in the API's order; `Appear` and `Disappear` change it between
two requests.  `listing` is a call of `Pages` or `Cursors` with its rows, the pages or
cursors it has asked for, and those it has seen.  `steady` and `ever` are what was
listed all the time and at some time.  A page listing can miss a row when another
one leaves the list, because page numbers shift: `ListingComplete` excludes that case,
and the code cannot see it.

`LookUp` takes the cache's mutex and, when the hour is over, begins a refresh that
`LoadPage` continues and `LoadFails` ends; `truths` are the pairs of resource and name
that held since it began.  The four packages hold the same code; the lines named are
those of d1.

### IdentityOutcomes and DenyPolicy

`EnterIdentity` is a snapshot that takes the identity mutex and reads what the index has
counted; `AddAccepted` and `AddRefused` are its adds, one outcome after the other, and
only an accepted one moves the baseline (`identityLast`).  `Attach` replaces the index.
Indexes are numbered, so that `added` says which index a counter's share came from.

`PublishBatch` is one publication under a policy that denies something; an empty policy
does not filter.  `Attrs` is the rule all signals share and goes through a bag as the
loop does, `LastWins` is the reduction of gauge points that become one series.

### ProcessMemory

The eleven parts share nothing with each other: the scheduler, the exports and the
shared settings, which do, have modules and runs of their own.  Each behaviour is about one of them
(`subject`) while the others stay as they start: the states of the parts add up
instead of multiplying, and no interleaving between them is lost, because none
could matter.

## Runs

| Run | Instance | Properties | Shows |
| --- | --- | --- | --- |
| `sched_plain` | one plain collector, two ticks a second, window and lookback of 1.5 s, lag, retention of 2.5 s, one restart | `NoSilentLoss`, `Settled`, `DropJustified`, `KeepsPromise` | no silent loss, settled rows only, justified drops, refinement of `WindowDelivery` |
| `sched_adaptive` | one adaptive collector, window 3, lookback 4, export capacity 1, one restart | `WithinLimit`, `CatchUp`, `ShutdownCompletes` | windows within learned limits, catch-up, the end of a shutdown |
| `sched_budgeted` | one budgeted collector, budget five, chunk and capacity two | `CatchUp` | catch-up although the budget overshoots |
| `commit_store` | exports: three records, three failures, a failure list of two; the store: two collectors, two cursor values, two crashes | `CommitDelivered`, `VerdictExact`, `FlushReturns`, `PowerSafe`, `IsAtomicStore` | delivery on success, exact verdicts, every flush returns; what a power loss may leave; an atomic store |
| `api_calls` | a REST and a GraphQL call, or two GraphQL calls of one zone; a bucket that refills two thirds of a token a tick | `WithinQuota`, `Returns` | quota across own and shared buckets with rounded waits, every call returns, three shared buckets locked in one order |
| `api_rest` | two REST callers of the same buckets with two calls each, chains of three exchanges, two configurations | `TokenStaysHome`, `NoAdmissionDuringPause` | pauses that meet a waiter on the same bucket; the token's origin, also after a redirect home |
| `api_reconfigure` | two GraphQL calls of one zone | `Idempotent` (violation) | configuring the same values again after traffic can fail |
| `settings_cache` | two queries of a zone and an account dataset, backoff 2, other lifetimes 1 | `SingleRead`, `BackoffHonoured`, `Returns`, `GrantNoticed` | one read at a time, the backoff of a denial; waiters go on, renegotiation ends, a grant is noticed |
| `grouped` | seventeen collectors, fourteen of them bucketed, three datasets, seven entitlements | `CountsExact`, `SeriesBounded`, `GaugeNewest`, `NeverStuck` | each event counted once or cut by a cap, one name budget, newest gauges, moving cursors |
| `grouped_narrow` | the bucketed collectors with `max_window` of one bucket | `NeverStuck` (violation) | a cursor off the bucket grid never moves |
| `zones` | eight collectors, two datasets, four operator configurations, nine settings | `ZonesExact`, `ZonesAddUp`, `SeriesForLife`, `ZonesMove` | each event of each zone asked for exported once or its zone left out of the window, gauges that add up, moving cursors |
| `process_memory` | the eleven parts of `ProcessMemory` | `RightUser`, `TunnelsTold`, `OneGeneration`, `PollsAddUp`, `GatewaySound`, `QuerySound`, `BatchSound`, `ListingSound`, `NamesSound`, `OutcomesTold`, `FilterExact` | results that depend on the source only; whole rows or an error within the settings; complete listings that end; sound names; exact counters and an exact filter |

Some of these are conjunctions of two or three statements that stand before them under
names of their own: `CountsExact` says `CountedOnce` and `DepthAtMostOnce`; `ZonesExact`
says `NoZoneLost`, `NeverTwice` and `GapsAreLocal`; `TokenStaysHome` says `TokenAtHome` and
`TokenStaysOff`; `TunnelsTold` says `StatusFollows` and
`ChangesTold`; `GatewaySound` says `LogsExact` and `DetailsFresh`; `QuerySound` says
`RowsExact` and `RequestsFit`; `BatchSound` says `BatchWhole` and `PacketsFit`;
`ListingSound` says `ListingComplete` and `AskedOnce`.  Each part has a mutant of its own.

The runs from `grouped` on switch the deadlock check off, because their clocks, polls
and calls are bounded and a behaviour ends there.

Bounds.  In `sched_plain` the clock runs over three seconds and past the retention,
with fractional windows so that every rounding occurs: a gap, three rejections, a
deadline and a restart fit in one behaviour.  The runs that check liveness are
smaller: a few seconds, a drop after two rejections, one collector, and a backlog
that needs several commits.  That `commitMu` is held by nobody but the goroutine inside a
commit is proved for any number of collectors (`Mutex`); that a collector does not starve
another is left to the fairness of Go's mutex, since catch-up is checked of one collector at
a time.  In `commit_store` the exports and the store, which share no state, are looked at
in one run, each behaviour about one of them (`half`): two crashes allow a crash while
recovering from a power loss, three failures overflow a list of two, and three records give
two chunks beside another emitter.

In the runs of `ApiClient` a call makes two attempts (five in the code) of two exchanges,
three in `api_rest` (ten in the code): the second leaves the API's origin, the third comes
back to it, the last is retried or gives up, and those between repeat the second.  A call is
up to four admissions, six in `api_rest`, against bursts of one and two, so buckets run dry
and refill.  In `api_rest` both callers share both their buckets and call twice: a response
of one call pauses a bucket, longer or shorter than before, on which the other already waits.
In `api_calls` two of three callers call (`Together`): a REST and a GraphQL caller, which share the
total, or two GraphQL callers, which lock the same three buckets.  A token is three parts there, of
which GraphQL refills two, or one after a clamp, in a tick, so that waits are rounded.  `Horizon`
is where the time since a refill stops counting; an assumption makes it long enough
to fill every bucket.  In `settings_cache` every lifetime is short, so that entries
expire while others read, and that of a denial differs from that of other answers, so that
one cannot stand for the other.

In `grouped` a bucket is two ticks and the clock reaches ten: windows of up to four
buckets, first cursors on and off the grid, pages of two and three rows so that
windows are split down to a bucket and also beyond what fits, slices of one bucket,
one name to admit among three resources and a series cap of three.  In `zones` a
bucket is two ticks, the clock reaches eight and a window four; three zones, one of
them foreign, lose their dataset, its readability or their retention one at a time,
and every limit (hosts, series, sources, top labels, firewall series, rows of all slices) is small enough to be
met.  A retention of zero is no limit, which email refuses.

In `process_memory` the logins come from two users behind one address with delays of
up to three ticks, two candidates and three fingerprints are kept, and pages have two
rows.  Tunnels are listed seven ways over four polls.  Two publishers of two gauges
each meet two readers, with points that live for two moments.  The snapshot
collectors poll four times with nine catalogs of up to eight items, six series, and
zones that fail or lack the product.  The gateway logs have two gateways, several
rows in a second, pages of two, a list cap of six, budgets of none and two, a cache of
two details that live four instants, and two reads ahead.

Its queries cut a window of three seconds into slices of one or two and four fields into
chunks of two and three, meet pages of two to four rows exactly, and the grant changes
twice, so before and after the renegotiation; the batches have up to four selections with
budgets of one to five fields or none.  Of five items, two appear or disappear during a
listing of at most four pages of one or two rows.  Three resources are renamed, created
and deleted twice within and between refreshes, beyond the total and the pages that are
read.  Two snapshots of the counters run at once, each outcome is counted twice in each of
two indexes.  Publications have up to three points with seven bags of three attributes.

Fairness.  A goroutine that can move again and again does: the ticker fires and
every call has a timeout.  Steps that wait for a mutex get strong fairness, as
Go's mutex hands over to a waiter after a millisecond.  For catch-up the
environment succeeds again and again: the API answers, the backend accepts what
fits, the disk accepts a write; nothing of this is assumed for safety.  In
`ExportCommit` every export ends, because each carries a deadline.  In `ApiClient`
time passes and each call takes its steps; with finitely many calls weak fairness is
enough.  With endless calls the code does not exclude starvation, since sleeping
calls hold no reservation, so `Returns` is claimed for bounded traffic only.  In
`SettingsCache` a query that waits may find the next read already started by
another; `Returns` therefore promises that it looks again and that it
ends unless it waits anew.  `GrantNoticed` assumes that collectors poll each dataset
again and again without being cancelled each time, and that reads succeed in the end.
The grouped and zone modules and the parts of `ProcessMemory` assume no fairness.  That their cursors move is
stated of a state instead: in each one where something is available, a healthy poll
moves the checkpoint (`NeverStuck`, `ZonesMove`), and a call of the AI Gateway
collector that returns has moved its mark (`GatewaySound`).

## Proofs

All for every value of the constants that satisfies the named assumptions.

`SchedulerProofs`: `TypeCorrect`, `Mutex` (`CommitExclusion`), `NoLoss`
(`NoSilentLoss`), `CursorNeverBack` (`CursorForward`) and `Implements`
(`KeepsPromise`).  `NoSilentLoss` is not inductive, because it does not know what
a running poll is about to save.  `Coverage` adds that: a poll in progress started
at the second of the durable cursor, its mark lies ahead, and when it is about to
save, the seconds up to its mark are accounted for.  Steps of one collector leave
the others' entries alone (a frame lemma), so the invariant is proved for one
collector at a time.

The same module proves `SettledRows` (`Settled`), `LimitHonoured` (`WithinLimit`) and
`DropsJustified` (`DropJustified`), one inductive invariant each.  `Settling` ties
every mark to the clock: a window under way ends a lag behind it, a pending rejected
window did so when it was rejected, and the mark a collector returns lies within the
window.  `Fitting` says that neither a window under way nor a pending rejected one is
wider than the limit, so resuming a pending window after a restart of the poll is
covered.  `Tallied` says that the rejection log ends with as many rejections of the
pending window as the poller has counted, which is what a drop after three relies on.

`CommitProofs`, of the checkpoint file: `FileTypeCorrect` (with it, that every file that can be read
decodes), `MemoryFile`, `UpdatesKept`, `PowerLossSafe` and `AtomicStore`, from the
invariant `Consistent`: only the holder of the mutex is inside `Set`, its copy
differs from the map in its own cursor, and the file is the old map before the
rename and the new one after it.

`CommitProofs`, of export accounting: `TypeCorrect` (with the gapless failure list),
`Delivered` (`CommitDelivered`) and `Judged` (`VerdictExact`).  `Delivered` follows from
`Tracked`: while no failure was counted since `BeginCommit`, each record of the commit
is delivered or still in a pipeline whose flush has not returned.  `Judged` follows
from `Witnessed`: while a commit runs, the kinds of the failures counted since
`BeginCommit` are all in the list unless it was trimmed, and a failed flush has left
its own kind there.

`ApiClientProofs`: `TypeCorrect`, `TokenHome` (`TokenStaysHome`: the token goes to its own
origin only, and a chain that has lost it does not regain it by coming home), `Metered`
(`EveryExchangeMetered`), `QuotaKept` (`WithinQuota`) and `PausesRespected`
(`NoAdmissionDuringPause`), the last because a bucket's pause ends exactly with the
longest one that any response asked for (`PauseKept`).  That the meter stays below
its size is not inductive: it says nothing of the tokens still to be taken.  `Quota`
adds it: the meter's load together with the refilled tokens fits in the bucket, so
an admission moves a token from one side to the other, a tick drains the meter at
least as fast as the bucket fills, and a clamp only slows the filling.

`ReadsProofs`: `ListingsSound` (`ListingSound`), `NamesAlwaysSound` (`NamesSound`),
`BatchesSound` (`BatchSound`) and `QueriesSound` (`QuerySound`).  Each property speaks
of a finished call, and each invariant of one under way.  `ListsInv` knows that an item that has been listed
all the time has been collected once its place lies before the next page, or its number
below the next cursor, and that no cursor asked with comes again.  `NamesInv` keeps the rows of a
refresh under way within what was true since it began, and, as long as nothing has
changed, says which resources they are: those up to the page, so that the total and the last page
can be judged.  `BatchInv` says that the selections sent are the first ones, each answered with
all its rows, and that each prepared one keeps to its own budget.  `QueryInv` says of the slices
closed that their rows are whole, distinct and complete for what the dataset held when the query
began, and of the chunks joined so far in the open slice that, unless their page is full, they carry the cells of the
fields asked for, for all those events; and that a pass uses one set of settings throughout.

Of `SnapshotPolls` it proves `PollsAlwaysAddUp` (`PollsAddUp`).  There is a lemma for each kind of poll (`CertsRight`
to `PoolsRight`) that its snapshot adds up.  They share `SortedInto`: points of distinct series, each with the sum of
the items that fall into it, have the sum of all items.  Series are ordered (`KeysOrdered`), so the first
`n` of them are at most `n` (`FirstFew`), which bounds the slots.  `PollsInv` adds to `PollsAddUp` what makes a name stay: every
name ever shown holds a slot, the slots keep to their limit, and every item measured whose series has a
slot is shown under it.

Of `DenyPolicy` it proves `FilterAlwaysExact` (`FilterExact`).  What the loops of the filter compute is found without
induction on the sequences: the rounds of a loop are a function on its indices (`Iterated`), and what each round keeps
true is true of the last (`CountUp`).  `AttrsExact` says that of a filtered bag the attributes are those not
hidden, and its set keeps the last value of each such key; `FirstsExact` that the reduction keeps the first point of each series, in order.
`SameSeries` connects the two: the sets of two filtered bags are equal exactly if the hidden keys leave the same pairs of both.  `LastWinsExact`
then turns the order around.

`MemoryProofs`: `OneGenerationSeen` (`OneGeneration`), for any number of
publishers, gauges and readers.  That a finished collection has seen one snapshot of each
batch says nothing of one under way.  `Sound` adds to it what makes the swap of callbacks
safe: every callback covers all published gauges and is the one in force or the one being
registered (`Covered`), a batch is replaced as a whole (`Together`), and a collection that
still has a callback to run while somebody publishes has not run any, so what it has seen
is still published (`Underway`) and no older than at its start (`NoOlder`).

It also proves `OutcomesExact` (`OutcomesTold`).  `Told` adds to it what a
snapshot under way has read: it holds the identity mutex, its counts have been counted,
and those it has still to add are no less than the baseline, so each difference is what
the index has counted since and never starts a new epoch by mistake.

`EvidenceRight` (`RightUser`) rests on `EvidenceInv`: candidates and fingerprints
are the highest of all useful rows observed, each in its own number, whatever the order
and repetition of arrival; and of the rows due when a window of requests began, those whose place lies
before the next page have been read, since later arrivals only push rows to later pages.
`TunnelsAlwaysTold` (`TunnelsTold`) rests on `TunnelInv`: each series shows its value in the last
snapshot replayed in full or in the pending one, the points replayed so far show theirs, nothing new shows before all that is
retired is at zero, and the changes are those exported with those still pending.

The same module proves of `SettingsCache` `CacheTypeCorrect`, `Shared` (`SingleRead`, since the table of
reads names each reader from `Lead` to `Close`) and `DenialHonoured`
(`BackoffHonoured`, since a denial stays in the cache exactly as long as its backoff,
and no other answer replaces it without a new read).

And `GatewayAlwaysSound` (`GatewaySound`).  `GatewayInv` has six
parts.  `PagerInv` is the core: a row that a gateway listed when the call began has been seen,
or its place lies beyond the pages read and it is no earlier than the last row read, since a row
only moves to later places while the call runs; so everything before the horizon of every
gateway is known.  `StageInv` says where a known row is: pending behind the limit, queued, in
the second that is gathered, or emitted.  `EmitInv` keeps these in order, second by second, and
with `FlightInv` says of each detail emitted, gathered or in flight that it is fresh for this call; what is
kept for a retry has arrived, and a body missing for the moment is not kept (`BaseInv`).
`WindowInv` keeps the call's instants ordered and on whole seconds.

`ZoneProofs`: `ZonesAlwaysExact` (`ZonesExact`), `GaugesAlwaysAddUp` (`ZonesAddUp`),
`SeriesAlwaysBounded` (`SeriesForLife`) and `ZonesAlwaysMove` (`ZonesMove`).  The proof climbs the layers of the code.  A query's
answer is `Exact`: complete, it holds the rows of its zone and window and no others; a retention
error in it names the floor of that zone.  One query, a query whose page must not be full, slices of a long window and
bisection each keep this (`FetchExact`, `OnceExact`, `InSlicesExact`, `BisectExact`).  `Bisect` is a recursive
function over pairs of bounds; that its value exists follows from parts of a window being narrower than
it.  `Merged` puts zones together without losing one (`MergedExact`).  On these rests one lemma per
`CollectWindow`, each with the same conclusion, `Promise`: the window refuses or names a floor, or it
counts each event of the zones asked for once, up to its mark, except in spans it reports as not
collected.  The polls of `ZoneCollectors` only use `Promise`.  `ZonesExact` is not inductive: it speaks of events
that are due and says nothing of the others.  `ZoneInv` adds that every counted row ends at or before the checkpoint (`CountedBefore`), so a
later window counts none again; that every reported span lies before it and, for DNS, never
in a zone that is enabled and had not aged out at the start (`SpansBefore`); and that each event before the checkpoint is counted or covered, all those of
a bucket the checkpoint has come to lie in being covered (`Complete`), since a skip moves the checkpoint to
a retention floor, off the bucket grid.  `SeriesKept` bounds the admitted names: a fold admits fewer than the
room left, and an exported series is an admitted one or the fold.

`ZonesAlwaysMove` has the hypothesis `WideEnough`: `max_window` is positive and, for the kinds that take whole
buckets, holds one from any second on.  `RoomThere` finds it.  A healthy zone is enabled, has every
field, and has not aged out past the checkpoint, so no floor lies in the window; for email it has a
retention limit, without which the code refuses.  It then answers every query: a page
holds all rows there are (`Ample`, `FetchOk`), so nothing is split (`Unsplit`), and the slices, which stay
within the row limit (`InLimitOk`), and the merge of
the zones answer too, so no `CollectWindow` refuses.  The points of `httpreq.metrics` are at most five for
each row (`MetricPointsFew`), which `Roomy` leaves room for.  `Promise` says that a mark which
differs lies ahead, so it is enough that the mark differs.

`GroupedProofs`: `CountsExactHolds`, `SeriesBoundedHolds`, `GaugeNewestHolds` and `NeverStuckHolds`, after the
properties.  The layers are those of `ZoneProofs`, but the rows of an answer are themselves sums: a
query answers one row for each bucket and key, and `GroupsAre` says these are the rows of the whole dataset that lie in
its span, so that the answers of slices and halves unite to the answer of the whole
(`BisectHolds`, `SlicedHolds`).  `AllLanded` says that the lag has let every event of a whole bucket show up: no later
poll finds a delivered bucket grown.  `SumsSplit` and `ClassRows` say that series, names and the cap regroup the rows
without changing what they add up to.  From these each collector gets its lemma (`D1Promise` to
`VitalsPromise`) with the conclusion `Promise`: the cursor stays, or the points and what the cap cut add up
to the events due between the two cursors, a gauge is a level of the last complete bucket, and only
admitted names appear.  `DueJoined` joins two windows.  The invariant, `GroupedInv`, adds to the properties that a bucketed
cursor that has moved lies on the grid, and that the admitted names, of which there are at
most `MaxNames`, hold every name exported, since a commit may fail after names were
admitted.

`NeverStuckHolds` has a hypothesis, `WideEnough`: `max_window` holds a whole bucket from any second on,
the series cap is positive (`config.go:720` rejects another), and a row counts at least one event, as GraphQL groups do.  `grouped_narrow` shows that the first part is
needed.  With it a healthy query answers (`Plenty`: fewer rows than a page; `NotSplit`), no window is refused, and `RoomThere`
finds a whole bucket in it.

Pages, queues and prefixes are sets of items by their place (`Ranks`, `Place`, `Before`) and not sorted
sequences or folds, of which the prover knows nothing.  The lemmas about places carry most of
these proofs: the pages of a set cover it, each place is taken once, and a place only grows when the
set does.

Assumptions.  Limits and page sizes are natural numbers, positive where the code sets a default
or rejects zero (`ListingAssumption`, `NamesAssumption`, `BatchAssumption`, `QueryAssumption`,
`EvidenceAssumption`, `TunnelAssumption`, `GatewayAssumption`, `LimitAssumption`, `PollAssumption`: `dex/tests.go:160`
refuses a limit below the reserve), the attributes of a bag are pairs of a
key and a value (`PolicyAssumption`), the settings of a
dataset have the types of the API's answer and no zone is the value for none (`SettingsAssumption`), the kinds are those modelled
(`KindAssumption`), and the worlds are finite.  Six say more.  `CatalogAssumption`: a zone lists a certificate pack once; `certs/packs.go` does
not look for a second.  `WorldAssumption` of `GroupedWindows`: a row shows up within the collectors' lag, which is
why they have one.  `QueryAssumption`: in a sampled dataset the join fields tell rows apart, as
`types.go:23` asks of whoever writes a query.  `RowAssumption`: an id names one log, also across
gateways; `takeBefore` breaks ties of time by it.  `GatewayAssumption`: some gateway is configured; with
none a window is empty.  `EventAssumption`: records of one ray and time are of one event, so of one
zone, and its first record exists; `httpreq/http.go:422` and `firewall/events.go:83` drop a second
record by that key.

The type invariants, `CommitExclusion`, `CursorForward`, `MemoryMatchesFile`, `NoLostUpdate` and
`EveryExchangeMetered` are listed in no run: the theorems cover them.

Where an argument goes by induction on a number, the proofs take the least number that fails
(`WellFoundedInduction` states that there is one without a parameter).  The induction theorems themselves
take an operator, which no installed prover can instantiate.

Only model-checked: liveness (`CatchUp`, `ShutdownCompletes`, `FlushReturns`,
`Returns`, `GrantNoticed`), which is out of the prover's reach.  Every invariant and every action property
that a passing run checks is a theorem.

## Findings

`limiter.go:98` calls `ConfigureProcessRateLimit` idempotent after traffic.  It
compares the configured GraphQL rate with the rate in use, which `clampRate` lowers
after a per-token budget error; from then on the configuration in force is refused as
a different one.  Run `api_reconfigure` shows it.

`config.go:754` accepts any positive `max_window` for a bucketed collector other than
`workersai.metrics`.  With a `max_window` of five minutes and a cursor off the bucket
grid no window ever holds a complete bucket, and the collector stands still; backlog
task cfo-0074 (its line 25) records that such settings are rejected or have a
documented treatment.  Run `grouped_narrow` shows it.

`.groma/flows/poll-and-export-a-window.md` says the checkpoint advances only after
the flush succeeds.  `commitWindow` also advances it when it drops a window after
three payload rejections, as `docs/configuration.md` says; `Scheduler` follows the code.

## Plan

Modelled so far, in this order: delivery (scheduler, checkpoint file, commit, client,
settings), the account collectors, the zone collectors, the parts that live in memory,
queries, listings, names, the identity outcomes and the deny policy.  What could follow:

1. `GraphQLQuery` below `GroupedWindows` and `ZoneWindows`, in place of their whole answers.
2. The process: start-up, one-off and dry runs, `CollectRange`, shutdown order, the
   configuration rules.
3. Proofs: that the answers of `GraphQLQuery` are those `GroupedWindows` and `ZoneWindows` assume.

## Not modelled

- Chunks and joins below the collectors: the answers of `GroupedWindows` and
  `ZoneWindows` are whole, as `GraphQLQuery` shows a query's to be.
- The transfer snapshot, the path templates, the cached rule descriptions and the counter of
  host spellings left out (`httpreq/latency.go:61`, at most one more series a zone, for which
  `Roomy` leaves space) of the zone and account collectors.
- Of `aigateway.logs`: the cache's byte limit, the attributes of a record and the
  coverage comparison.
- Audit, health check and Logpush failure logs, which keep nothing between windows;
  status page incidents; Logpush health, the account inventory and Access seats.
- `CollectRange` and the poll summaries of the scheduler; a failing Unregister, which
  the SDK does not have.
- The cardinality counts, the buffer of a poll, the process log, the notes, gauges and
  counters of polls and exports, the health endpoint (a constant answer), configuration rules, process
  wiring and CLI.
- The Prometheus endpoint, the tables of names in `internal/semconv` and the developer
  tools under `tools/`, which have no state the properties could be about.

Metrics, process logs and operational traces are outside commit accounting by
design.  Record contents, formatting and logging are abstracted everywhere.
`PROJECT.json` gives the status of every part.
