---------------------------- MODULE GraphQLQuery ----------------------------
(***************************************************************************)
(* One query of a GraphQL dataset (internal/cfapi/graphql.go, Query): the  *)
(* fields both wanted and granted, split into chunks that share the join   *)
(* fields, asked slice by slice of the window, joined row by row, and      *)
(* asked once more from the start when the API denies a field.  Meanwhile  *)
(* the API changes what it grants and rows arrive late; an adaptive        *)
(* dataset answers each request with a sample of its own.                  *)
(***************************************************************************)
EXTENDS Ranks, Sequences

CONSTANTS
  QueryWorlds,  \* a request, the events it is about and the grants in turn
  DefaultLimit, \* rows of a page if the request names no limit
  Regrants      \* times the grant regranted

\* What settings hold, and a world.  Join fields "uniquely identify a row" of the
\* dataset (types.go:23): the samples of an adaptive one agree on their events.
IsGrant(s) ==
  /\ s.enabled \in BOOLEAN /\ s.available \subseteq Nat /\ IsFiniteSet(s.available)
  /\ {s.fields, s.duration, s.page, s.floor} \subseteq Nat
IsWorld(w) ==
  /\ w.wanted \subseteq Nat /\ w.join \subseteq Nat /\ IsFiniteSet(w.join)
  /\ {w.limit, w.from, w.to} \subseteq Nat /\ w.from < w.to /\ w.sampled \in BOOLEAN
  /\ \A s \in w.grants : IsGrant(s)
  /\ IsFiniteSet(DOMAIN w.events) /\ \A e \in DOMAIN w.events : w.events[e].at \in Nat
  /\ w.sampled => \A e, o \in DOMAIN w.events :
       (\A f \in w.join : w.events[e].cells[f] = w.events[o].cells[f]) => e = o
ASSUME QueryAssumption == DefaultLimit \in Nat /\ \A w \in QueryWorlds : IsWorld(w)

VARIABLES
  world,    \* the request and the dataset
  granted,  \* the settings the API enforces
  regranted, \* how often they have changed
  present,  \* the events the dataset holds
  begun,    \* those it held when the query began
  pass,     \* where queryWithSettings is
  result    \* how the query ended
query == <<world, granted, regranted, present, begun, pass, result>>

-----------------------------------------------------------------------------
(* What the settings allow. *)

Smaller(a, b) == IF a < b THEN a ELSE b

\* The wanted fields that are granted, each once, or all granted ones if none is
\* named.  Fields are numbers, in the order in which they are named.
Intersect(wanted, available) == IF wanted = {} THEN available ELSE wanted \cap available

\* Chunks of the join fields and the next n others each.
Chunked(fields, join, n) ==
  LET rest == fields \ join
  IN  [i \in 1 .. (Cardinality(rest) + n - 1) \div n |-> join \cup Ranked(rest, (i - 1) * n + 1, i * n)]

CanJoin(fields, join, max) == join # {} /\ Cardinality(join) < max /\ join \subseteq fields
\* Wrong on purpose: the join fields are not counted.
UncountedJoin(fields, join, max) ==
  IF max = 0 \/ Cardinality(fields) <= max THEN <<fields>>
  ELSE IF CanJoin(fields, join, max) THEN Chunked(fields, join, max) ELSE << >>
\* One chunk if the fields fit, else chunks that leave room for the join
\* fields; none if that is impossible.
FieldChunks(fields, join, max) ==
  IF max = 0 \/ Cardinality(fields) <= max THEN <<fields>>
  ELSE IF CanJoin(fields, join, max) THEN Chunked(fields, join, max - Cardinality(join)) ELSE << >>

PageLimit(s) ==
  LET limit == IF world.limit = 0 THEN DefaultLimit ELSE world.limit
  IN  IF s.page = 0 THEN limit ELSE Smaller(limit, s.page)

\* The end of the slice that begins at start.
SliceEnd(s, start) == IF s.duration = 0 THEN world.to ELSE Smaller(start + s.duration, world.to)

-----------------------------------------------------------------------------
(* The API.  It refuses what its settings do not allow. *)

Selected == pass.chunks[pass.chunk]
Until == SliceEnd(pass.settings, pass.start)

Denied == granted.enabled /\ ~(Selected \subseteq granted.available)
Served ==
  /\ granted.enabled /\ Selected \subseteq granted.available
  /\ granted.fields = 0 \/ Cardinality(Selected) <= granted.fields
  /\ granted.duration = 0 \/ Until - pass.start <= granted.duration
  /\ granted.page = 0 \/ PageLimit(pass.settings) <= granted.page

\* The events of the slice, or as many of them as the page holds; of an
\* adaptive dataset any sample.
Pages ==
  LET there == {e \in present : world.events[e].at \in pass.start .. Until - 1}
      limit == PageLimit(pass.settings)
      size == Smaller(Cardinality(there), limit)
  IN  IF world.sampled THEN {page \in SUBSET there : Cardinality(page) <= limit}
      ELSE {page \in SUBSET there : Cardinality(page) = size}

Cells(e, fields) == [f \in fields |-> world.events[e].cells[f]]
Answer(page) == {[event |-> e, cells |-> Cells(e, Selected)] : e \in page}

-----------------------------------------------------------------------------
(* Joining the rows of two chunks. *)

Key(row) == [f \in world.join |-> row.cells[f]]
Distinct(rows) == \A r, o \in rows : Key(r) = Key(o) => r = o
AnyJoinable(left, right) == \A l \in left : \E r \in right : Key(l) = Key(r)  \* wrong on purpose
Joinable(left, right) ==
  /\ Cardinality(left) = Cardinality(right)
  /\ Distinct(right) /\ Distinct(left)
  /\ \A l \in left : \E r \in right : Key(l) = Key(r)

Merge(a, b) == [f \in DOMAIN a \cup DOMAIN b |-> IF f \in DOMAIN a THEN a[f] ELSE b[f]]
JoinRows(left, right) ==
  {[event |-> l.event, cells |-> Merge(l.cells, (CHOOSE r \in right : Key(l) = Key(r)).cells)] : l \in left}

-----------------------------------------------------------------------------
(* The query. *)

Unasked == [at |-> "idle"]
NoResult == [outcome |-> "none"]
End(outcome) == pass' = [at |-> "done"] /\ result' = [outcome |-> outcome]

RowsCarried(s, fields, chunks, again) ==  \* wrong on purpose
  [at |-> "run", settings |-> s, fields |-> fields, chunks |-> chunks, again |-> again,
   start |-> IF again THEN pass.start ELSE world.from, chunk |-> 1, merged |-> {},
   rows |-> IF again THEN pass.rows ELSE << >>]
\* A pass starts over: no rows yet.
Fresh(s, fields, chunks, again) ==
  [at |-> "run", settings |-> s, fields |-> fields, chunks |-> chunks, again |-> again,
   start |-> world.from, chunk |-> 1, merged |-> {}, rows |-> << >>]

\* The beginning of queryWithSettings.
OpenPass(s, again) ==
  LET fields == Intersect(world.wanted, s.available)
      chunks == FieldChunks(fields, world.join, s.fields)
  IN  IF ~s.enabled \/ fields = {} THEN End("unentitled")
      ELSE IF chunks = << >> THEN End("field limit")
      ELSE IF world.from < s.floor THEN End("gap")
      ELSE pass' = Fresh(s, fields, chunks, again) /\ result' = result

\* The settings come from the cache: any grant the API once had.
BeginQuery ==
  /\ pass = Unasked
  /\ begun' = present
  /\ \E s \in world.grants : OpenPass(s, FALSE)
  /\ UNCHANGED <<world, granted, regranted, present>>

OverFull(rows, limit) == Cardinality(rows) > limit  \* wrong on purpose
Full(rows, limit) == Cardinality(rows) >= limit

\* The last chunk of a slice: the slice is complete unless the page was full.
Close(merged) ==
  LET rows == Append(pass.rows, merged)
  IN  IF Full(merged, PageLimit(pass.settings)) THEN End("saturated")
      ELSE IF Until < world.to
      THEN pass' = [pass EXCEPT !.rows = rows, !.start = Until, !.chunk = 1, !.merged = {}] /\ result' = result
      ELSE /\ pass' = [at |-> "done"]
           /\ result' = [outcome |-> "rows", rows |-> rows, fields |-> pass.fields]

Receive(part) ==
  IF pass.chunk > 1 /\ ~Joinable(pass.merged, part) THEN End("mismatch")
  ELSE LET merged == IF pass.chunk = 1 THEN part ELSE JoinRows(pass.merged, part)
       IN  IF pass.chunk < Len(pass.chunks)
           THEN pass' = [pass EXCEPT !.chunk = @ + 1, !.merged = merged] /\ result' = result
           ELSE Close(merged)

Answered ==
  /\ pass.at = "run" /\ Served
  /\ \E page \in Pages : Receive(Answer(page))
  /\ UNCHANGED <<world, granted, regranted, present, begun>>

\* A denied field: the settings are read again, once, then its error is returned.
FieldDenied ==
  /\ pass.at = "run" /\ Denied
  /\ IF pass.again THEN End("denied")
     ELSE pass' = [pass EXCEPT !.at = "refresh"] /\ result' = result
  /\ UNCHANGED <<world, granted, regranted, present, begun>>
Renegotiate ==
  /\ pass.at = "refresh"
  /\ OpenPass(granted, TRUE)
  /\ UNCHANGED <<world, granted, regranted, present, begun>>

\* The request or the new read of the settings fails, or the API refuses it.
Failed ==
  /\ pass.at \in {"run", "refresh"}
  /\ End("failed")
  /\ UNCHANGED <<world, granted, regranted, present, begun>>

Regrant ==
  /\ regranted < Regrants /\ pass.at # "done"
  /\ \E s \in world.grants \ {granted} : granted' = s
  /\ regranted' = regranted + 1
  /\ UNCHANGED <<world, present, begun, pass, result>>

Arrive ==
  /\ pass.at # "done"
  /\ \E e \in DOMAIN world.events \ present : present' = present \cup {e}
  /\ UNCHANGED <<world, granted, regranted, begun, pass, result>>

QueryStarts(w, settings) ==
  /\ world = w
  /\ granted = settings /\ regranted = 0
  /\ present = {e \in DOMAIN world.events : ~world.events[e].late} /\ begun = {}
  /\ pass = Unasked /\ result = NoResult
QueryInit == \E w \in QueryWorlds : \E settings \in w.grants : QueryStarts(w, settings)

QueryNext == BeginQuery \/ Answered \/ FieldDenied \/ Renegotiate \/ Failed \/ Regrant \/ Arrive

QuerySpec == QueryInit /\ [][QueryNext]_query

-----------------------------------------------------------------------------
\* A query that returns rows returns each event of its window at most once and
\* whole, with the cells of that very event, all rows with the same fields, and
\* every event that was there when it began unless the dataset is sampled:
\* nothing of a pass that was given up, of a truncated page or of another row
\* (queryWithSettings, joinRows).
RowsExact ==
  result.outcome = "rows" =>
    /\ result.fields # {}
    /\ world.wanted # {} => result.fields \subseteq world.wanted
    /\ \A i \in DOMAIN result.rows : \A r \in result.rows[i] :
         /\ r.cells = Cells(r.event, result.fields)
         /\ world.events[r.event].at \in world.from .. world.to - 1
         /\ \A j \in DOMAIN result.rows : \A o \in result.rows[j] : r.event = o.event => i = j /\ r = o
    /\ world.sampled \/ \A e \in begun :
         world.events[e].at \in world.from .. world.to - 1 =>
           \E i \in DOMAIN result.rows : \E r \in result.rows[i] : r.event = e

\* What a pass asks keeps to the settings it took: no request selects more
\* fields, spans more time or wants a larger page, or reaches back further, and
\* the chunks of a slice together select all its fields (fieldChunks,
\* queryWithSettings).
RequestsFit ==
  pass.at = "run" =>
    LET s == pass.settings
    IN  /\ \A i \in DOMAIN pass.chunks : s.fields = 0 \/ Cardinality(pass.chunks[i]) <= s.fields
        /\ UNION {pass.chunks[i] : i \in DOMAIN pass.chunks} = pass.fields
        /\ pass.chunk \in DOMAIN pass.chunks
        /\ pass.start < Until /\ Until <= world.to
        /\ s.duration = 0 \/ Until - pass.start <= s.duration
        /\ s.page = 0 \/ PageLimit(s) <= s.page
        /\ s.floor <= pass.start

\* A query asks within its settings and returns whole rows, each once (Query).
QuerySound == RowsExact /\ RequestsFit
=============================================================================
