----------------------------- MODULE GatewayLogs -----------------------------
(***************************************************************************)
(* The aigateway.logs collector (internal/collectors/aigateway): lists the *)
(* logs of several gateways page by page, oldest first, while rows arrive, *)
(* emits them a whole source second at a time until a payload budget or a  *)
(* cap of listed rows cuts the window, and keeps the details it has        *)
(* already read for the retry that starts at the cut.                      *)
(***************************************************************************)
EXTENDS Integers, Sequences, FiniteSets, SequencesExt, FiniteSetsExt, Ranks

CONSTANTS
  GatewayWorlds, \* rows the gateways will ever log
  Gateways,
  Tenths,        \* instants in a second of the source
  GatewayLag,    \* a minute
  GatewayPage,   \* rows on a page
  ListRowCap,    \* 500
  Budgets,       \* payload budgets of a call; 0 is none
  CacheEntries,  \* 6
  CacheTTL,      \* 5 minutes
  Ahead,         \* details in flight: 3
  MaxInstant

ASSUME GatewayAssumption ==
  /\ Tenths \in Nat \ {0} /\ GatewayPage \in Nat \ {0} /\ CacheEntries \in Nat
  /\ GatewayLag \in Nat /\ Ahead \in Nat /\ CacheTTL \in Nat \ {0}
  /\ IsFiniteSet(Gateways) /\ Gateways # {}

\* The gateways log finitely many rows; an id names one of them.
ASSUME RowAssumption ==
  \A rows \in GatewayWorlds :
    /\ IsFiniteSet(rows)
    /\ \A r \in rows : r.gateway \in Gateways /\ r.at \in Nat /\ r.delay \in Nat /\ r.id \in Nat
    /\ \A r, o \in rows : r.id = o.id => r = o

\* A row: its gateway and time, the delay after which it is listed, the size of
\* what it emits, and its body, which is there, "off", or missing until some
\* instant.

VARIABLES
  logged,     \* the rows
  instant,    \* the clock
  logMark,    \* the checkpoint
  retained,   \* details kept from a call that was cut, oldest first
  retainedFrom,
  call        \* the call of CollectWindowBudget that runs, if any
gateway == <<logged, instant, logMark, retained, retainedFrom, call>>

NoCall == [stage |-> "none"]
Truncate(t) == (t \div Tenths) * Tenths
Earlier(r, o) == r.at < o.at \/ (r.at = o.at /\ r.id < o.id)

\* How many rows come before one of them.
Before(r, rows) == Cardinality({o \in rows : Earlier(o, r)})

\* The list of one gateway as it is now, both ends of the window included.
ListOf(g, from, to) ==
  {r \in logged : r.gateway = g /\ r.at + r.delay <= instant /\ from <= r.at /\ r.at <= to}
PageOf(rows, n) ==
  {r \in rows : (n - 1) * GatewayPage <= Before(r, rows) /\ Before(r, rows) < n * GatewayPage}

\* horizon: before it, every row is listed; the last listed second may go on.
\* The call knows what every gateway knows.  (FarHorizon is wrong on purpose.)
Clamped(t, c) == IF t < c.from THEN c.from ELSE IF t > c.to THEN c.to ELSE t
Horizon(p, c) == IF p.done THEN c.to ELSE Clamped(Truncate(p.last), c)
FarHorizon(c) == Max({Horizon(c.pagers[g], c) : g \in Gateways})
AllHorizon(c) == Min({Horizon(c.pagers[g], c) : g \in Gateways})

Begin(to, budget) ==
  /\ call = NoCall /\ logMark < to /\ to <= Truncate(instant - GatewayLag)
  /\ call' = [stage |-> "list", from |-> logMark, to |-> to, budget |-> budget, began |-> instant,
              pagers |-> [g \in Gateways |-> [page |-> 0, seen |-> {}, pending |-> {}, last |-> 0, done |-> FALSE]],
              pos |-> logMark, buffered |-> 0, listed |-> 0, round |-> {}, queue |-> {}, flight |-> {}, group |-> << >>,
              goal |-> logMark, out |-> << >>, any |-> FALSE, mark |-> logMark]
  /\ retained' = IF budget = 0 \/ retainedFrom # logMark THEN << >> ELSE retained
  /\ UNCHANGED <<logged, instant, logMark, retainedFrom>>

\* A call that ends with an error leaves no details behind.
Break ==
  /\ call.stage \in {"list", "emit"}
  /\ call' = NoCall /\ retained' = << >>
  /\ UNCHANGED <<logged, instant, logMark, retainedFrom>>

\* next: one page of a pager of the round.  Only an empty page, or a row past
\* the window, ends the list.
ListPage(g) ==
  LET p == call.pagers[g]
      rows == PageOf(ListOf(g, call.from, call.to), p.page + 1)
      new == {r \in rows : r.at < call.to} \ p.seen
      h == Horizon(p, call)
  IN  /\ call.stage = "list" /\ g \in call.round
      /\ \A r \in new : r.at >= h
      /\ call' = [call EXCEPT !.round = @ \ {g}, !.listed = @ + Cardinality(new),
           !.pagers[g] = [page |-> p.page + 1, seen |-> p.seen \cup new, pending |-> p.pending \cup new,
                          last |-> Max({p.last} \cup {r.at : r \in rows}),
                          done |-> rows = {} \/ \E r \in rows : r.at >= call.to]]
      /\ UNCHANGED <<logged, instant, logMark, retained, retainedFrom>>

Complete(c) == \A g \in Gateways : c.pagers[g].done

\* Whether to list further: with a budget, until a second is known in full, and
\* then as long as few rows are listed.
ListMore(c) ==
  IF c.budget = 0 THEN ~Complete(c)
  ELSE AllHorizon(c) <= c.pos \/ (AllHorizon(c) < c.to /\ c.listed < ListRowCap)

-----------------------------------------------------------------------------
(* Details are read ahead of the row that is emitted, at most Ahead of them. *)
(* Each read is answered when it likes, and answers what is true then.       *)

Missing(r) == r.body = "off" \/ (r.body = "late" /\ instant < r.bodyAt)
Stale(d) == instant - d.at >= CacheTTL
Awaited(r) == [row |-> r, got |-> FALSE, at |-> 0, missing |-> FALSE]

\* The items of a sequence at some of its positions, in their order.
Picked(s, positions) ==
  [n \in 1 .. Cardinality(positions) |-> s[CHOOSE i \in positions : Rank(i, positions) = n]]

\* take, for rows whose details are asked for: kept ones are handed over.
KeptFor(cache, r) == {d \in ToSet(cache) : d.row = r /\ ~Stale(d)}
Started(cache, rows) ==
  {IF KeptFor(cache, r) = {} THEN Awaited(r) ELSE CHOOSE d \in KeptFor(cache, r) : TRUE : r \in rows}
Without(cache, rows) == Picked(cache, {i \in DOMAIN cache : cache[i].row \notin rows})

\* put: the oldest make room, and a body that may still come is not kept.
\* (AnyDetail is wrong on purpose.)
AnyDetail(d) == d.got /\ ~Stale(d)
Cacheable(d) == d.got /\ ~Stale(d) /\ (d.missing => d.row.body = "off")
Newest(s) == IF Len(s) <= CacheEntries THEN s ELSE SubSeq(s, Len(s) - CacheEntries + 1, Len(s))
InOrder(details) ==
  LET rows == {d.row : d \in details}
  IN  [n \in 1 .. Cardinality(rows) |-> CHOOSE d \in details : Before(d.row, rows) = n - 1]
Put(cache, details) ==
  LET new == {d \in details : Cacheable(d)}
      old == {i \in DOMAIN cache : ~Stale(cache[i]) /\ \A d \in new : d.row # cache[i].row}
  IN  IF new = {} THEN cache ELSE Newest(Picked(cache, old) \o InOrder(new))
From(cache, t) == Picked(cache, {i \in DOMAIN cache : cache[i].row.at >= t})

Decide ==
  LET horizon == AllHorizon(call)
      waiting == UNION {call.pagers[g].pending : g \in Gateways}
      queue == {r \in waiting : r.at < horizon}
      ahead == {r \in queue : Before(r, queue) < Ahead}
  IN  /\ call.stage = "list" /\ call.round = {}
      /\ IF ListMore(call)
         THEN /\ call' = [call EXCEPT !.round = {g \in Gateways :
                   ~call.pagers[g].done /\ (call.budget = 0 \/ Horizon(call.pagers[g], call) <= horizon)}]
              /\ UNCHANGED retained
         ELSE /\ call' = [call EXCEPT !.stage = "emit", !.goal = horizon, !.queue = queue,
                   !.flight = Started(retained, ahead),
                   !.pagers = [g \in Gateways |-> [call.pagers[g] EXCEPT !.pending = {r \in @ : r.at >= horizon}]]]
              /\ retained' = Without(retained, ahead)
      /\ UNCHANGED <<logged, instant, logMark, retainedFrom>>

\* A detail arrives: fetchLog returns.
Landed(d) == [d EXCEPT !.got = TRUE, !.at = instant, !.missing = Missing(d.row)]
Land(d) ==
  /\ ~d.got
  /\ call' = [call EXCEPT !.flight = (@ \ {d}) \cup {Landed(d)}]
  /\ UNCHANGED <<logged, instant, logMark, retained, retainedFrom>>

-----------------------------------------------------------------------------
(* emitSeconds: the rows of one source second, whole; any but the first is   *)
(* cut off if it would overflow the budget.                                  *)

GroupEnds(c) ==
  c.group # << >> /\ \A r \in c.queue : Truncate(r.at) # Truncate(c.group[1].row.at)

\* get: the next row's detail, put aside for a retry; one more is asked for.
ReadDetail(d) ==
  /\ ~GroupEnds(call)
  /\ d.got /\ d.row \in call.queue /\ \A r \in call.queue : ~Earlier(r, d.row)
  /\ LET cache == Put(retained, {d})
         more == {r \in call.queue : Before(r, call.queue) = Ahead}
     IN  /\ call' = [call EXCEPT !.queue = @ \ {d.row}, !.group = Append(@, d),
                       !.flight = (@ \ {d}) \cup Started(cache, more)]
         /\ retained' = Without(cache, more)
  /\ UNCHANGED <<logged, instant, logMark, retainedFrom>>

SizeOf(group) == FoldLeft(LAMBDA n, d : n + d.row.size, 0, group)
Overflows(c) == c.budget > 0 /\ c.any /\ c.buffered + SizeOf(c.group) > c.budget

EmitSecond ==
  /\ call.stage = "emit" /\ GroupEnds(call) /\ ~Overflows(call)
  /\ call' = [call EXCEPT !.group = << >>, !.buffered = @ + SizeOf(call.group), !.any = TRUE, !.out = @ \o call.group]
  /\ retained' = From(retained, Truncate(call.group[1].row.at) + Tenths)
  /\ UNCHANGED <<logged, instant, logMark, retainedFrom>>

\* The cut leaves its details to the retry, with those in flight: reads are
\* cancelled, and some land all the same.
CutOff ==
  LET second == Truncate(call.group[1].row.at)
      flight == call.flight
  IN  /\ call.stage = "emit" /\ GroupEnds(call) /\ Overflows(call)
      /\ \E landed \in SUBSET {d \in flight : ~d.got} :
           retained' = From(Put(retained, (flight \ landed) \cup {Landed(d) : d \in landed}), second)
      /\ retainedFrom' = second
      /\ call' = [call EXCEPT !.stage = "returned", !.mark = second]
      /\ UNCHANGED <<logged, instant, logMark>>

\* All rows before the horizon are emitted: the call goes on, or ends there.
\* What was kept for other rows is not handed on.
Reached ==
  /\ call.stage = "emit" /\ call.queue = {} /\ call.group = << >>
  /\ retained' = << >>
  /\ call' = IF call.goal >= call.to \/ call.listed >= ListRowCap
             THEN [call EXCEPT !.stage = "returned", !.mark = call.goal]
             ELSE [call EXCEPT !.stage = "list", !.pos = call.goal]
  /\ UNCHANGED <<logged, instant, logMark, retainedFrom>>

\* The scheduler commits what was emitted, and saves the mark, or does not.
Accept(saved) ==
  /\ call.stage = "returned"
  /\ logMark' = IF saved THEN call.mark ELSE logMark
  /\ call' = NoCall
  /\ UNCHANGED <<logged, instant, retained, retainedFrom>>

Elapse ==
  /\ instant < MaxInstant
  /\ instant' = instant + 1
  /\ UNCHANGED <<logged, logMark, retained, retainedFrom, call>>

GatewayStarts(rows) ==
  /\ logged = rows /\ instant = GatewayLag /\ logMark = 0
  /\ retained = << >> /\ retainedFrom = 0 /\ call = NoCall
GatewayInit == \E rows \in GatewayWorlds : GatewayStarts(rows)

GatewayNext ==
  \/ \E to \in 1 .. MaxInstant, budget \in Budgets : to % Tenths = 0 /\ Begin(to, budget)
  \/ Break \/ Decide \/ EmitSecond \/ CutOff \/ Reached \/ Elapse
  \/ \E g \in Gateways : ListPage(g)
  \/ call.stage = "emit" /\ \E d \in call.flight : Land(d) \/ ReadDetail(d)
  \/ \E saved \in BOOLEAN : Accept(saved)

GatewaySpec == GatewayInit /\ [][GatewayNext]_gateway

-----------------------------------------------------------------------------
Out == {call.out[i].row : i \in DOMAIN call.out}
Due(r) == call.from <= r.at /\ r.at < call.mark

\* A call that returns a mark has emitted each row before it that was listed
\* when the call began, once and in order, and none after it; and it has moved
\* the mark, however pages shift, gateways lag behind each other and budget or
\* cap cut the window, and always at a whole source second
\* (CollectWindowBudget, horizon, takeBefore, emitSeconds).
LogsExact ==
  call.stage = "returned" =>
    /\ call.from < call.mark /\ call.mark <= call.to /\ call.mark % Tenths = 0
    /\ {r \in logged : Due(r) /\ r.at + r.delay <= call.began} \subseteq Out
    /\ \A r \in Out : Due(r)
    /\ \A i, j \in DOMAIN call.out : i < j => Earlier(call.out[i].row, call.out[j].row)

\* Details kept from an earlier call save reads and change nothing else: none
\* outlives its time, counted from the first read however often a cut hands it
\* on, and a body that was missing for the moment is asked for again by each
\* call (detailCache, emitSeconds).
DetailsFresh ==
  call.stage \in {"emit", "returned"} =>
    \A i \in DOMAIN call.out :
      LET d == call.out[i]
      IN  /\ d.at > call.began - CacheTTL
          /\ d.missing /\ d.row.body = "late" => d.at >= call.began

\* A window that is cut loses and repeats no log, and serves none of its details
\* stale on the retry (CollectWindowBudget, detailCache).
GatewaySound == LogsExact /\ DetailsFresh
=============================================================================
