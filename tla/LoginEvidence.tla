--------------------------- MODULE LoginEvidence ---------------------------
(***************************************************************************)
(* The index of Access logins (internal/identity/index.go) and the two     *)
(* collectors that share it: access.logins fills it as it exports logins,  *)
(* and httpreq.events reads the Access log again for each of its windows   *)
(* (HydrateIdentity) before it looks up who sent a request.  Both read the *)
(* log page by page while rows still arrive in it, and both run their      *)
(* windows again after a failure.                                          *)
(***************************************************************************)
EXTENDS Integers, FiniteSets

CONSTANTS
  LoginWorlds,   \* rows the Access log will ever hold
  Requests,      \* HTTP requests, by time and key
  Digests,       \* orders of equal-time rows, one of them drawn by each process
  MatchWindow,   \* identity.match_window
  Retention,     \* how long the index, and the log, keep a login (23 hours)
  MaxCandidates, \* identity.max_candidates
  MaxSeen,       \* fingerprints kept: four times as many
  PageSize, LoginLag, RequestLag, FirstMark, MaxClock

\* A row: who logged in when and from where (the key: address and host), and
\* after what delay the log lists it.  A row without a user is not evidence.
Nobody == 0

ASSUME EvidenceAssumption ==
  /\ MatchWindow \in Nat \ {0} /\ Retention \in Nat /\ Retention >= MatchWindow
  /\ MaxCandidates \in Nat \ {0} /\ MaxSeen \in Nat /\ MaxSeen >= MaxCandidates
  /\ PageSize \in Nat \ {0} /\ {LoginLag, RequestLag, FirstMark, MaxClock} \subseteq Nat
  /\ \A q \in Requests : q.at \in Nat
  /\ \A rows \in LoginWorlds :
       /\ IsFiniteSet(rows) /\ \A r, o \in rows : r.id = o.id => r = o
       /\ \A r \in rows : r.at \in Nat /\ r.delay \in Nat /\ r.id \in Nat
       /\ \A order \in Digests, r, o \in rows :
            order[r.id] \in Nat /\ (order[r.id] = order[o.id] => r = o)

VARIABLES
  logins,    \* the Access log
  clock,
  digest,    \* this process's order of equal-time rows
  index,     \* MemoryIndex: latest, the rows seen, the candidates kept
  mark,      \* the collectors' checkpoints
  reading,   \* what each collector has read of the log for its window
  asked,     \* requests of the HTTP window still to be looked up
  due,       \* history: rows the log listed when the HTTP window began
  observed,  \* history: rows observed since the process started
  told       \* history: the latest answer, and what it should have been
evidence == <<logins, clock, digest, index, mark, reading, asked, due, observed, told>>

LogReaders == {"logins", "requests"}
Idle == [active |-> FALSE]
EmptyIndex == [latest |-> 0, seen |-> {}, kept |-> {}]

-----------------------------------------------------------------------------
(* The index.  Candidates are numbered, for only the fingerprints keep a    *)
(* row from being a candidate twice.                                       *)

Less(r, o) == r.at < o.at \/ (r.at = o.at /\ digest[r.id] < digest[o.id])
Recent(r, latest) == r.at + Retention >= latest

RowsKept(kept) == {c.row : c \in kept}
LowestOf(rows) == CHOOSE r \in rows : \A o \in rows \ {r} : Less(r, o)

Push(kept, r) == kept \cup {[row |-> r, copy |-> Cardinality({c \in kept : c.row = r})]}
DropLowest(kept) ==
  kept \ {CHOOSE c \in kept : \A d \in kept : ~Less(d.row, c.row) /\ (d.row = c.row => d.copy <= c.copy)}

\* advance: time moves to at, and what retention has passed is forgotten.
Advance(idx, at) ==
  LET latest == IF at > idx.latest THEN at ELSE idx.latest
  IN  [latest |-> latest, seen |-> {r \in idx.seen : Recent(r, latest)},
       kept |-> {c \in idx.kept : Recent(c.row, latest)}]

\* A full set takes only a row that outranks its lowest.
Below(rows, r) == ~Less(LowestOf(rows), r)
Rejected(seen, r) == Cardinality(seen) = MaxSeen /\ Below(seen, r)

Remember(seen, r) ==
  IF Cardinality(seen) < MaxSeen THEN seen \cup {r} ELSE (seen \cup {r}) \ {LowestOf(seen)}

\* (KeepFirst is wrong on purpose.)
KeepFirst(kept, r) == IF Cardinality(kept) = MaxCandidates THEN kept ELSE Push(kept, r)
Keep(kept, r) ==
  IF Cardinality(kept) < MaxCandidates THEN Push(kept, r)
  ELSE IF Below(RowsKept(kept), r) THEN kept
  ELSE DropLowest(Push(kept, r))

Observe(idx, r) ==
  LET i == Advance(idx, r.at)
  IN  IF r.user = Nobody THEN idx
      ELSE IF ~Recent(r, i.latest) \/ r \in i.seen \/ Rejected(i.seen, r) THEN i
      ELSE [i EXCEPT !.seen = Remember(@, r), !.kept = Keep(@, r)]

\* Who logged in from the request's key within the match window before it: no
\* one, one user (by the latest of the logins), or more than one.
Match(rows, req) ==
  LET near == {r \in rows : r.key = req.key /\ r.at <= req.at /\ req.at - r.at <= MatchWindow}
      ambiguous == Cardinality({r.user : r \in near}) > 1
  IN  [ambiguous |-> ambiguous,
       login |-> IF ambiguous THEN {} ELSE {r \in near : \A o \in near \ {r} : Less(o, r)}]

Lookup(idx, req) == Match(RowsKept(idx.kept), req)

-----------------------------------------------------------------------------
(* The Access log, read page by page while rows still arrive in it.         *)

Listed == {r \in logins : r.at + r.delay <= clock}

\* The API may include both ends of the window; it lists the newest row first.
Leads(r, o) == r.at > o.at \/ (r.at = o.at /\ r.id > o.id)
Listing(from, to) == {r \in Listed : from <= r.at /\ r.at <= to}
Place(r, rows) == Cardinality({o \in rows : Leads(o, r)})
Page(rows, n) == {r \in rows : (n - 1) * PageSize <= Place(r, rows) /\ Place(r, rows) < n * PageSize}

LagOf(p) == IF p = "logins" THEN LoginLag ELSE RequestLag

\* HydrateIdentity also reads what the first requests of the window may match.
Since(p) == IF p = "requests" THEN mark[p] - MatchWindow ELSE mark[p]

\* Hydration beyond what the log surely still has is refused, and the window with it.
Refused(p) == p = "requests" /\ Since(p) + Retention < clock

Open(p) ==
  /\ ~reading[p].active /\ mark[p] < clock - LagOf(p) /\ ~Refused(p)
  /\ reading' = [reading EXCEPT ![p] =
       [active |-> TRUE, from |-> Since(p), to |-> clock - LagOf(p), page |-> 1,
        rows |-> {}, queue |-> {}]]
  /\ due' = IF p = "requests" THEN {r \in Listed : mark[p] - MatchWindow <= r.at /\ r.at < clock - LagOf(p)}
            ELSE due
  /\ UNCHANGED <<logins, clock, digest, index, mark, asked, observed, told>>

\* The poll ends, whatever it has observed so far.
Abandon(p) == reading' = [reading EXCEPT ![p] = Idle]

\* A page of PageSize rows is followed by another, unless it holds nothing new;
\* a shorter one is the last, and the rows of the half-open window are taken.
ReadPage(p) ==
  LET w == reading[p]
      rows == Page(Listing(w.from, w.to), w.page)
      all == w.rows \cup rows
      taken == {r \in all : w.from <= r.at /\ r.at < w.to}
  IN  /\ w.active /\ w.page > 0
      /\ \/ /\ Cardinality(rows) = PageSize /\ rows \subseteq w.rows
            /\ Abandon(p)
            /\ UNCHANGED asked
         \/ /\ Cardinality(rows) = PageSize /\ ~(rows \subseteq w.rows)
            /\ reading' = [reading EXCEPT ![p].page = @ + 1, ![p].rows = all]
            /\ UNCHANGED asked
         \/ /\ Cardinality(rows) < PageSize
            /\ reading' = [reading EXCEPT ![p].page = 0, ![p].rows = {}, ![p].queue = taken]
            /\ asked' = IF p # "requests" THEN asked
                        ELSE {q \in Requests : mark[p] <= q.at /\ q.at < w.to}
  /\ UNCHANGED <<logins, clock, digest, index, mark, due, observed, told>>

\* emit: the login of a row, in the order the API gave them, is exported and
\* then observed.
ObserveRow(p) ==
  /\ reading[p].active
  /\ \E r \in reading[p].queue :
       /\ reading' = [reading EXCEPT ![p].queue = @ \ {r}]
       /\ index' = Observe(index, r)
       /\ observed' = observed \cup {r}
  /\ UNCHANGED <<logins, clock, digest, mark, asked, due, told>>

\* The page, the export of a row or the rest of the window fails, or its
\* commit does.
Fail(p) ==
  /\ reading[p].active
  /\ Abandon(p)
  /\ asked' = IF p = "requests" THEN {} ELSE asked
  /\ UNCHANGED <<logins, clock, digest, index, mark, due, observed, told>>

Hydrated == reading["requests"].active /\ reading["requests"].page = 0 /\ reading["requests"].queue = {}

TopOf(rows) == {r \in rows : Cardinality({o \in rows : Less(r, o)}) < MaxCandidates}
Evidence(rows, latest) == TopOf({r \in rows : r.user # Nobody /\ Recent(r, latest)})

\* The request is looked up, and time moves to it.
Ask(q) ==
  LET idx == Advance(index, q.at)
  IN  /\ Hydrated /\ q \in asked
      /\ asked' = asked \ {q}
      /\ index' = idx
      /\ told' = [answer |-> Lookup(idx, q), right |-> Match(Evidence(observed \cup due, idx.latest), q)]
      /\ UNCHANGED <<logins, clock, digest, mark, reading, due, observed>>

Commit(p) ==
  /\ reading[p].active /\ reading[p].page = 0 /\ reading[p].queue = {}
  /\ p = "requests" => asked = {}
  /\ mark' = [mark EXCEPT ![p] = reading[p].to]
  /\ Abandon(p)
  /\ UNCHANGED <<logins, clock, digest, index, asked, due, observed, told>>

\* Every minute the index forgets by the clock.
Prune ==
  /\ index' = Advance(index, clock)
  /\ UNCHANGED <<logins, clock, digest, mark, reading, asked, due, observed, told>>

Tick ==
  /\ clock < MaxClock
  /\ clock' = clock + 1
  /\ UNCHANGED <<logins, digest, index, mark, reading, asked, due, observed, told>>

Nothing == [ambiguous |-> FALSE, login |-> {}]

EvidenceStarts(rows, order) ==
  /\ logins = rows /\ clock = FirstMark /\ digest = order
  /\ index = EmptyIndex
  /\ mark = [p \in LogReaders |-> FirstMark] /\ reading = [p \in LogReaders |-> Idle]
  /\ asked = {} /\ due = {} /\ observed = {} /\ told = [answer |-> Nothing, right |-> Nothing]
EvidenceInit == \E rows \in LoginWorlds, order \in Digests : EvidenceStarts(rows, order)

\* Only the checkpoints survive; the new process draws a new key for its digests.
Restart ==
  /\ digest' \in Digests
  /\ index' = EmptyIndex
  /\ reading' = [p \in LogReaders |-> Idle]
  /\ asked' = {} /\ due' = {} /\ observed' = {} /\ told' = [answer |-> Nothing, right |-> Nothing]
  /\ UNCHANGED <<logins, clock, mark>>

EvidenceNext ==
  \/ \E p \in LogReaders : Open(p) \/ ReadPage(p) \/ ObserveRow(p) \/ Fail(p) \/ Commit(p)
  \/ \E q \in Requests : Ask(q)
  \/ Prune \/ Tick \/ Restart

EvidenceSpec == EvidenceInit /\ [][EvidenceNext]_evidence

-----------------------------------------------------------------------------
\* A request is attributed to the login that everything the log listed when its
\* window began implies, and to no one when that evidence is missing or names
\* two users: whatever the order and the repetitions of what the two readers
\* observed, what the bounded index dropped for it, and whichever window failed
\* or process ended in between (Observe, Lookup, HydrateIdentity).
RightUser == told.answer = told.right
=============================================================================
