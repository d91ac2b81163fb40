---------------------------- MODULE TunnelStatus ----------------------------
(***************************************************************************)
(* The tunnels.status collector (internal/collectors/tunnels/status.go):   *)
(* gauges of each tunnel's status and of its connections and connectors,   *)
(* set in an SDK that keeps every series it was ever given, and an event   *)
(* for each change of a status.  What a poll found is kept as pending      *)
(* until all of it has been replayed; an exporter may look at the SDK      *)
(* after each step, and any replayed call may fail.                        *)
(***************************************************************************)
EXTENDS Naturals, Sequences, FiniteSets, SequencesExt, Functions

CONSTANTS
  Listings,  \* complete answers of the tunnel list: sequences of rows
  Polls      \* polls that are run

\* A row: id, name, status, whether it is deleted, and how many connections or
\* connectors each colo or version has (counts).  An id or a status may be Blank.
Blank == 0

ASSUME TunnelAssumption ==
  \A rows \in Listings :
    rows \in Seq(Range(rows)) /\ \A r \in Range(rows) : IsFiniteSet(DOMAIN r.counts)

VARIABLES
  polls,     \* the polls so far, which also date what they observe
  stage,     \* of the poll that runs, if any: it drains what is pending, or replays
  read,      \* the rows the poll has read
  previous,  \* status of each tunnel in the last snapshot replayed in full
  metrics,   \* its series and their values
  pending,   \* the snapshot still to be replayed, its points and its records
  next,      \* what of the pending buffer is replayed next
  sdk,       \* value of each series the SDK has been given
  exported,  \* the status changes exported
  accepted,  \* history: the last listing accepted
  changes    \* history: the changes between snapshots accepted one after the other
tunnel == <<polls, stage, read, previous, metrics, pending, next, sdk, exported, accepted, changes>>

NoPending == [held |-> FALSE]

Present(rows) == {i \in DOMAIN rows : ~rows[i].deleted}
Tunnels(rows) == {rows[i] : i \in Present(rows)}

\* The listing as a whole: every tunnel named, with a status, once.
Valid(rows) ==
  /\ \A i \in Present(rows) : rows[i].id # Blank /\ rows[i].status # Blank
  /\ \A i, j \in Present(rows) : rows[i].id = rows[j].id => i = j

StatusesOf(rows) ==
  [id \in {r.id : r \in Tunnels(rows)} |-> (CHOOSE r \in Tunnels(rows) : r.id = id).status]

Series(r, kind, label) == [id |-> r.id, name |-> r.name, kind |-> kind, label |-> label]

\* The series of a snapshot.  A colo whose connections all reconnect stays, at zero.
SeriesOf(rows) ==
  LET status == {<<Series(r, "status", r.status), 1>> : r \in Tunnels(rows)}
      count == UNION {{<<Series(r, "count", c), r.counts[c]>> : c \in DOMAIN r.counts} : r \in Tunnels(rows)}
      all == status \cup count
  IN  [s \in {p[1] : p \in all} |-> (CHOOSE p \in all : p[1] = s)[2]]

ChangesFrom(old, rows, at) ==
  LET new == StatusesOf(rows)
  IN  {[id |-> id, from |-> old[id], to |-> new[id], at |-> at] :
         id \in {id \in DOMAIN old \cap DOMAIN new : old[id] # new[id]}}

Points(f) == SetToSeq({<<s, f[s]>> : s \in DOMAIN f})

\* Series of the last snapshot that this one lacks are set to zero, and first:
\* the SDK would keep exporting them.  (RetiredLast is wrong on purpose.)
Retired(old, new) == [s \in DOMAIN old \ DOMAIN new |-> 0]
RetiredLast(old, new) == Points(new) \o Points(Retired(old, new))
Buffered(old, new) == Points(Retired(old, new)) \o Points(new)

-----------------------------------------------------------------------------
\* finishPending replays from the start: metrics, then records.
Calls(p) == p.points \o SetToSeq(p.records)

Build(rows) ==
  LET new == SeriesOf(rows)
  IN  /\ pending' = [held |-> TRUE, statuses |-> StatusesOf(rows), metrics |-> new,
                     points |-> Buffered(metrics, new),
                     records |-> ChangesFrom(previous, rows, polls)]
      /\ changes' = changes \cup ChangesFrom(StatusesOf(accepted), rows, polls)
      /\ accepted' = rows
      /\ stage' = "replay" /\ next' = 1

\* Nothing is emitted, and no state is changed, for a listing that fails or is
\* not valid; what is pending waits for a valid one too.
Read(rows) ==
  /\ stage = "idle" /\ polls < Polls
  /\ polls' = polls + 1
  /\ IF Valid(rows) THEN /\ read' = rows /\ next' = 1
                         /\ stage' = IF pending.held THEN "drain" ELSE "build"
     ELSE UNCHANGED <<stage, read, next>>
  /\ UNCHANGED <<previous, metrics, pending, sdk, exported, accepted, changes>>

BuildNext ==
  /\ stage = "build"
  /\ Build(read)
  /\ read' = << >>
  /\ UNCHANGED <<polls, previous, metrics, sdk, exported>>

Replaying == stage \in {"drain", "replay"}

ReplayPoint ==
  LET p == pending.points[next]
  IN  /\ Replaying /\ next <= Len(pending.points)
      /\ sdk' = [s \in DOMAIN sdk \cup {p[1]} |-> IF s = p[1] THEN p[2] ELSE sdk[s]]
      /\ next' = next + 1
      /\ UNCHANGED <<polls, stage, read, previous, metrics, pending, exported, accepted, changes>>

ReplayRecord ==
  /\ Replaying /\ next > Len(pending.points) /\ next <= Len(Calls(pending))
  /\ exported' = exported \cup {Calls(pending)[next]}
  /\ next' = next + 1
  /\ UNCHANGED <<polls, stage, read, previous, metrics, pending, sdk, accepted, changes>>

\* A call fails: what is pending stays, all of it.  (Discarded is wrong on purpose.)
Discarded == NoPending
Kept == pending
ReplayFails ==
  /\ Replaying /\ next <= Len(Calls(pending))
  /\ stage' = "idle" /\ read' = << >> /\ next' = 0
  /\ pending' = Kept
  /\ UNCHANGED <<polls, previous, metrics, sdk, exported, accepted, changes>>

\* The snapshot is the one the next is compared with; after an old one, the
\* rows just read are taken in their turn.
ReplayEnds ==
  /\ Replaying /\ next > Len(Calls(pending))
  /\ previous' = pending.statuses /\ metrics' = pending.metrics
  /\ pending' = NoPending
  /\ stage' = IF stage = "drain" THEN "build" ELSE "idle"
  /\ next' = 0
  /\ UNCHANGED <<polls, read, sdk, exported, accepted, changes>>

Empty == [x \in {} |-> 0]

\* Everything is in the process's memory: the first observation of a tunnel
\* after a restart is no change.
RestartTunnels ==
  /\ stage' = "idle" /\ read' = << >> /\ next' = 0
  /\ previous' = Empty /\ metrics' = Empty /\ pending' = NoPending /\ sdk' = Empty
  /\ exported' = {} /\ accepted' = << >> /\ changes' = {}
  /\ UNCHANGED polls

TunnelInit ==
  /\ polls = 0 /\ stage = "idle" /\ read = << >> /\ next = 0
  /\ previous = Empty /\ metrics = Empty /\ pending = NoPending /\ sdk = Empty
  /\ exported = {} /\ accepted = << >> /\ changes = {}

TunnelNext ==
  \/ \E rows \in Listings : Read(rows)
  \/ BuildNext \/ ReplayPoint \/ ReplayRecord \/ ReplayFails \/ ReplayEnds
  \/ RestartTunnels

TunnelSpec == TunnelInit /\ [][TunnelNext]_tunnel

-----------------------------------------------------------------------------
NonZero(f) == {<<s, f[s]>> : s \in {s \in DOMAIN f : f[s] # 0}}

\* Whenever an exporter looks, and wherever a replay has stopped, no tunnel has
\* two statuses; and once nothing is pending the SDK shows the last snapshot
\* accepted and nothing of earlier ones (Collect, finishPending).
StatusFollows ==
  /\ \A s, o \in DOMAIN sdk :
       s.kind = "status" /\ o.kind = "status" /\ s.id = o.id /\ sdk[s] = 1 /\ sdk[o] = 1 => s = o
  /\ stage = "idle" /\ ~pending.held =>
       NonZero(sdk) = NonZero(SeriesOf(accepted))

\* However often replays fail and are repeated, the exported changes are the
\* changes from one accepted snapshot to the next, each dated by the poll that
\* saw it: none missing once nothing is pending, none invented, none dated
\* twice (finishPending).
ChangesTold ==
  /\ exported \subseteq changes
  /\ stage = "idle" /\ ~pending.held => exported = changes

\* Statuses and their changes survive failed replays together (finishPending).
TunnelsTold == StatusFollows /\ ChangesTold
=============================================================================
