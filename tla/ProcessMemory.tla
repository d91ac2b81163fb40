---------------------------- MODULE ProcessMemory ----------------------------
(***************************************************************************)
(* The parts of the process that keep their state in memory only and share *)
(* nothing with the scheduler: the index of logins, the pending snapshot   *)
(* of tunnels, the gauge snapshots, the series of the snapshot collectors, *)
(* the details of AI Gateway logs, one query, one batch and one listing of *)
(* the API client, a name cache, the identity outcomes and the deny        *)
(* policy.  They share nothing with each other either, so a behaviour is   *)
(* about one of them, the subject, and the others stay as they start.      *)
(***************************************************************************)
EXTENDS LoginEvidence, TunnelStatus, GaugeSnapshots, SnapshotPolls, GatewayLogs,
        GraphQLQuery, GraphQLBatch, Listings, NameCache, IdentityOutcomes, DenyPolicy

VARIABLE subject
memory == <<subject, evidence, tunnel, gauges, polling, gateway,
            query, batch, lists, names, outcomes, filter>>

Subjects == {"logins", "tunnels", "gauges", "polls", "gateway",
             "queries", "batches", "listings", "names", "outcomes", "policy"}

Init ==
  /\ subject \in Subjects
  /\ IF subject = "logins" THEN EvidenceInit ELSE EvidenceStarts({}, << >>)
  /\ TunnelInit /\ GaugesInit
  /\ IF subject = "polls" THEN PollsInit ELSE PollsStart(CHOOSE kind \in PollKinds : TRUE)
  /\ IF subject = "gateway" THEN GatewayInit ELSE GatewayStarts({})
  /\ IF subject = "queries" THEN QueryInit ELSE QueryStarts([events |-> << >>], [enabled |-> FALSE])
  /\ IF subject = "batches" THEN BatchInit ELSE BatchStarts(<< >>)
  /\ IF subject = "listings" THEN ListsInit ELSE ListsStart({}, [size |-> PerPage, repeats |-> FALSE], "pages")
  /\ IF subject = "names" THEN NamesInit ELSE NamesStart([id \in {} |-> NoName])
  /\ OutcomesInit
  /\ IF subject = "policy" THEN FilterInit ELSE FilterStarts([metrics |-> {}, attributes |-> {}])

Next ==
  \/ subject = "logins" /\ EvidenceNext
     /\ UNCHANGED <<subject, tunnel, gauges, polling, gateway, query, batch, lists, names, outcomes, filter>>
  \/ subject = "tunnels" /\ TunnelNext
     /\ UNCHANGED <<subject, evidence, gauges, polling, gateway, query, batch, lists, names, outcomes, filter>>
  \/ subject = "gauges" /\ GaugesNext
     /\ UNCHANGED <<subject, evidence, tunnel, polling, gateway, query, batch, lists, names, outcomes, filter>>
  \/ subject = "polls" /\ PollsNext
     /\ UNCHANGED <<subject, evidence, tunnel, gauges, gateway, query, batch, lists, names, outcomes, filter>>
  \/ subject = "gateway" /\ GatewayNext
     /\ UNCHANGED <<subject, evidence, tunnel, gauges, polling, query, batch, lists, names, outcomes, filter>>
  \/ subject = "queries" /\ QueryNext
     /\ UNCHANGED <<subject, evidence, tunnel, gauges, polling, gateway, batch, lists, names, outcomes, filter>>
  \/ subject = "batches" /\ BatchNext
     /\ UNCHANGED <<subject, evidence, tunnel, gauges, polling, gateway, query, lists, names, outcomes, filter>>
  \/ subject = "listings" /\ ListsNext
     /\ UNCHANGED <<subject, evidence, tunnel, gauges, polling, gateway, query, batch, names, outcomes, filter>>
  \/ subject = "names" /\ NamesNext
     /\ UNCHANGED <<subject, evidence, tunnel, gauges, polling, gateway, query, batch, lists, outcomes, filter>>
  \/ subject = "outcomes" /\ OutcomesNext
     /\ UNCHANGED <<subject, evidence, tunnel, gauges, polling, gateway, query, batch, lists, names, filter>>
  \/ subject = "policy" /\ FilterNext
     /\ UNCHANGED <<subject, evidence, tunnel, gauges, polling, gateway, query, batch, lists, names, outcomes>>

Spec == Init /\ [][Next]_memory
=============================================================================
