---------------------------- MODULE SettingsCache ----------------------------
(***************************************************************************)
(* GraphQL dataset settings: settingsFor shares one read per dataset among *)
(* concurrent queries and remembers its answer, a denial of a zone dataset *)
(* for the entitlement backoff and other answers for a jittered time.      *)
(* Query renegotiates the settings once when a field turns out denied.     *)
(*                                                                         *)
(* Time is relative: left[k] is what remains until the entry expires.      *)
(***************************************************************************)
EXTENDS Integers

CONSTANTS
  Callers,  \* concurrent queries of one client
  Keys,     \* scope, scope ID and dataset
  ZoneKeys, \* the keys of zone scope
  None,     \* no read in flight
  Backoff,  \* entitlementBackoff
  TTLs      \* the lifetimes of other entries, 45 to 75 minutes

ASSUME CacheAssumption ==
  /\ ZoneKeys \subseteq Keys /\ None \notin Callers
  /\ Backoff \in Nat \ {0} /\ TTLs \subseteq Nat \ {0} /\ TTLs # {}

VARIABLES
  pc, key,      \* where each query is, and the dataset it asks for
  renegotiated, \* whether it has refreshed the settings
  answer,       \* the settings it works with
  value, left,  \* settings: the cached answer and the time it has left
  settingsPending, \* who reads
  upstream,     \* what the API would answer
  barred        \* history: the rest of the latest denial's backoff

query == <<key, renegotiated>>
entries == <<value, left, barred>>
vars == <<pc, query, answer, entries, settingsPending, upstream>>

Settings == {"enabled", "disabled"}

TypeOK ==
  /\ pc \in [Callers -> {"idle", "look", "waiting", "reading", "answered", "stored",
                         "failed", "query"}]
  /\ key \in [Callers -> Keys] /\ renegotiated \in [Callers -> BOOLEAN]
  /\ answer \in [Callers -> Settings]
  /\ value \in [Keys -> Settings] /\ left \in [Keys -> Nat] /\ barred \in [Keys -> Nat]
  /\ settingsPending \in [Keys -> Callers \cup {None}]
  /\ upstream \in [Keys -> Settings]

\* An entry that has expired and one that was never made are alike.
Init ==
  /\ pc = [c \in Callers |-> "idle"] /\ key \in [Callers -> Keys]
  /\ renegotiated = [c \in Callers |-> FALSE]
  /\ answer = [c \in Callers |-> "disabled"]
  /\ value = [k \in Keys |-> "enabled"]
  /\ left = [k \in Keys |-> 0] /\ barred = [k \in Keys |-> 0]
  /\ settingsPending = [k \in Keys |-> None]
  /\ upstream \in [Keys -> Settings]

Goto(c, label) == pc' = [pc EXCEPT ![c] = label]

\* The query forgets its settings when it ends.
Forget(c) ==
  /\ renegotiated' = [renegotiated EXCEPT ![c] = FALSE]
  /\ answer' = [answer EXCEPT ![c] = "disabled"]
  /\ UNCHANGED key

-----------------------------------------------------------------------------
(* settingsFor                                                             *)

\* Query starts without a refresh.
Call(c, k) ==
  /\ pc[c] = "idle"
  /\ Goto(c, "look")
  /\ key' = [key EXCEPT ![c] = k]
  /\ UNCHANGED <<renegotiated, answer, entries, settingsPending, upstream>>

\* A denial is remembered for zone datasets.
Denied(k) == k \in ZoneKeys /\ value[k] = "disabled"

\* Mutant: a refresh looks past a denial.
UsableAnyway(c) == left[key[c]] > 0 /\ ~renegotiated[c]

\* Mutant: a denial never expires.
UsableForever(c) ==
  Denied(key[c]) \/ (left[key[c]] > 0 /\ ~renegotiated[c])

\* A refresh bypasses an answer, but never an active zone denial.
Usable(c) ==
  LET k == key[c] IN left[k] > 0 /\ (~renegotiated[c] \/ Denied(k))

Hit(c) ==
  /\ pc[c] = "look" /\ Usable(c)
  /\ answer' = [answer EXCEPT ![c] = value[key[c]]]
  /\ Goto(c, "query")
  /\ UNCHANGED <<query, entries, settingsPending, upstream>>

\* Mutant: every query reads for itself.
NobodyReads(k) == TRUE

\* No read of the key is in flight.
Quiet(k) == settingsPending[k] = None

\* Another query is reading: wait for it to end.
Join(c) ==
  /\ pc[c] = "look" /\ ~Usable(c) /\ ~Quiet(key[c])
  /\ Goto(c, "waiting")
  /\ UNCHANGED <<query, answer, entries, settingsPending, upstream>>

Lead(c) ==
  /\ pc[c] = "look" /\ ~Usable(c) /\ Quiet(key[c])
  /\ settingsPending' = [settingsPending EXCEPT ![key[c]] = c]
  /\ Goto(c, "reading")
  /\ UNCHANGED <<query, answer, entries, upstream>>

\* The context ends while the query looks or waits.
ContextEnds(c) ==
  /\ pc[c] \in {"look", "waiting"}
  /\ Goto(c, "idle") /\ Forget(c)
  /\ UNCHANGED <<entries, settingsPending, upstream>>

\* The API answers; an absent zone dataset counts as disabled.
Answered(c) ==
  /\ pc[c] = "reading"
  /\ answer' = [answer EXCEPT ![c] = upstream[key[c]]]
  /\ Goto(c, "answered")
  /\ UNCHANGED <<query, entries, settingsPending, upstream>>

\* No answer, an error, a malformed one, or an absent account dataset.
ReadFailed(c) ==
  /\ pc[c] = "reading"
  /\ Goto(c, "failed")
  /\ UNCHANGED <<query, answer, entries, settingsPending, upstream>>

\* Mutant: a denial is kept as long as any other entry.
SameLifetimes(c) == TTLs

Lifetimes(c) ==
  IF key[c] \in ZoneKeys /\ answer[c] = "disabled" THEN {Backoff} ELSE TTLs

Store(c, ttl) ==
  /\ pc[c] = "answered" /\ ttl \in Lifetimes(c)
  /\ value' = [value EXCEPT ![key[c]] = answer[c]]
  /\ left' = [left EXCEPT ![key[c]] = ttl]
  /\ barred' = [barred EXCEPT ![key[c]] =
                  IF key[c] \in ZoneKeys /\ answer[c] = "disabled" THEN Backoff ELSE 0]
  /\ Goto(c, "stored")
  /\ UNCHANGED <<query, answer, settingsPending, upstream>>

\* Mutant: only a stored answer ends the read.
ReleasedOnSuccess(c) ==
  IF pc[c] = "stored" THEN [settingsPending EXCEPT ![key[c]] = None] ELSE settingsPending

\* The deferred function takes the read off the table.
Released(c) == [settingsPending EXCEPT ![key[c]] = None]

\* Closing the channel wakes every query that waits for it; they look again.
Close(c) ==
  /\ pc[c] \in {"stored", "failed"}
  /\ settingsPending' = Released(c)
  /\ pc' = [d \in Callers |->
              CASE d = c -> IF pc[c] = "stored" THEN "query" ELSE "idle"
                [] d # c /\ pc[d] = "waiting" /\ key[d] = key[c]
                     /\ Released(c)[key[c]] = None -> "look"
                [] OTHER -> pc[d]]
  /\ IF pc[c] = "stored" THEN UNCHANGED <<query, answer>> ELSE Forget(c)
  /\ UNCHANGED <<entries, upstream>>

-----------------------------------------------------------------------------
(* Query                                                                   *)

\* A disabled dataset, a result, or an error that is not about a field.
Finished(c) ==
  /\ pc[c] = "query"
  /\ Goto(c, "idle") /\ Forget(c)
  /\ UNCHANGED <<entries, settingsPending, upstream>>

\* Mutant: every denied field starts another negotiation.
MayRenegotiateAgain(c) == TRUE

MayRenegotiate(c) == ~renegotiated[c]

\* The API denies a field the settings listed: refresh them, once.
FieldDenied(c) ==
  /\ pc[c] = "query" /\ answer[c] = "enabled" /\ MayRenegotiate(c)
  /\ renegotiated' = [renegotiated EXCEPT ![c] = TRUE]
  /\ Goto(c, "look")
  /\ UNCHANGED <<key, answer, entries, settingsPending, upstream>>

FieldDeniedAgain(c) ==
  /\ answer[c] = "enabled" /\ ~MayRenegotiate(c)
  /\ Finished(c)

-----------------------------------------------------------------------------

\* The entitlement changes.
Change(k) ==
  /\ \E v \in Settings : upstream' = [upstream EXCEPT ![k] = v]
  /\ UNCHANGED <<pc, query, answer, entries, settingsPending>>

Sooner(n) == IF n > 0 THEN n - 1 ELSE 0

TimePasses ==
  /\ left' = [k \in Keys |-> Sooner(left[k])]
  /\ barred' = [k \in Keys |-> Sooner(barred[k])]
  /\ UNCHANGED <<pc, query, answer, value, settingsPending, upstream>>

\* What a query does until it ends.
Step(c) ==
  \/ Hit(c) \/ Join(c) \/ Lead(c) \/ Answered(c) \/ ReadFailed(c) \/ Close(c)
  \/ \E ttl \in TTLs \cup {Backoff} : Store(c, ttl)
  \/ Finished(c) \/ FieldDenied(c) \/ FieldDeniedAgain(c)

Next ==
  \/ \E c \in Callers : (\E k \in Keys : Call(c, k)) \/ Step(c) \/ ContextEnds(c)
  \/ \E k \in Keys : Change(k)
  \/ TimePasses

Spec == Init /\ [][Next]_vars

\* Goroutines run, a request ends at its timeout, and time passes.
Fairness == WF_vars(TimePasses) /\ \A c \in Callers : WF_vars(Step(c))

\* Collectors poll every zone dataset again and again, their contexts end only at a deadline or
\* at the stop of the process, and the API answers in the end.
Polling ==
  \A c \in Callers, k \in ZoneKeys :
    /\ SF_vars(Call(c, k))
    /\ SF_vars(key[c] = k /\ (Hit(c) \/ Lead(c)))
    /\ SF_vars(key[c] = k /\ Answered(c))

LiveSpec == Spec /\ Fairness /\ Polling

-----------------------------------------------------------------------------
(* Properties                                                              *)

\* settingsFor: concurrent queries of one dataset never read its settings side by side.
SingleRead == \A c, d \in Callers :
  /\ c # d /\ key[c] = key[d]
  /\ pc[c] \in {"reading", "answered"}
  => pc[d] \notin {"reading", "answered"}

\* settingsFor: no settings read of a zone dataset starts during the backoff of a denial,
\* not even the refresh of a query that started before the denial was known.
BackoffHonoured ==
  [][\A c \in Callers : pc[c] # "reading" /\ pc'[c] = "reading" => barred[key[c]] = 0]_vars

\* settingsFor: a query that waits for another's read looks again, whether the read
\* succeeded or failed; and queryWithSettings renegotiates once, so although fields stay
\* denied a query ends, unless it waits for the reads of others.
Returns == \A c \in Callers :
  /\ (pc[c] = "waiting") ~> (pc[c] # "waiting")
  /\ (pc[c] # "idle") ~> (pc[c] \in {"idle", "waiting"})

\* A zone dataset that becomes entitled is queried again: the denial is forgotten in time.
GrantNoticed == \A k \in ZoneKeys :
  <>[](upstream[k] = "enabled") =>
    []<>(\E c \in Callers : key[c] = k /\ pc[c] = "query" /\ answer[c] = "enabled")
=============================================================================
