---------------------------- MODULE GraphQLBatch ----------------------------
(***************************************************************************)
(* A batch of GraphQL selections (internal/cfapi/batch.go, QueryBatch):    *)
(* selections of several datasets of one scope are checked against their   *)
(* settings one after the other, packed into requests that keep to the     *)
(* smallest field budget among them, and answered whole or not at all.     *)
(***************************************************************************)
EXTENDS Naturals, Sequences, FiniteSets, FiniteSetsExt

CONSTANTS
  BatchWorlds,    \* selections, each with what its dataset grants in turn and holds
  BatchLimit,     \* rows of an array if the selection names no limit
  BatchRegrants   \* times a dataset's grant changes

ASSUME BatchAssumption ==
  /\ BatchLimit \in Nat
  /\ \A w \in BatchWorlds :
       /\ w \in Seq({w[i] : i \in DOMAIN w})
       /\ \A i \in DOMAIN w :
            /\ IsFiniteSet(w[i].wanted) /\ IsFiniteSet(w[i].rows) /\ w[i].limit \in Nat
            /\ \A s \in w[i].grants : s.fields \in Nat /\ s.page \in Nat

VARIABLES
  selections, \* the batch: alias, wanted fields, window, limit, grants, rows
  grant,      \* the settings the API enforces for each selection's dataset
  regrants,   \* how often they have changed
  prepared,   \* the selections checked so far, with fields, budget and limit
  packets,    \* the requests sent: the selections of each
  answers,    \* the arrays received, by alias
  doing       \* where QueryBatch is, and how it ended
batch == <<selections, grant, regrants, prepared, packets, answers, doing>>

Places == DOMAIN selections
Lesser(a, b) == IF a < b THEN a ELSE b
ArrayLimit(sel, s) ==
  LET limit == IF sel.limit = 0 THEN BatchLimit ELSE sel.limit
  IN  IF s.page = 0 THEN limit ELSE Lesser(limit, s.page)

Allowed(sel, s) ==
  /\ s.enabled
  /\ sel.wanted # {} /\ sel.wanted \subseteq s.available
  /\ s.fields = 0 \/ Cardinality(sel.wanted) <= s.fields
  /\ s.duration = 0 \/ sel.to - sel.from <= s.duration
  /\ sel.from >= s.floor

-----------------------------------------------------------------------------
(* Packing. *)

FieldsOf(places) == MapThenSumSet(LAMBDA i : prepared[i].fields, places)
FieldBudgets(places) == {prepared[i].budget : i \in places} \ {0}
Fits(places) == \A b \in FieldBudgets(places) : FieldsOf(places) <= b

\* The last selection of the request that begins with the one at start: the
\* first always goes in, each further one only while all fit.
LateBudget(start) ==  \* wrong on purpose: the newcomer's own budget does not count
  CHOOSE end \in start .. Len(prepared) :
    LET fits(k) == \A b \in FieldBudgets(start .. k - 1) : FieldsOf(start .. k) <= b
    IN  /\ \A k \in start + 1 .. end : fits(k)
        /\ end < Len(prepared) => ~fits(end + 1)
PacketEnd(start) ==
  CHOOSE end \in start .. Len(prepared) :
    /\ \A k \in start + 1 .. end : Fits(start .. k)
    /\ end < Len(prepared) => ~Fits(start .. end + 1)

Sent == UNION {packets[i] : i \in DOMAIN packets}
Packet == LET start == Cardinality(Sent) + 1 IN start .. PacketEnd(start)

-----------------------------------------------------------------------------
(* The API answers a request whose selections it grants and whose fields    *)
(* keep to every budget, each array with as many rows as its limit lets in. *)

Granted(places) ==
  /\ \A i \in places : Allowed(selections[i], grant[i])
  /\ \A i \in places : grant[i].fields = 0 \/ FieldsOf(places) <= grant[i].fields
  /\ \A i \in places : grant[i].page = 0 \/ prepared[i].limit <= grant[i].page

Arrays(i) ==
  {array \in SUBSET selections[i].rows :
     Cardinality(array) = Lesser(prepared[i].limit, Cardinality(selections[i].rows))}

-----------------------------------------------------------------------------
(* QueryBatch. *)

Stop(outcome) == doing' = outcome
Unique == \A i, j \in Places : selections[i].alias = selections[j].alias => i = j

\* The envelope is checked before anything is asked; an empty batch asks nothing.
Validate ==
  /\ doing = "begin"
  /\ doing' = IF selections = << >> THEN "done" ELSE IF Unique THEN "prepare" ELSE "invalid"
  /\ UNCHANGED <<selections, grant, regrants, prepared, packets, answers>>

\* The settings of one selection: from the cache, so any grant there ever was.
Prepare ==
  LET i == Len(prepared) + 1
      sel == selections[i]
  IN  /\ doing = "prepare" /\ i <= Len(selections)
      /\ \E s \in sel.grants :
           IF Allowed(sel, s)
           THEN /\ prepared' = Append(prepared, [fields |-> Cardinality(sel.wanted), budget |-> s.fields,
                                                 limit |-> ArrayLimit(sel, s)])
                /\ doing' = IF i = Len(selections) THEN "ask" ELSE doing
           ELSE Stop("refused") /\ prepared' = prepared
      /\ UNCHANGED <<selections, grant, regrants, packets, answers>>

OverFullArray(array, limit) == Cardinality(array) > limit  \* wrong on purpose
FullArray(array, limit) == Cardinality(array) >= limit

\* One request.  An array as long as its limit may be cut off.
AskPacket ==
  /\ doing = "ask" /\ Granted(Packet)
  /\ packets' = Append(packets, Packet)
  /\ \E arrays \in [Packet -> SUBSET UNION {selections[i].rows : i \in Packet}] :
       /\ \A i \in Packet : arrays[i] \in Arrays(i)
       /\ IF \E i \in Packet : FullArray(arrays[i], prepared[i].limit)
          THEN Stop("saturated") /\ answers' = answers
          ELSE LET received == {selections[i].alias : i \in Packet}
                   holder(a) == CHOOSE i \in Packet : selections[i].alias = a
               IN  /\ answers' = [a \in DOMAIN answers \cup received |->
                                    IF a \in received THEN arrays[holder(a)] ELSE answers[a]]
                   /\ doing' = IF PacketEnd(Cardinality(Sent) + 1) = Len(prepared) THEN "done" ELSE doing
  /\ UNCHANGED <<selections, grant, regrants, prepared>>

\* A read of settings fails; a request fails, is refused or lacks an array.
BatchFailed ==
  /\ doing \in {"prepare", "ask"}
  /\ packets' = IF doing = "ask" THEN Append(packets, Packet) ELSE packets
  /\ Stop("failed")
  /\ UNCHANGED <<selections, grant, regrants, prepared, answers>>

GrantChanged ==
  /\ regrants < BatchRegrants /\ doing \in {"begin", "prepare", "ask"}
  /\ \E i \in Places, s \in UNION {selections[j].grants : j \in Places} :
       s \in selections[i].grants \ {grant[i]} /\ grant' = [grant EXCEPT ![i] = s]
  /\ regrants' = regrants + 1
  /\ UNCHANGED <<selections, prepared, packets, answers, doing>>

BatchStarts(w) ==
  /\ selections = w
  /\ grant \in {g \in [Places -> UNION {selections[i].grants : i \in Places}] :
                  \A i \in Places : g[i] \in selections[i].grants}
  /\ regrants = 0 /\ prepared = << >> /\ packets = << >>
  /\ answers = [a \in {} |-> {}] /\ doing = "begin"
BatchInit == \E w \in BatchWorlds : BatchStarts(w)

BatchNext == Validate \/ Prepare \/ AskPacket \/ BatchFailed \/ GrantChanged

BatchSpec == BatchInit /\ [][BatchNext]_batch

-----------------------------------------------------------------------------
\* A batch that succeeds has an answer for every alias, and each is all the rows
\* of that alias's own dataset: none is cut off at a limit or holds another
\* selection's rows (QueryBatch).
BatchWhole ==
  doing = "done" =>
    /\ DOMAIN answers = {selections[i].alias : i \in Places}
    /\ \A i \in Places : answers[selections[i].alias] = selections[i].rows

\* No request selects more fields than the smallest budget among its selections,
\* a selection is asked for once, in order, and all of them are when the batch
\* is done (QueryBatch).
PacketsFit ==
  /\ \A i \in DOMAIN packets : packets[i] # {} /\ Fits(packets[i])
  /\ \A i, j \in DOMAIN packets : i < j => \A m \in packets[i], n \in packets[j] : m < n
  /\ doing = "done" => Sent = Places

\* A batch asks within the smallest budget and is answered whole (QueryBatch).
BatchSound == BatchWhole /\ PacketsFit
=============================================================================
