----------------------------- MODULE NameCache ------------------------------
(***************************************************************************)
(* The names of resources (internal/collectors/d1/names.go; kv, queues and *)
(* durableobjects hold the same code): a cache that lists the account's    *)
(* resources page by page while they are renamed, created and deleted, and *)
(* keeps what it found, also nothing, for an hour.  The collectors of a    *)
(* domain share it under its mutex.                                        *)
(***************************************************************************)
EXTENDS Ranks, Integers

CONSTANTS
  Ids,        \* resources, numbers the API lists in order
  NameSet,    \* names
  Catalogs,   \* the resources at first, with their names
  NoName,     \* a name the collectors do not accept
  RowsAsked,  \* the page size asked for first: fifty in the code
  RowsGiven,  \* page sizes the API may keep to
  Hour,       \* how long a mapping is kept
  TotalCap,   \* the largest list that is read: five thousand in the code
  PagesCap,   \* the pages that are read at most: a hundred in the code
  MaxTime,    \* time that is modelled
  Changes     \* changes of the resources

ASSUME NamesAssumption ==
  /\ Ids \subseteq Nat /\ NoName \notin NameSet /\ RowsAsked \in Nat
  /\ \A c \in Catalogs : /\ DOMAIN c \subseteq Ids /\ IsFiniteSet(DOMAIN c)
                         /\ c \in [DOMAIN c -> NameSet \cup {NoName}]
  /\ RowsGiven \subseteq 1 .. RowsAsked /\ Hour \in Nat \ {0} /\ TotalCap \in Nat /\ PagesCap \in Nat \ {0}

VARIABLES
  time,    \* the clock
  catalog, \* the resources and their names
  changed, \* how often they have changed
  truths,  \* the pairs of resource and name that were true since the refresh began
  entry,   \* the cache's mapping with the end of its hour, if there is one
  load,    \* the refresh under the mutex, if one runs
  lookedUp \* when the last look-up got the mapping
names == <<time, catalog, changed, truths, entry, load, lookedUp>>

Pairs(c) == {<<id, c[id]>> : id \in DOMAIN c}
Absent == [at |-> "nothing"]

-----------------------------------------------------------------------------
(* One refresh: loadNames. *)

\* Resources without an acceptable name, with two, or with one that another
\* has too, have no name.
ClaimedTwice(rows) ==  \* wrong on purpose: a shared name goes to both
  {r[1] : r \in {r \in rows : r[2] = NoName \/ \E o \in rows : o[1] = r[1] /\ o[2] # r[2]}}
Ambiguous(rows) ==
  {r[1] : r \in {r \in rows :
     r[2] = NoName \/ \E o \in rows : (o[1] = r[1]) # (o[2] = r[2])}}

Mapping(rows) == {r \in rows : r[1] \notin Ambiguous(rows)}

CatalogPage(page, size) ==
  {<<id, catalog[id]>> : id \in Ranked(DOMAIN catalog, (page - 1) * size + 1, page * size)}

\* A failed refresh replaces the mapping too, by none.
OldMapping == IF entry = Absent THEN {} ELSE entry.pairs  \* wrong on purpose
Unnamed == {}

Finish(pairs, whole) ==
  /\ entry' = [at |-> "kept", until |-> time + Hour, ended |-> time, pairs |-> pairs, truths |-> truths,
               calm |-> whole /\ load.changed = changed]
  /\ load' = Absent /\ lookedUp' = time

LoadPage ==
  LET rows == CatalogPage(load.page, load.size)
      total == Cardinality(DOMAIN catalog)
      seen == load.seen + Cardinality(rows)
      all == load.rows \cup rows
  IN  /\ load # Absent
      /\ IF \/ total > TotalCap \/ load.total \notin {-1, total} \/ seen > total
            \/ seen # total /\ (Cardinality(rows) # load.size \/ load.page = PagesCap)
         THEN Finish(Unnamed, FALSE)
         ELSE IF seen = total THEN Finish(Mapping(all), TRUE)
         ELSE /\ load' = [load EXCEPT !.page = @ + 1, !.total = total, !.seen = seen, !.rows = all]
              /\ UNCHANGED <<entry, lookedUp>>
      /\ UNCHANGED <<time, catalog, changed, truths>>

\* A page cannot be read, or does not fit what was asked.
LoadFails ==
  /\ load # Absent
  /\ Finish(Unnamed, FALSE)
  /\ UNCHANGED <<time, catalog, changed, truths>>

-----------------------------------------------------------------------------
(* lookup, under the mutex: nobody looks anything up while a refresh runs. *)

Current == entry # Absent /\ time < entry.until
LookUp ==
  /\ load = Absent
  /\ IF Current THEN lookedUp' = time /\ UNCHANGED <<load, truths>>
     ELSE /\ \E size \in RowsGiven :
               load' = [at |-> "load", page |-> 1, size |-> size, total |-> -1, seen |-> 0, rows |-> {},
                        changed |-> changed]
          /\ truths' = Pairs(catalog)
          /\ lookedUp' = lookedUp
  /\ UNCHANGED <<time, catalog, changed, entry>>

-----------------------------------------------------------------------------
(* The account. *)

Becomes(c) ==
  /\ changed < Changes /\ c # catalog
  /\ catalog' = c /\ changed' = changed + 1
  /\ truths' = IF load = Absent THEN truths ELSE truths \cup Pairs(c)
  /\ UNCHANGED <<time, entry, load, lookedUp>>
Rename == \E id \in DOMAIN catalog, n \in NameSet \cup {NoName} : Becomes([catalog EXCEPT ![id] = n])
Create == \E id \in Ids \ DOMAIN catalog, n \in NameSet :
            Becomes([i \in DOMAIN catalog \cup {id} |-> IF i = id THEN n ELSE catalog[i]])
Delete == \E id \in DOMAIN catalog : Becomes([i \in DOMAIN catalog \ {id} |-> catalog[i]])

TimePasses ==
  /\ time < MaxTime
  /\ time' = time + 1
  /\ UNCHANGED <<catalog, changed, truths, entry, load, lookedUp>>

NamesStart(resources) ==
  /\ time = 0 /\ changed = 0 /\ catalog = resources
  /\ truths = {} /\ entry = Absent /\ load = Absent /\ lookedUp = 0
NamesInit == \E resources \in Catalogs : NamesStart(resources)

NamesNext == LookUp \/ LoadPage \/ LoadFails \/ Rename \/ Create \/ Delete \/ TimePasses

NamesSpec == NamesInit /\ [][NamesNext]_names

-----------------------------------------------------------------------------
\* A look-up gives a name to one resource only and a resource one name only; each
\* was its name at some time during the refresh that read it, which ended less
\* than an hour ago; and when nothing changed during that refresh, every
\* resource whose name no other shares has it (lookup, loadNames).
NamesSound ==
  entry # Absent =>
    /\ \A p, o \in entry.pairs : p[1] = o[1] <=> p[2] = o[2]
    /\ entry.pairs \subseteq entry.truths
    /\ lookedUp < entry.ended + Hour
    /\ entry.calm => entry.pairs = {p \in entry.truths : p[2] # NoName /\ \A o \in entry.truths : o[2] = p[2] => o = p}
=============================================================================
