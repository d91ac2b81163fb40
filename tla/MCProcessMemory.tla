--------------------------- MODULE MCProcessMemory ---------------------------
(***************************************************************************)
(* A small instance of the parts that live in the process's memory.        *)
(***************************************************************************)
EXTENDS ProcessMemory

\* Logins: two users from one address, late and repeated listings, one row
\* without a user.
R(id, at, key, user, delay) == [id |-> id, at |-> at, key |-> key, user |-> user, delay |-> delay]
MCLoginWorlds == {{R(1,1,1,1,0), R(2,2,1,2,1), R(3,2,1,1,0), R(4,3,2,1,0)},
             {R(1,0,1,2,0), R(2,1,1,1,3), R(3,2,2,2,0), R(4,4,1,1,0), R(5,4,1,Nobody,0)}}
MCRequests == {[at |-> 2, key |-> 1], [at |-> 4, key |-> 1]}
MCDigests == {[i \in 1..5 |-> i], [i \in 1..5 |-> 5 - i]}

\* Tunnels: renamed, down, reconnecting, deleted, gone, listed twice, without a status.
T(id, name, status, counts, deleted) == [id |-> id, name |-> name, status |-> status, counts |-> counts, deleted |-> deleted]
None == [c \in {} |-> 0]
Up == [c \in {1} |-> 1]
Re == [c \in {1} |-> 0]
MCListings == {
  << >>, <<T(1,1,1,Up,FALSE)>>, <<T(1,1,2,Re,FALSE), T(2,2,1,None,FALSE)>>,
  <<T(1,1,1,Up,TRUE), T(2,2,2,None,FALSE)>>, <<T(1,3,2,Up,FALSE), T(2,2,1,None,FALSE)>>,
  <<T(1,1,1,Up,FALSE), T(1,1,2,Up,FALSE)>>, <<T(1,1,Blank,Up,FALSE)>>}

MCPublishers == {"certs", "lb"}
MCNamesOf == [p \in MCPublishers |-> IF p = "certs" THEN {"expiry", "pack"} ELSE {"health", "requests"}]
MCPipelines == <<"otlp", "prometheus">>

\* Polls: more names than slots, names that come and go, failures of details
\* and of zones, duplicate ids, an outage behind the limit.
I(id, name, kind, value, zone, answer) == [id |-> id, name |-> name, kind |-> kind, value |-> value, zone |-> zone, answer |-> answer]
Row(zone, name, count) == [zone |-> zone, name |-> name, count |-> count]
MCPollKinds == {"certs.packs", "warp.fleet", "statuspage.components", "dex.tests", "lb.health"}
World(items, zones, rows) == [items |-> items, zones |-> zones, rows |-> rows]
Rows == {Row(1, 1, 2), Row(1, 2, 1), Row(2, 1, 4), Row(2, 7, 3)}
Names == {{I(1, 3, 1, 0, 1, "ok"), I(2, 4, 2, 1, 1, "ok")},
          {I(1, 1, 1, 1, 1, "ok"), I(2, 2, 1, 0, 2, "ok"), I(3, 3, 1, 1, 1, "unknown"), I(4, 5, 2, 0, 2, "ok")},
          {I(3, 3, 1, 1, 1, "ok"), I(2, 2, 1, 0, 2, "failed"), I(5, 6, 1, 2, 1, "ok")},
          {I(1, Other, 1, 2, 1, "ok"), I(2, 2, 2, 0, 2, "ok")},
          {I(1, 1, 1, 2, 1, "ok"), I(2, 1, 1, 0, 2, "ok"), I(3, 2, 1, 1, 2, "ok"), I(4, 3, 1, 3, 2, "ok"), I(5, 4, 2, 3, 2, "ok"), I(6, 5, 2, 4, 2, "ok"), I(7, 6, 1, 4, 2, "ok"), I(8, 7, 1, 4, 2, "ok")},
          {I(n, n, 1, IF n = 7 THEN 0 ELSE 1, 1, "ok") : n \in 1..7},
          {I(1, 1, 1, 2, 1, "ok"), I(1, 2, 1, 0, 2, "ok")}, {}, {I(1, 1, 1, 2, 1, "failed")}}
MCPollWorlds == {World(n, z, r) : n \in Names, z \in {<<"ok", "ok">>, <<"ok", "none">>, <<"fail", "ok">>}, r \in {{}, Rows}}

\* Logs of two gateways: several in a second, listed late, bodies that are
\* missing for the moment and for good.
L(id, g, at, delay, size, body, bodyAt) == [id |-> id, gateway |-> g, at |-> at, delay |-> delay, size |-> size, body |-> body, bodyAt |-> bodyAt]
MCGatewayWorlds == {
 {L(1,"a",0,0,1,"there",0), L(2,"a",1,0,1,"late",5), L(3,"a",1,4,1,"off",0), L(4,"b",2,0,2,"there",0), L(5,"a",2,0,1,"late",6), L(6,"a",3,0,1,"off",0), L(7,"b",4,0,1,"there",0)},
 {L(1,"a",0,0,1,"late",6), L(2,"a",2,0,1,"there",0), L(3,"a",3,1,1,"late",6), L(4,"a",3,0,1,"there",0), L(5,"b",0,3,1,"off",0), L(6,"b",5,0,1,"there",0)}}
MCGateways == {"a", "b"}

\* A query: four fields of which the first joins, grants of two to four fields, events
\* with the same key and late ones.
Settings(enabled, available, fields, duration, page, floor) ==
  [enabled |-> enabled, available |-> available, fields |-> fields, duration |-> duration,
   page |-> page, floor |-> floor]
AllFields == 1 .. 4
Wide == Settings(TRUE, AllFields, 0, 0, 0, 0)
Narrow == Settings(TRUE, AllFields, 2, 2, 2, 0)
Three == Settings(TRUE, AllFields, 3, 2, 0, 0)
Fewer == Settings(TRUE, 1 .. 3, 2, 1, 3, 1)
Keyless == Settings(TRUE, 2 .. 3, 1, 0, 2, 0)
Newer == Settings(TRUE, {4}, 1, 0, 2, 2)
NotEnabled == Settings(FALSE, AllFields, 0, 0, 0, 0)

\* An event's cells name the event, but for its key.
Event(n, key, at, late) ==
  [at |-> at, late |-> late, cells |-> [f \in AllFields |-> IF f = 1 THEN key ELSE n]]
Plain == [n \in 1 .. 4 |-> Event(n, n, IF n = 4 THEN 3 ELSE (n + 1) \div 2, n = 2)]
Twins == [n \in 1 .. 3 |-> Event(n, IF n = 3 THEN 1 ELSE n, 1, n > 1)]
Few == [n \in 1 .. 3 |-> Event(n, n, n, FALSE)]

Query(wanted, join, limit, events, sampled, grants) ==
  [wanted |-> wanted, join |-> join, limit |-> limit, from |-> 1, to |-> 4, events |-> events,
   sampled |-> sampled, grants |-> grants]
MCQueryWorlds == {
  Query(1 .. 4, {1}, 0, Plain, FALSE, {Wide, Narrow, Fewer}),
  Query(1 .. 4, {1}, 3, Twins, FALSE, {Three, Narrow, NotEnabled}),
  Query(1 .. 4, {1}, 3, Few, TRUE, {Three, Narrow, Fewer}),
  Query({}, {1}, 4, Few, FALSE, {Wide, Three, Keyless}),
  Query({2, 4}, {}, 4, Few, FALSE, {Narrow, Keyless, Newer})}

\* Batches of up to four selections of one to three fields, with budgets of two
\* to five fields or none.
Budget(fields, page, floor) ==
  [enabled |-> TRUE, available |-> 1 .. 3, fields |-> fields, duration |-> 3, page |-> page, floor |-> floor]
Off == [Budget(0, 0, 0) EXCEPT !.enabled = FALSE]
Poor == [Budget(0, 0, 0) EXCEPT !.available = {1}]
Brief == [Budget(0, 0, 0) EXCEPT !.duration = 1]
Selection(alias, wanted, limit, rows, grants) ==
  [alias |-> alias, wanted |-> wanted, from |-> 1, to |-> 3, limit |-> limit, rows |-> rows, grants |-> grants]
MCBatchWorlds == {
  << >>,
  <<Selection("a", 1 .. 2, 4, {1, 2, 6}, {Budget(5, 0, 0), Budget(3, 2, 0)}),
    Selection("b", {1}, 0, {3}, {Budget(0, 2, 0), Budget(2, 0, 0)}),
    Selection("c", 1 .. 2, 2, {4}, {Budget(4, 0, 0)}),
    Selection("d", 1 .. 3, 3, {}, {Budget(3, 0, 1), Budget(4, 0, 2)})>>,
  <<Selection("a", 1 .. 2, 3, {1, 2}, {Budget(4, 0, 0), Budget(4, 2, 0), Off}),
    Selection("b", 1 .. 2, 4, {3, 4, 5}, {Budget(2, 0, 0), Poor})>>,
  <<Selection("a", {1}, 3, {1}, {Budget(2, 0, 0), Brief}),
    Selection("b", {3}, 2, {2, 3}, {Budget(2, 3, 1), Budget(2, 0, 0)}),
    Selection("c", {2}, 4, {4}, {Budget(1, 0, 0), Budget(3, 0, 0)})>>,
  <<Selection("a", {1}, 3, {1}, {Budget(2, 0, 0)}), Selection("a", {3}, 2, {2}, {Budget(2, 0, 0)})>>}

\* Resources with names of their own, a shared one, and one without a name.
MCCatalogs ==
  {[id \in {1} |-> "x"], <<"x", "y">>, <<"x", "x">>, <<"x", NoName>>, [id \in {2, 3} |-> "x"],
   <<"x", "y", NoName>>, <<"x", "y", "x">>}

\* Bags of a policy with three attributes: the mark, an identity and another one.
MCBags ==
  { << >>, << <<"inferred", "true">>, <<"email", "a">>, <<"zone", "z">> >>,
    << <<"inferred", "true">>, <<"zone", "z">> >>,
    << <<"inferred", "false">>, <<"email", "b">> >>,
    << <<"email", "a">>, <<"zone", "z">> >>, << <<"email", "b">>, <<"email", "a">> >>,
    << <<"zone", "y">>, <<"inferred", "true">>, <<"zone", "z">> >> }
=============================================================================
