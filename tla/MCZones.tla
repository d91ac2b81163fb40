------------------------------- MODULE MCZones -------------------------------
(***************************************************************************)
(* Instances of ZoneCollectors: three zones, one of another account, that  *)
(* age out or lose their dataset one at a time.                            *)
(***************************************************************************)
EXTENDS ZoneCollectors

MCKinds == {"httpreq.events", "httpreq.metrics", "httpreq.threats", "email",
            "dns.events", "dns.metrics", "firewall.events", "firewall.metrics"}

Event(zone, at, ray, host, label, copy) ==
  [zone |-> zone, at |-> at, ray |-> ray, host |-> host, label |-> label, copy |-> copy]

\* Records of one event, events without a ray, hosts out of scope.
Sparse == {Event(1, 0, 5, 1, 1, 0), Event(1, 3, 6, 1, 2, 0), Event(1, 3, 6, 1, 2, 1),
           Event(2, 1, 7, 1, 1, 0), Event(2, 3, 8, 2, 3, 0), Event(2, 5, 9, 1, 2, 1 - 1),
           Event(3, 2, 4, 1, 1, 0)}
Dense == {Event(1, 2, Blank, 1, 1, 0), Event(1, 2, Blank, 1, 1, 1), Event(1, 4, 2, 2, Blank, 0),
          Event(2, 0, 3, 1, 2, 0), Event(2, 2, 4, 2, 1, 0), Event(2, 4, 5, 3, 3, 0),
          Event(2, 6, 6, 1, 1, 0), Event(3, 4, 7, 2, 2, 0)}
MCWorlds == {Sparse, Dense}

Config(wanted, exclude, breakdowns, topHosts, broad) ==
  [discovered |-> {1, 2, 3}, wanted |-> wanted, exclude |-> exclude, hosts |-> {1, 2},
   breakdowns |-> breakdowns, topHosts |-> topHosts, broad |-> broad]
MCConfigs == {Config({}, {}, {"label", "top"}, {}, FALSE), Config({1, 2}, {}, {}, {}, FALSE),
              Config({2}, {3}, {"top"}, {1}, TRUE), Config({3}, {1}, {"label"}, {}, FALSE)}

Full == [read |-> TRUE, enabled |-> TRUE, fallback |-> FALSE, fields |-> 6, page |-> 9, span |-> 9,
         retention |-> 9, offered |-> {"value", "host", "label", "bucket", "top", "latency", "visits"}]
All(s) == [z \in {1, 2, 3} |-> s]
Of(zone, s) == [z \in {1, 2, 3} |-> IF z = zone THEN s ELSE Full]
MCSettings ==
  {All(Full), All([Full EXCEPT !.fields = 3]),
   All([Full EXCEPT !.page = 3, !.span = 2]),                 \* split, in slices
   All([Full EXCEPT !.retention = 0]),                        \* no retention limit
   Of(2, [Full EXCEPT !.retention = 3]), Of(2, [Full EXCEPT !.retention = 2, !.page = 2]),
   Of(2, [Full EXCEPT !.enabled = FALSE]),
   Of(2, [Full EXCEPT !.enabled = FALSE, !.fallback = TRUE]),
   Of(3, [Full EXCEPT !.read = FALSE])}
=============================================================================
