----------------------------- MODULE DenyPolicy -----------------------------
(***************************************************************************)
(* The deny policy (internal/telemetry/filter.go): denied attributes are   *)
(* taken out of every bag, the identity with them when a bag's mark that   *)
(* it was inferred is denied, and gauge points that become the same series *)
(* are reduced to the last of them.  One publication, as functions of what *)
(* the operator denies and a collector publishes.                          *)
(***************************************************************************)
EXTENDS Naturals, Sequences, FiniteSets, SequencesExt

CONSTANTS
  Keys,       \* attribute names
  Inferred,   \* the one that marks an identity as inferred
  Identity,   \* those that hold the identity
  Marked,     \* the value of the mark
  Bags,       \* the bags of attributes that are published: sequences of key and value
  GaugeNames, \* gauges of a batch
  MaxPoints   \* points of a gauge

ASSUME PolicyAssumption ==
  /\ Inferred \in Keys /\ Identity \subseteq Keys \ {Inferred} /\ MaxPoints \in Nat
  /\ \A bag \in Bags : /\ bag \in Seq({bag[i] : i \in DOMAIN bag})
                       /\ \A i \in DOMAIN bag : bag[i][1] \in Keys /\ bag[i] = <<bag[i][1], bag[i][2]>>

VARIABLES
  denied,    \* the denied gauges and attributes
  published, \* what a collector publishes: points of each gauge, each a value and a bag
  passed     \* what the emitter behind the filter gets
filter == <<denied, published, passed>>

PointLists == UNION {[1 .. n -> Bags] : n \in 0 .. MaxPoints}

-----------------------------------------------------------------------------
\* attrs: the decision is taken on the whole bag.
Suppress(bag) ==
  Inferred \in denied.attributes /\ \E i \in DOMAIN bag : bag[i] = <<Inferred, Marked>>
DropOnlyNamed(key, suppress) == key \in denied.attributes  \* wrong on purpose
DropAttribute(key, suppress) == key \in denied.attributes \/ (suppress /\ key \in Identity)

\* One round of the loop, and the loop.
WithAttr(out, a, suppress) == IF DropAttribute(a[1], suppress) THEN out ELSE Append(out, a)
Attrs(bag) ==
  LET out[n \in 0 .. Len(bag)] == IF n = 0 THEN << >> ELSE WithAttr(out[n - 1], bag[n], Suppress(bag))
  IN  out[Len(bag)]

\* The SDK's set of a bag: of one key the last value.
SetOf(bag) ==
  [k \in {bag[i][1] : i \in DOMAIN bag} |->
     bag[CHOOSE i \in DOMAIN bag : bag[i][1] = k /\ \A j \in DOMAIN bag : j > i => bag[j][1] # k][2]]

\* points: from the last to the first, each series once, then in order again.
WithPoint(out, p) ==
  LET bag == Attrs(p.bag)
  IN  IF \E i \in DOMAIN out : SetOf(out[i].bag) = SetOf(bag) THEN out
      ELSE Append(out, [value |-> p.value, bag |-> bag])
FirstOfEach(input) ==
  LET out[n \in 0 .. Len(input)] == IF n = 0 THEN << >> ELSE WithPoint(out[n - 1], input[n])
  IN  out[Len(input)]
FirstWins(input) == FirstOfEach(input)  \* wrong on purpose
LastWins(input) == Reverse(FirstOfEach(Reverse(input)))

\* snapshots: the gauges that are not denied.
Filtered(batch) == [n \in DOMAIN batch \ denied.metrics |-> LastWins(batch[n])]

FilterStarts(policy) ==
  /\ denied = policy /\ published = << >> /\ passed = << >>
FilterInit ==
  \E policy \in [metrics : SUBSET GaugeNames, attributes : SUBSET Keys] :
    /\ policy.metrics \cup policy.attributes # {}  \* an empty policy does not filter
    /\ FilterStarts(policy)

\* GaugeSnapshots of the filtered emitter; a point's value is its place.
PublishBatch ==
  /\ published = << >>
  /\ \E points \in [GaugeNames -> PointLists] :
       published' = [n \in GaugeNames |-> [i \in DOMAIN points[n] |-> [value |-> i, bag |-> points[n][i]]]]
  /\ passed' = Filtered(published')
  /\ denied' = denied

FilterNext == PublishBatch
FilterSpec == FilterInit /\ [][FilterNext]_filter

-----------------------------------------------------------------------------
\* No denied gauge or attribute gets past the filter, nor an identity without
\* its mark; each series is there once with the value of its last point, in the
\* order of those points; and every other attribute stays (attrs, points).
FilterExact ==
  published # << >> =>
    /\ DOMAIN passed = GaugeNames \ denied.metrics
    /\ \A n \in DOMAIN passed :
         LET out == passed[n]
             inp == published[n]
             Hidden(bag) == denied.attributes \cup
               IF Inferred \in denied.attributes /\ <<Inferred, Marked>> \in ToSet(bag) THEN Identity ELSE {}
             Series(bag) == {a \in {<<k, SetOf(bag)[k]>> : k \in DOMAIN SetOf(bag)} : a[1] \notin Hidden(bag)}
             Kept == {i \in DOMAIN inp : \A j \in DOMAIN inp : j > i => Series(inp[j].bag) # Series(inp[i].bag)}
         IN  /\ {out[i].value : i \in DOMAIN out} = Kept
             /\ \A i, j \in DOMAIN out : i < j => out[i].value < out[j].value
             /\ \A i \in DOMAIN out : ToSet(out[i].bag) =
                  {a \in ToSet(inp[out[i].value].bag) : a[1] \notin Hidden(inp[out[i].value].bag)}
=============================================================================
