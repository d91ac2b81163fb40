---------------------------- MODULE MemoryProofs ----------------------------
(***************************************************************************)
(* Proofs about what the process keeps in memory: the gauge snapshots, the *)
(* counts of identity outcomes, the index of logins and the snapshots of   *)
(* tunnel statuses.  Each part is about its own component, for every value *)
(* of its constants.                                                       *)
(***************************************************************************)
EXTENDS GaugeSnapshots, IdentityOutcomes, LoginEvidence, TunnelStatus, GatewayLogs, SettingsCache,
        FiniteSetTheorems, SequenceTheorems, NaturalsInduction, TLAPS

-----------------------------------------------------------------------------
(* GaugeSnapshots, for any number of publishers, gauges and readers.        *)

Gauges == UNION {NamesOf[p] : p \in Publishers}
Callbacks == [id : Publishers \X Nat, names : SUBSET Gauges]
Steps == [at : {"register", "unregister", "publish"}, names : SUBSET Gauges,
          id : Publishers \X Nat, pipe : DOMAIN Pipelines]

IsBatches(f) ==
  /\ DOMAIN f \subseteq Gauges
  /\ \A n \in DOMAIN f : f[n].generation \in Nat /\ f[n].expires \in Nat

\* Everything the emitter and the SDK keep has its type (otelEmitter).
Typed ==
  /\ moment \in Nat /\ held \in Publishers \cup {NoOne}
  /\ made \in [Publishers -> Nat]
  /\ step \in [Publishers -> {Waiting} \cup Steps]
  /\ IsBatches(snapshots)
  /\ callbacks \in [Readers -> SUBSET Callbacks]
  /\ registration \in {<< >>} \cup (Publishers \X Nat)
  /\ collecting = [r \in Readers |-> collecting[r]]
  /\ \A r \in Readers : Busy(r) =>
       /\ DOMAIN collecting[r] = {"at", "todo", "seen", "before"}
       /\ collecting[r].todo \subseteq callbacks[r]
       /\ IsBatches(collecting[r].before)

-----------------------------------------------------------------------------
(* The invariant. *)

Changing(p) == step[p].at \in {"register", "unregister"}
New(p) == [id |-> step[p].id, names |-> step[p].names]

\* Whoever is past the lock holds it; the callback it registers covers all
\* gauges, and is not the one in force.
Exclusive ==
  /\ \A p \in Publishers : step[p] # Waiting => held = p
  /\ registration # << >> => registration[2] <= made[registration[1]]
  /\ \A p \in Publishers : step[p] # Waiting =>
       /\ step[p].id = <<p, made[p]>>
       /\ DOMAIN snapshots \cup NamesOf[p] \subseteq step[p].names
  /\ \A p \in Publishers : Changing(p) => step[p].id # registration

\* The gauges of a batch are replaced together, expiry and all.
WholeIn(f, p) ==
  \/ \A n \in NamesOf[p] : n \notin DOMAIN f
  \/ \A n \in NamesOf[p] : n \in DOMAIN f /\ \A m \in NamesOf[p] : f[n] = f[m]
Together ==
  /\ \A p \in Publishers : WholeIn(snapshots, p)
  /\ \A p \in Publishers : \A n \in NamesOf[p] : n \in DOMAIN snapshots =>
       snapshots[n].generation <= made[p] /\ snapshots[n].expires <= moment + TTL

\* Beside the callback in force there is at most the one being registered; both
\* cover every gauge published so far.
Covered ==
  /\ \A r \in Readers : \A c \in callbacks[r] :
       /\ DOMAIN snapshots \subseteq c.names
       /\ c.id = registration \/ \E p \in Publishers : Changing(p) /\ c = New(p)
       /\ \A d \in callbacks[r] : c.id = d.id => c = d
  /\ DOMAIN snapshots # {} => registration # << >>
  /\ registration # << >> => \A r \in Readers : callbacks[r] # {}
  /\ \A p \in Publishers : step[p].at = "register" =>
       \A i \in DOMAIN Pipelines : New(p) \in callbacks[Pipelines[i]] <=> i < step[p].pipe
  /\ \A p \in Publishers : step[p].at = "unregister" =>
       \A i \in DOMAIN Pipelines :
         /\ New(p) \in callbacks[Pipelines[i]]
         /\ i < step[p].pipe => \A c \in callbacks[Pipelines[i]] : c.id # registration
  /\ \A p \in Publishers : step[p].at = "publish" =>
       /\ NamesOf[p] # {} => registration # << >>
       /\ \A r \in Readers : \A c \in callbacks[r] : NamesOf[p] \subseteq c.names

SeenOf(r, p) == {x \in collecting[r].seen : x[1] \in NamesOf[p]}
SeenWhole(r, p) ==
  \/ SeenOf(r, p) = {}
  \/ \A n \in NamesOf[p] : n \in DOMAIN snapshots /\ SeenOf(r, p) = NamesOf[p] \X {snapshots[n].generation}

\* What a collection that is not over has seen is still published: it has run
\* one callback of two, which only happens while nobody publishes.
Underway(r) ==
  /\ collecting[r].todo = callbacks[r] => collecting[r].seen = {}
  /\ \A p \in Publishers : SeenWhole(r, p)

\* What was published when the collection began has only been replaced by newer.
NoOlder(f) ==
  \A p \in Publishers :
    /\ WholeIn(f, p)
    /\ \A n \in NamesOf[p] : n \in DOMAIN f =>
         /\ n \in DOMAIN snapshots
         /\ f[n].generation <= snapshots[n].generation
         /\ f[n].expires <= snapshots[n].expires

\* A collection that is over.
Over(r) ==
  \A p \in Publishers :
    LET before == collecting[r].before
        there == NamesOf[p] \subseteq DOMAIN before
    IN  \/ /\ GenerationsSeen(r, p) = {}
           /\ there => \A n \in NamesOf[p] : moment >= before[n].expires
        \/ \E g \in GenerationsSeen(r, p) :
             /\ {x \in collecting[r].seen : x[1] \in NamesOf[p]} = NamesOf[p] \X {g}
             /\ there => \A n \in NamesOf[p] : g >= before[n].generation

Collected ==
  \A r \in Readers : Busy(r) =>
    /\ NoOlder(collecting[r].before)
    /\ collecting[r].todo # {} => Underway(r)
    /\ collecting[r].todo = {} => Over(r)

Sound == Typed /\ Exclusive /\ Together /\ Covered /\ Collected
-----------------------------------------------------------------------------
(* Facts. *)

LEMMA PipelineFacts ==
  /\ DOMAIN Pipelines = 1 .. Len(Pipelines) /\ Len(Pipelines) \in Nat \ {0}
  /\ \A i \in DOMAIN Pipelines : Pipelines[i] \in Readers
  /\ \A r \in Readers : \E i \in DOMAIN Pipelines : Pipelines[i] = r
  /\ \A i, j \in DOMAIN Pipelines : Pipelines[i] = Pipelines[j] => i = j
BY SnapshotAssumption DEF Readers, Range, IsInjective

\* No callback has the identity the emitter starts with.
LEMMA Identities ==
  \A x \in Publishers \X Nat : x # << >> /\ x[1] \in Publishers /\ x[2] \in Nat
<1> TAKE x \in Publishers \X Nat
<1>1. PICK a \in Publishers, b \in Nat : x = <<a, b>>
  OBVIOUS
<1>2. <<a, b>> # << >>
  OBVIOUS
<1> QED BY <1>1, <1>2

\* Only one publisher is past the lock.
LEMMA OneInside ==
  ASSUME Exclusive, NEW p \in Publishers, step[p] # Waiting
  PROVE  \A q \in Publishers : q # p => step[q] = Waiting
BY DEF Exclusive

\* While nobody changes callbacks, each reader has the one in force at most.
LEMMA OneCallback ==
  ASSUME Typed, Covered, \A p \in Publishers : ~Changing(p), NEW r \in Readers
  PROVE  \A c, d \in callbacks[r] : c.id = registration /\ c = d
BY DEF Covered

LEMMA SoundAtFirst == GaugesInit => Sound
<1> SUFFICES ASSUME GaugesInit PROVE Sound
  OBVIOUS
<1> USE DEF GaugesInit
<1>1. Typed
  BY PipelineFacts DEF Typed, IsBatches, Busy, Resting
<1>2. Exclusive
  BY DEF Exclusive, Changing, Waiting
<1>3. Together
  BY DEF Together, WholeIn
<1>4. Covered
  BY DEF Covered, Waiting
<1>5. Collected
  BY DEF Collected, Busy, Resting
<1> QED BY <1>1, <1>2, <1>3, <1>4, <1>5 DEF Sound

-----------------------------------------------------------------------------
(* Collections. *)

\* A step of a collection leaves the publications alone.
LEMMA CollectionFrame ==
  ASSUME Sound, UNCHANGED <<moment, held, step, made, snapshots, callbacks, registration>>
  PROVE  Exclusive' /\ Together' /\ Covered'
<1>1. Exclusive'
  BY DEF Sound, Exclusive, Changing
<1>2. Together'
  BY DEF Sound, Together, WholeIn
<1>3. Covered'
  BY DEF Sound, Covered, Changing, New
<1> QED BY <1>1, <1>2, <1>3

\* What is said of a collection, if neither it nor the publications change.
LEMMA CollectionKept ==
  ASSUME NEW r \in Readers, collecting'[r] = collecting[r],
         moment' = moment, snapshots' = snapshots, callbacks'[r] = callbacks[r]
  PROVE  /\ NoOlder(collecting[r].before) => NoOlder(collecting[r].before)'
         /\ Underway(r) => Underway(r)'
         /\ Over(r) => Over(r)'
<1>1. NoOlder(collecting[r].before) => NoOlder(collecting[r].before)'
  BY DEF NoOlder, WholeIn
<1>2. Underway(r) => Underway(r)'
  BY DEF Underway, SeenWhole, SeenOf
<1>3. Over(r) => Over(r)'
  BY DEF Over, GenerationsSeen
<1> QED BY <1>1, <1>2, <1>3

LEMMA StartKeeps == ASSUME Sound, NEW r \in Readers, StartCollection(r) PROVE Sound'
<1>1. UNCHANGED <<moment, held, step, made, snapshots, callbacks, registration>>
  BY DEF StartCollection
<1>2. /\ collecting'[r] = [at |-> "run", todo |-> callbacks[r], seen |-> {}, before |-> snapshots]
      /\ \A q \in Readers : q # r => collecting'[q] = collecting[q]
      /\ collecting' = [q \in Readers |-> collecting'[q]]
  BY DEF StartCollection, Sound, Typed
<1>3. Typed'
  BY <1>1, <1>2 DEF Sound, Typed, Busy, IsBatches
<1>4. Collected'
  <2> SUFFICES ASSUME NEW q \in Readers, Busy(q)'
               PROVE  /\ NoOlder(collecting[q].before)'
                      /\ (collecting[q].todo # {})' => Underway(q)'
                      /\ (collecting[q].todo = {})' => Over(q)'
    BY DEF Collected
  <2>1. CASE q # r
    BY <2>1, <1>1, <1>2, CollectionKept DEF Sound, Collected, Busy
  <2>2. CASE q = r
    <3>1. NoOlder(collecting[r].before)'
      BY <1>1, <1>2 DEF NoOlder, Sound, Together, WholeIn, Typed, IsBatches
    <3>2. Underway(r)'
      BY <1>1, <1>2 DEF Underway, SeenWhole, SeenOf
    <3>3. callbacks[r] = {} => Over(r)'
      BY <1>1, <1>2 DEF Over, GenerationsSeen, Sound, Covered
    <3> QED BY <2>2, <3>1, <3>2, <3>3, <1>1, <1>2
  <2> QED BY <2>1, <2>2
<1> QED BY <1>1, <1>3, <1>4, CollectionFrame DEF Sound

LEMMA RunKeeps == ASSUME Sound, NEW r \in Readers, RunCallback(r) PROVE Sound'
<1> DEFINE s == collecting[r]
<1>1. UNCHANGED <<moment, held, step, made, snapshots, callbacks, registration>>
  BY DEF RunCallback
<1>2. PICK c \in s.todo :
        collecting' = [collecting EXCEPT ![r].todo = @ \ {c}, ![r].seen = @ \cup Observed(c)]
  BY DEF RunCallback
<1>3. /\ Busy(r) /\ DOMAIN s = {"at", "todo", "seen", "before"}
      /\ s.todo \subseteq callbacks[r] /\ IsBatches(s.before)
  BY DEF RunCallback, Sound, Typed
<1>4. /\ collecting'[r] = [s EXCEPT !.todo = @ \ {c}, !.seen = @ \cup Observed(c)]
      /\ \A q \in Readers : q # r => collecting'[q] = collecting[q]
      /\ collecting' = [q \in Readers |-> collecting'[q]]
  <2>1. collecting = [q \in Readers |-> collecting[q]]
    BY DEF Sound, Typed
  <2> QED BY <1>2, <2>1
<1>5. LET t == collecting'[r] IN
       /\ DOMAIN t = {"at", "todo", "seen", "before"} /\ t.at = s.at
       /\ t.todo = s.todo \ {c} /\ t.seen = s.seen \cup Observed(c) /\ t.before = s.before
  BY <1>3, <1>4
<1>6. Typed'
  BY <1>1, <1>3, <1>4, <1>5, ZenonT(60) DEF Sound, Typed, Busy, IsBatches
<1>7. Underway(r) /\ NoOlder(s.before)
  BY <1>2, <1>3 DEF Sound, Collected
<1>8. Observed(c) = {<<n, snapshots[n].generation>> : n \in {n \in DOMAIN snapshots : moment < snapshots[n].expires}}
  BY <1>2, <1>3 DEF Observed, Sound, Covered
<1>9. ASSUME NEW p \in Publishers
      PROVE  /\ SeenWhole(r, p)'
             /\ SeenOf(r, p)' = {} => \A n \in NamesOf[p] : n \in DOMAIN snapshots => moment >= snapshots[n].expires
  <2>1. SeenOf(r, p)' = SeenOf(r, p) \cup {x \in Observed(c) : x[1] \in NamesOf[p]}
    BY <1>4, <1>5 DEF SeenOf
  <2>2. {x \in Observed(c) : x[1] \in NamesOf[p]} =
          {<<n, snapshots[n].generation>> : n \in {n \in NamesOf[p] : n \in DOMAIN snapshots /\ moment < snapshots[n].expires}}
    BY <1>8
  <2>3. WholeIn(snapshots, p) /\ SeenWhole(r, p)
    BY <1>7 DEF Sound, Together, Underway
  <2>4. CASE \A n \in NamesOf[p] : n \notin DOMAIN snapshots
    BY <2>1, <2>2, <2>3, <2>4, <1>1 DEF SeenWhole
  <2>5. ASSUME NEW n \in NamesOf[p], n \in DOMAIN snapshots, moment < snapshots[n].expires
        PROVE  SeenOf(r, p)' = NamesOf[p] \X {snapshots[n].generation}
    <3>1. \A m \in NamesOf[p] : m \in DOMAIN snapshots /\ snapshots[m] = snapshots[n]
      BY <2>3, <2>5 DEF WholeIn
    <3>2. {x \in Observed(c) : x[1] \in NamesOf[p]} = NamesOf[p] \X {snapshots[n].generation}
      BY <2>2, <2>5, <3>1
    <3>3. SeenOf(r, p) \subseteq NamesOf[p] \X {snapshots[n].generation}
      BY <2>3 DEF SeenWhole
    <3> QED BY <2>1, <3>2, <3>3
  <2>6. CASE \A n \in NamesOf[p] : n \in DOMAIN snapshots => ~(moment < snapshots[n].expires)
    <3>1. SeenOf(r, p)' = SeenOf(r, p)
      BY <2>1, <2>2, <2>6
    <3>2. \A n \in NamesOf[p] : n \in DOMAIN snapshots => moment >= snapshots[n].expires
      BY <2>6 DEF Sound, Typed, IsBatches
    <3> QED BY <3>1, <3>2, <2>3, <1>1 DEF SeenWhole
  <2>7. CASE \E n \in NamesOf[p] : n \in DOMAIN snapshots /\ moment < snapshots[n].expires
    <3>1. PICK n \in NamesOf[p] : n \in DOMAIN snapshots /\ moment < snapshots[n].expires
      BY <2>7
    <3>2. SeenOf(r, p)' = NamesOf[p] \X {snapshots[n].generation}
      BY <3>1, <2>5
    <3>4. <<n, snapshots[n].generation>> \in SeenOf(r, p)'
      BY <3>1, <3>2
    <3>3. \A m \in NamesOf[p] : m \in DOMAIN snapshots /\ snapshots[m] = snapshots[n]
      BY <2>3, <3>1 DEF WholeIn
    <3>5. \A m \in NamesOf[p] : m \in DOMAIN snapshots' /\ SeenOf(r, p)' = NamesOf[p] \X {snapshots'[m].generation}
      BY <3>2, <3>3, <1>1
    <3> QED BY <3>4, <3>5 DEF SeenWhole
  <2> QED BY <2>6, <2>7
<1>10. Underway(r)'
  <2>1. collecting'[r].todo # callbacks'[r]
    BY <1>1, <1>2, <1>3, <1>4, <1>5
  <2> QED BY <2>1, <1>9 DEF Underway
<1>11. Over(r)'
  <2> SUFFICES ASSUME NEW p \in Publishers
               PROVE  \/ /\ GenerationsSeen(r, p)' = {}
                         /\ NamesOf[p] \subseteq DOMAIN s.before =>
                              \A n \in NamesOf[p] : moment >= s.before[n].expires
                      \/ \E g \in GenerationsSeen(r, p)' :
                           /\ SeenOf(r, p)' = NamesOf[p] \X {g}
                           /\ NamesOf[p] \subseteq DOMAIN s.before =>
                                \A n \in NamesOf[p] : g >= s.before[n].generation
    BY <1>1, <1>4, <1>5 DEF Over, SeenOf
  <2>1. GenerationsSeen(r, p)' = {x[2] : x \in SeenOf(r, p)'}
    BY DEF GenerationsSeen, SeenOf
  <2>2. NamesOf[p] \subseteq DOMAIN s.before =>
          \A n \in NamesOf[p] :
            /\ n \in DOMAIN snapshots
            /\ s.before[n].generation \in Nat /\ snapshots[n].generation \in Nat
            /\ s.before[n].expires \in Nat /\ snapshots[n].expires \in Nat
            /\ s.before[n].generation <= snapshots[n].generation
            /\ s.before[n].expires <= snapshots[n].expires
    BY <1>3, <1>7 DEF NoOlder, Sound, Typed, IsBatches
  <2>3. CASE SeenOf(r, p)' = {}
    <3>1. \A n \in NamesOf[p] : n \in DOMAIN snapshots => moment >= snapshots[n].expires
      BY <1>9, <2>3
    <3>2. moment \in Nat
      BY DEF Sound, Typed
    <3> QED BY <2>1, <2>2, <2>3, <3>1, <3>2
  <2>4. CASE SeenOf(r, p)' # {}
    <3>1. \A n \in NamesOf[p] : n \in DOMAIN snapshots /\ SeenOf(r, p)' = NamesOf[p] \X {snapshots[n].generation}
      BY <1>1, <1>9, <2>4 DEF SeenWhole
    <3>2. PICK n \in NamesOf[p] : TRUE
      BY <2>4 DEF SeenOf
    <3> DEFINE g == snapshots[n].generation
    <3>3. SeenOf(r, p)' = NamesOf[p] \X {g} /\ <<n, g>> \in SeenOf(r, p)'
      BY <3>1, <3>2
    <3>4. g \in GenerationsSeen(r, p)'
      BY <2>1, <3>3
    <3>5. WholeIn(snapshots, p)
      BY DEF Sound, Together
    <3>6. \A m \in NamesOf[p] : snapshots[m].generation = g
      BY <3>1, <3>2, <3>5 DEF WholeIn
    <3> QED BY <2>2, <3>3, <3>4, <3>6
  <2> QED BY <2>3, <2>4
<1>12. NoOlder(s.before)'
  BY <1>1, <1>4, <1>5, <1>7 DEF NoOlder, WholeIn
<1>13. Collected'
  <2> SUFFICES ASSUME NEW q \in Readers, Busy(q)'
               PROVE  /\ NoOlder(collecting[q].before)'
                      /\ (collecting[q].todo # {})' => Underway(q)'
                      /\ (collecting[q].todo = {})' => Over(q)'
    BY DEF Collected
  <2>1. CASE q # r
    BY <2>1, <1>1, <1>4, <1>5, CollectionKept DEF Sound, Collected, Busy
  <2>2. CASE q = r
    BY <2>2, <1>10, <1>11, <1>12
  <2> QED BY <2>1, <2>2
<1> QED BY <1>1, <1>6, <1>13, CollectionFrame DEF Sound

LEMMA EndKeeps == ASSUME Sound, NEW r \in Readers, EndCollection(r) PROVE Sound'
<1>1. UNCHANGED <<moment, held, step, made, snapshots, callbacks, registration>>
  BY DEF EndCollection
<1>2. /\ collecting'[r] = Resting
      /\ \A q \in Readers : q # r => collecting'[q] = collecting[q]
      /\ collecting' = [q \in Readers |-> collecting'[q]]
  BY DEF EndCollection, Sound, Typed
<1>3. Typed'
  BY <1>1, <1>2 DEF Sound, Typed, Busy, IsBatches, Resting
<1>4. Collected'
  BY <1>1, <1>2, CollectionKept DEF Sound, Collected, Busy, Resting
<1> QED BY <1>1, <1>3, <1>4, CollectionFrame DEF Sound

-----------------------------------------------------------------------------
(* Publications. *)

\* Collections go on as they were, if no callback changes under them.
LEMMA CollectedKept ==
  ASSUME Sound, UNCHANGED <<collecting, moment, snapshots>>,
         \A r \in Readers : Busy(r) => callbacks'[r] = callbacks[r]
  PROVE  Collected'
<1> SUFFICES ASSUME NEW r \in Readers, Busy(r)'
             PROVE  /\ NoOlder(collecting[r].before)'
                    /\ (collecting[r].todo # {})' => Underway(r)'
                    /\ (collecting[r].todo = {})' => Over(r)'
  BY DEF Collected
<1>1. Busy(r) /\ collecting'[r] = collecting[r]
  BY DEF Busy
<1> QED BY <1>1, CollectionKept DEF Sound, Collected

\* Who has left the lock has nothing to answer for.
LEMMA LeaveKeeps ==
  ASSUME Sound, NEW p \in Publishers, step[p] # Waiting, Leave(p),
         UNCHANGED <<made, callbacks, registration>>,
         \A r \in Readers : New(p) \in callbacks[r] => ~Changing(p)
  PROVE  /\ \A q \in Publishers : step'[q] = Waiting
         /\ step' \in [Publishers -> {Waiting} \cup Steps] /\ held' = NoOne
         /\ Exclusive'
         /\ \A r \in Readers : \A c, d \in callbacks[r] : c.id = registration /\ c = d
<1>1. \A q \in Publishers : q # p => step[q] = Waiting
  BY OneInside DEF Sound
<1>2. step' \in [Publishers -> {Waiting} \cup Steps] /\ held' = NoOne
  BY DEF Leave, Sound, Typed
<1>3. \A q \in Publishers : step'[q] = Waiting
  BY <1>1 DEF Leave, Sound, Typed
<1>4. \A q \in Publishers : ~Changing(q)'
  BY <1>3 DEF Changing, Waiting
<1>5. Exclusive'
  BY <1>3, <1>4 DEF Sound, Exclusive
<1>6. \A q \in Publishers : Changing(q) => q = p
  BY <1>1 DEF Changing, Waiting
<1>7. \A r \in Readers : \A c \in callbacks[r] : c.id = registration
  BY <1>6 DEF Sound, Covered
<1>8. \A r \in Readers : \A c, d \in callbacks[r] : c = d
  BY <1>7 DEF Sound, Covered
<1> QED BY <1>2, <1>3, <1>5, <1>7, <1>8

LEMMA EnterKeeps == ASSUME Sound, NEW p \in Publishers, Enter(p) PROVE Sound'
<1> DEFINE s == step'[p]
<1>1. UNCHANGED <<moment, snapshots, callbacks, registration, collecting>>
  BY DEF Enter
<1>2. \A q \in Publishers : step[q] = Waiting /\ ~Changing(q)
  BY SnapshotAssumption DEF Enter, Sound, Exclusive, Changing, Waiting
<1>3. /\ s.at = IF NamesOf[p] \subseteq DOMAIN snapshots THEN "publish" ELSE "register"
      /\ s.names = DOMAIN snapshots \cup NamesOf[p] /\ s.id = <<p, made[p] + 1>> /\ s.pipe = 1
      /\ \A q \in Publishers : q # p => step'[q] = Waiting /\ ~Changing(q)'
  BY <1>2 DEF Enter, Sound, Typed, Changing, Waiting
<1>4. made' \in [Publishers -> Nat] /\ made'[p] = made[p] + 1 /\ made[p] \in Nat /\ held' = p
      /\ \A q \in Publishers : q # p => made'[q] = made[q]
  BY DEF Enter, Sound, Typed
<1>5. s \in Steps /\ step' \in [Publishers -> {Waiting} \cup Steps]
  <2>1. DOMAIN snapshots \cup NamesOf[p] \subseteq Gauges
    BY DEF Sound, Typed, IsBatches, Gauges
  <2>2. 1 \in DOMAIN Pipelines
    BY PipelineFacts
  <2>3. <<p, made[p] + 1>> \in Publishers \X Nat
    BY <1>4
  <2>4. [at |-> IF NamesOf[p] \subseteq DOMAIN snapshots THEN "publish" ELSE "register",
         names |-> DOMAIN snapshots \cup NamesOf[p], id |-> <<p, made[p] + 1>>, pipe |-> 1] \in Steps
    BY <2>1, <2>2, <2>3 DEF Steps
  <2> QED BY <2>4 DEF Enter, Sound, Typed
<1>6. Typed'
  BY <1>1, <1>4, <1>5 DEF Sound, Typed, IsBatches, Busy
<1>7. s.id # registration
  <2>1. registration # <<p, made[p] + 1>>
    <3> SUFFICES ASSUME registration = <<p, made[p] + 1>> PROVE FALSE
      OBVIOUS
    <3>1. registration # << >> /\ registration[1] = p /\ registration[2] = made[p] + 1
      OBVIOUS
    <3> QED BY <3>1, <1>4 DEF Sound, Exclusive
  <2> QED BY <2>1, <1>3
<1>8. Exclusive'
  <2>1. \A q \in Publishers : step'[q] # Waiting => q = p
    BY <1>3
  <2>2. ASSUME NEW q \in Publishers
        PROVE  made[q] \in Nat /\ made[q] <= made'[q] /\ made'[q] \in Nat
    <3>1. made[q] \in Nat
      BY DEF Sound, Typed
    <3>2. CASE q = p
      BY <3>2, <1>4
    <3>3. CASE q # p
      BY <3>1, <3>3, <1>4
    <3> QED BY <3>1, <3>2, <3>3
  <2>3. registration # << >> => registration[1] \in Publishers /\ registration[2] \in Nat
    BY DEF Sound, Typed
  <2>4. registration' # << >> => registration'[2] <= made'[registration'[1]]
    <3> SUFFICES ASSUME registration # << >> PROVE registration[2] <= made'[registration[1]]
      BY <1>1
    <3>1. registration[2] <= made[registration[1]]
      BY DEF Sound, Exclusive
    <3> DEFINE o == registration[1]
    <3>2. made[o] \in Nat /\ made[o] <= made'[o] /\ made'[o] \in Nat
      BY <2>2, <2>3
    <3> QED BY <2>3, <3>1, <3>2
  <2> QED BY <1>1, <1>3, <1>4, <1>7, <2>1, <2>4 DEF Exclusive, Changing
<1>9. Together'
  <2> SUFFICES ASSUME NEW q \in Publishers, NEW n \in NamesOf[q], n \in DOMAIN snapshots
               PROVE  snapshots[n].generation <= made'[q]
    BY <1>1 DEF Sound, Together, WholeIn
  <2>1. snapshots[n].generation <= made[q] /\ snapshots[n].generation \in Nat /\ made[q] \in Nat
    BY DEF Sound, Together, Typed, IsBatches
  <2> QED BY <2>1, <1>4
<1>10. \A r \in Readers : \A c, d \in callbacks[r] : c.id = registration /\ c = d
  BY <1>2, OneCallback DEF Sound
<1>11. \A i \in DOMAIN Pipelines : New(p)' \notin callbacks[Pipelines[i]] /\ ~(i < 1)
  BY <1>7, <1>10, PipelineFacts DEF New
<1>12. Covered'
  <2>1. \A r \in Readers : \A c \in callbacks[r] : DOMAIN snapshots \subseteq c.names
    BY DEF Sound, Covered
  <2>2. \A q \in Publishers : step'[q].at \in {"register", "publish"} => q = p
    BY <1>3 DEF Waiting
  <2>3. \A q \in Publishers : step'[q].at # "unregister"
    BY <1>3 DEF Changing
  <2>4. s.at = "publish" => NamesOf[p] \subseteq DOMAIN snapshots
    BY <1>3
  <2>5. /\ DOMAIN snapshots # {} => registration # << >>
        /\ registration # << >> => \A r \in Readers : callbacks[r] # {}
    BY DEF Sound, Covered
  <2>6. \A q \in Publishers : step'[q].at = "register" =>
          \A i \in DOMAIN Pipelines : New(q)' \in callbacks[Pipelines[i]] <=> i < step'[q].pipe
    BY <2>2, <1>3, <1>11
  <2>7. \A q \in Publishers : step'[q].at = "publish" =>
          /\ NamesOf[q] # {} => registration # << >>
          /\ \A r \in Readers : \A c \in callbacks[r] : NamesOf[q] \subseteq c.names
    BY <2>1, <2>2, <2>4, <2>5
  <2> QED BY <1>1, <1>10, <2>1, <2>3, <2>5, <2>6, <2>7 DEF Covered
<1>13. Collected'
  BY <1>1, CollectedKept
<1> QED BY <1>6, <1>8, <1>9, <1>12, <1>13 DEF Sound

LEMMA RefuseKeeps == ASSUME Sound, NEW p \in Publishers, Refuse(p) PROVE Sound'
<1>1. UNCHANGED <<moment, made, snapshots, callbacks, registration, collecting>> /\ Leave(p)
  BY DEF Refuse
<1>2. step[p].at = "register" /\ step[p].pipe = 1 /\ step[p] # Waiting
  BY DEF Refuse, Waiting
<1>3. \A r \in Readers : New(p) \notin callbacks[r]
  BY <1>2, PipelineFacts DEF Sound, Covered
<1>4. /\ \A q \in Publishers : step'[q] = Waiting
      /\ step' \in [Publishers -> {Waiting} \cup Steps] /\ held' = NoOne
      /\ Exclusive'
      /\ \A r \in Readers : \A c, d \in callbacks[r] : c.id = registration /\ c = d
  BY <1>1, <1>2, <1>3, LeaveKeeps
<1>5. Typed'
  BY <1>1, <1>4 DEF Sound, Typed, IsBatches, Busy
<1>6. Together'
  BY <1>1 DEF Sound, Together, WholeIn
<1>7. Covered'
  BY <1>1, <1>4 DEF Sound, Covered, Waiting
<1>8. Collected'
  BY <1>1, CollectedKept
<1> QED BY <1>4, <1>5, <1>6, <1>7, <1>8 DEF Sound

LEMMA CancelledKeeps == ASSUME Sound, NEW p \in Publishers, Cancelled(p) PROVE Sound'
<1>1. UNCHANGED <<moment, made, snapshots, callbacks, registration, collecting>> /\ Leave(p)
  BY DEF Cancelled
<1>2. step[p].at = "publish" /\ step[p] # Waiting /\ ~Changing(p)
  BY DEF Cancelled, Waiting, Changing
<1>3. /\ \A q \in Publishers : step'[q] = Waiting
      /\ step' \in [Publishers -> {Waiting} \cup Steps] /\ held' = NoOne
      /\ Exclusive'
      /\ \A r \in Readers : \A c, d \in callbacks[r] : c.id = registration /\ c = d
  BY <1>1, <1>2, LeaveKeeps
<1>4. Typed'
  BY <1>1, <1>3 DEF Sound, Typed, IsBatches, Busy
<1>5. Together'
  BY <1>1 DEF Sound, Together, WholeIn
<1>6. Covered'
  BY <1>1, <1>3 DEF Sound, Covered, Waiting
<1>7. Collected'
  BY <1>1, CollectedKept
<1> QED BY <1>3, <1>4, <1>5, <1>6, <1>7 DEF Sound

\* Waiting is for the mutex: whoever is in it is alone.
LEMMA Alone ==
  ASSUME Sound, NEW p \in Publishers, step[p] # Waiting
  PROVE  /\ \A q \in Publishers : q # p => step[q] = Waiting /\ ~Changing(q)
         /\ step[p] \in Steps /\ held = p /\ step[p].id = <<p, made[p]>> /\ made[p] \in Nat
BY OneInside DEF Sound, Exclusive, Typed, Changing, Waiting

LEMMA RegisterKeeps == ASSUME Sound, NEW p \in Publishers, Register(p) PROVE Sound'
<1> DEFINE s == step[p]
           t == step'[p]
           r == Pipelines[s.pipe]
           last == s.pipe = Len(Pipelines)
           new == [id |-> s.id, names |-> s.names]
<1>1. s.at = "register" /\ ~Busy(r) /\ s # Waiting /\ Changing(p)
  BY DEF Register, Waiting, Changing
<1>2. UNCHANGED <<moment, held, made, snapshots, collecting>>
  BY DEF Register
<1>3. /\ \A q \in Publishers : q # p => step[q] = Waiting /\ ~Changing(q)
      /\ s \in Steps /\ held = p /\ s.id = <<p, made[p]>> /\ made[p] \in Nat
  BY <1>1, Alone
<1>4. /\ s.pipe \in 1 .. Len(Pipelines) /\ r \in Readers /\ Len(Pipelines) \in Nat
      /\ s.id \in Publishers \X Nat /\ s.names \subseteq Gauges /\ new \in Callbacks
      /\ new = New(p)
  BY <1>3, PipelineFacts DEF Steps, Callbacks, New
<1>5. /\ callbacks'[r] = callbacks[r] \cup {new}
      /\ \A q \in Readers : q # r => callbacks'[q] = callbacks[q]
      /\ callbacks' \in [Readers -> SUBSET Callbacks]
  BY <1>4 DEF Register, Sound, Typed
<1>6. t = (IF last THEN DropOld(s) ELSE [s EXCEPT !.pipe = @ + 1])
      /\ \A q \in Publishers : q # p => step'[q] = Waiting /\ ~Changing(q)'
  BY <1>3 DEF Register, Sound, Typed, Changing
<1>7. /\ t \in Steps /\ t.id = s.id /\ t.names = s.names
      /\ ~last => t.at = "register" /\ t.pipe = s.pipe + 1
      /\ last /\ registration # << >> => t.at = "unregister" /\ t.pipe = 1
      /\ last /\ registration = << >> => t.at = "publish"
  <2>1. CASE ~last
    BY <2>1, <1>1, <1>3, <1>4, <1>6, PipelineFacts DEF Steps
  <2>2. CASE last /\ registration # << >>
    <3>1. t = [s EXCEPT !.at = "unregister", !.pipe = 1]
      BY <2>2, <1>6 DEF DropOld, AfterRegister
    <3>2. 1 \in DOMAIN Pipelines
      BY PipelineFacts
    <3>3. t \in Steps /\ t.id = s.id /\ t.names = s.names /\ t.at = "unregister" /\ t.pipe = 1
      BY <3>1, <3>2, <1>3 DEF Steps
    <3> QED BY <2>2, <3>3
  <2>3. CASE last /\ registration = << >>
    BY <2>3, <1>3, <1>6, PipelineFacts DEF Steps, DropOld, KeepOld
  <2> QED BY <2>1, <2>2, <2>3
<1>8. registration' = IF last /\ registration = << >> THEN s.id ELSE registration
  BY <1>7, <1>6 DEF Register
<1>9. step' \in [Publishers -> {Waiting} \cup Steps]
  BY <1>7 DEF Register, Sound, Typed
<1>10. Typed'
  <2>1. registration' \in {<< >>} \cup (Publishers \X Nat)
    BY <1>4, <1>8 DEF Sound, Typed
  <2>2. \A q \in Readers : callbacks[q] \subseteq callbacks'[q]
    BY <1>5
  <2> QED BY <1>2, <1>5, <1>9, <2>1, <2>2 DEF Sound, Typed, IsBatches, Busy
<1>11. s.id # registration /\ s.id # << >>
  BY <1>1, <1>4, Identities DEF Sound, Exclusive
<1>12. Exclusive'
  <2>1. registration' # << >> => registration'[2] <= made[registration'[1]]
    BY <1>3, <1>8 DEF Sound, Exclusive
  <2>2. \A q \in Publishers : step'[q] # Waiting => q = p
    BY <1>6
  <2>3. \A q \in Publishers : Changing(q)' => q = p
    BY <1>6
  <2>4. Changing(p)' => t.id # registration'
    BY <1>7, <1>8, <1>11 DEF Changing
  <2>5. DOMAIN snapshots \cup NamesOf[p] \subseteq s.names
    BY <1>1 DEF Sound, Exclusive
  <2> QED BY <1>2, <1>3, <1>7, <2>1, <2>2, <2>3, <2>4, <2>5 DEF Exclusive
<1>13. Together'
  BY <1>2 DEF Sound, Together, WholeIn
<1>14. \A q \in Readers : \A c \in callbacks'[q] : c \in callbacks[q] \/ c = new
  BY <1>5
<1>15. \A q \in Readers : \A c \in callbacks'[q] : c.id = registration \/ c = new
  <2>1. \A q \in Readers : \A c \in callbacks[q] : c.id = registration \/ c = new
    BY <1>3, <1>4 DEF Sound, Covered
  <2> QED BY <2>1, <1>14
<1>16. \A i \in DOMAIN Pipelines : new \in callbacks'[Pipelines[i]] <=> i < s.pipe + 1
  <2>1. \A i \in DOMAIN Pipelines : new \in callbacks[Pipelines[i]] <=> i < s.pipe
    BY <1>1, <1>4 DEF Sound, Covered
  <2> SUFFICES ASSUME NEW i \in DOMAIN Pipelines PROVE new \in callbacks'[Pipelines[i]] <=> i < s.pipe + 1
    OBVIOUS
  <2>2. CASE i = s.pipe
    BY <2>2, <1>4, <1>5
  <2>3. CASE i # s.pipe
    <3>1. Pipelines[i] # r /\ Pipelines[i] \in Readers /\ i \in Nat
      BY <2>3, <1>4, PipelineFacts
    <3> QED BY <3>1, <2>1, <2>3, <1>4, <1>5
  <2> QED BY <2>2, <2>3
<1>17. Covered'
  <2>1. \A q \in Readers : \A c \in callbacks'[q] : DOMAIN snapshots \subseteq c.names
    BY <1>1, <1>14 DEF Sound, Covered, Exclusive
  <2>2. \A q \in Readers : \A c \in callbacks'[q] :
          c.id = registration' \/ \E o \in Publishers : Changing(o)' /\ c = New(o)'
    <3>1. CASE last /\ registration = << >>
      <4>1. \A q \in Readers : \A c \in callbacks'[q] : c.id # << >>
        BY <1>5 DEF Callbacks
      <4> QED BY <3>1, <4>1, <1>8, <1>15
    <3>2. CASE ~(last /\ registration = << >>)
      <4>1. Changing(p)' /\ New(p)' = new
        BY <3>2, <1>7 DEF Changing, New
      <4> QED BY <3>2, <4>1, <1>8, <1>15
    <3> QED BY <3>1, <3>2
  <2>3. \A q \in Readers : \A c, d \in callbacks'[q] : c.id = d.id => c = d
    <3>1. \A q \in Readers : \A c, d \in callbacks[q] : c.id = d.id => c = d
      BY DEF Sound, Covered
    <3> QED BY <3>1, <1>11, <1>14, <1>15
  <2>4. registration' # << >> => \A q \in Readers : callbacks'[q] # {}
    <3>1. CASE last
      <4>1. \A i \in DOMAIN Pipelines : new \in callbacks'[Pipelines[i]]
        BY <3>1, <1>16, <1>4, PipelineFacts
      <4> QED BY <4>1, PipelineFacts
    <3>2. CASE ~last
      BY <3>2, <1>8, <1>5 DEF Sound, Covered
    <3> QED BY <3>1, <3>2
  <2>5. DOMAIN snapshots # {} => registration' # << >>
    BY <1>8, <1>11 DEF Sound, Covered
  <2>6. t.at = "register" => \A i \in DOMAIN Pipelines : new \in callbacks'[Pipelines[i]] <=> i < t.pipe
    BY <1>7, <1>16
  <2>7. t.at = "unregister" => \A i \in DOMAIN Pipelines : new \in callbacks'[Pipelines[i]] /\ ~(i < t.pipe)
    <3> SUFFICES ASSUME t.at = "unregister", NEW i \in DOMAIN Pipelines
                 PROVE  new \in callbacks'[Pipelines[i]] /\ ~(i < t.pipe)
      OBVIOUS
    <3>1. last /\ t.pipe = 1
      BY <1>7
    <3> QED BY <3>1, <1>16, <1>4, PipelineFacts
  <2>8. t.at = "publish" =>
          registration' # << >> /\ \A q \in Readers : \A c \in callbacks'[q] : NamesOf[p] \subseteq c.names
    <3> SUFFICES ASSUME t.at = "publish"
                 PROVE  registration' # << >> /\ \A q \in Readers : \A c \in callbacks'[q] : NamesOf[p] \subseteq c.names
      OBVIOUS
    <3>1. last /\ registration = << >>
      BY <1>7
    <3>2. \A q \in Readers : \A c \in callbacks'[q] : c = new
      BY <3>1, <1>5, <1>15 DEF Callbacks
    <3>3. NamesOf[p] \subseteq s.names
      BY <1>1 DEF Sound, Exclusive
    <3> QED BY <3>1, <3>2, <3>3, <1>8, <1>11
  <2>9. New(p)' = new
    BY <1>7 DEF New
  <2>10. \A q \in Publishers : step'[q].at \in {"register", "unregister", "publish"} => q = p
    BY <1>6 DEF Waiting
  <2> QED BY <1>2, <2>1, <2>2, <2>3, <2>4, <2>5, <2>6, <2>7, <2>8, <2>9, <2>10 DEF Covered
<1>18. Collected'
  BY <1>1, <1>2, <1>5, CollectedKept
<1> QED BY <1>10, <1>12, <1>13, <1>17, <1>18 DEF Sound

LEMMA UnregisterKeeps == ASSUME Sound, NEW p \in Publishers, Unregister(p) PROVE Sound'
<1> DEFINE s == step[p]
           t == step'[p]
           r == Pipelines[s.pipe]
           last == s.pipe = Len(Pipelines)
           new == [id |-> s.id, names |-> s.names]
<1>1. s.at = "unregister" /\ ~Busy(r) /\ s # Waiting /\ Changing(p)
  BY DEF Unregister, Waiting, Changing
<1>2. UNCHANGED <<moment, held, made, snapshots, collecting>>
  BY DEF Unregister
<1>3. /\ \A q \in Publishers : q # p => step[q] = Waiting /\ ~Changing(q)
      /\ s \in Steps /\ held = p /\ s.id = <<p, made[p]>> /\ made[p] \in Nat
  BY <1>1, Alone
<1>4. /\ s.pipe \in 1 .. Len(Pipelines) /\ r \in Readers /\ Len(Pipelines) \in Nat
      /\ s.id \in Publishers \X Nat /\ new = New(p)
  BY <1>3, PipelineFacts DEF Steps, New
<1>5. /\ callbacks'[r] = {c \in callbacks[r] : c.id # registration}
      /\ \A q \in Readers : q # r => callbacks'[q] = callbacks[q]
      /\ callbacks' \in [Readers -> SUBSET Callbacks]
  BY <1>4 DEF Unregister, Sound, Typed
<1>6. t = (IF last THEN [s EXCEPT !.at = "publish"] ELSE [s EXCEPT !.pipe = @ + 1])
      /\ \A q \in Publishers : q # p => step'[q] = Waiting /\ ~Changing(q)'
  BY <1>3 DEF Unregister, Sound, Typed, Changing
<1>7. /\ t \in Steps /\ t.id = s.id /\ t.names = s.names
      /\ ~last => t.at = "unregister" /\ t.pipe = s.pipe + 1
      /\ last => t.at = "publish"
  <2>1. CASE ~last
    BY <2>1, <1>1, <1>3, <1>4, <1>6, PipelineFacts DEF Steps
  <2>2. CASE last
    BY <2>2, <1>3, <1>6 DEF Steps
  <2> QED BY <2>1, <2>2
<1>8. registration' = IF last THEN s.id ELSE registration
  BY DEF Unregister
<1>9. step' \in [Publishers -> {Waiting} \cup Steps]
  BY <1>7 DEF Unregister, Sound, Typed
<1>10. Typed'
  <2>1. registration' \in {<< >>} \cup (Publishers \X Nat)
    BY <1>4, <1>8 DEF Sound, Typed
  <2>2. \A q \in Readers : Busy(q) => callbacks[q] = callbacks'[q]
    BY <1>1, <1>5
  <2> QED BY <1>2, <1>5, <1>9, <2>1, <2>2 DEF Sound, Typed, IsBatches, Busy
<1>11. s.id # registration /\ s.id # << >>
  BY <1>1, <1>4, Identities DEF Sound, Exclusive
<1>12. Exclusive'
  <2>1. registration' # << >> => registration'[2] <= made[registration'[1]]
    BY <1>3, <1>8 DEF Sound, Exclusive
  <2>2. \A q \in Publishers : step'[q] # Waiting => q = p
    BY <1>6
  <2>3. \A q \in Publishers : Changing(q)' => q = p
    BY <1>6
  <2>4. Changing(p)' => t.id # registration'
    BY <1>7, <1>8, <1>11 DEF Changing
  <2>5. DOMAIN snapshots \cup NamesOf[p] \subseteq s.names
    BY <1>1 DEF Sound, Exclusive
  <2> QED BY <1>2, <1>3, <1>7, <2>1, <2>2, <2>3, <2>4, <2>5 DEF Exclusive
<1>13. Together'
  BY <1>2 DEF Sound, Together, WholeIn
<1>14. \A q \in Readers : callbacks'[q] \subseteq callbacks[q]
  BY <1>5
<1>15. \A q \in Readers : \A c \in callbacks'[q] : c.id = registration \/ c = new
  BY <1>3, <1>4, <1>14 DEF Sound, Covered
<1>16. \A i \in DOMAIN Pipelines :
         /\ new \in callbacks'[Pipelines[i]]
         /\ i < s.pipe + 1 => \A c \in callbacks'[Pipelines[i]] : c.id # registration
  <2> SUFFICES ASSUME NEW i \in DOMAIN Pipelines
               PROVE  /\ new \in callbacks'[Pipelines[i]]
                      /\ i < s.pipe + 1 => \A c \in callbacks'[Pipelines[i]] : c.id # registration
    OBVIOUS
  <2>1. /\ new \in callbacks[Pipelines[i]]
        /\ i < s.pipe => \A c \in callbacks[Pipelines[i]] : c.id # registration
    BY <1>1, <1>4 DEF Sound, Covered
  <2>2. Pipelines[i] \in Readers /\ i \in Nat
    BY PipelineFacts
  <2>3. CASE i = s.pipe
    BY <2>1, <2>3, <1>5, <1>11
  <2>4. CASE i # s.pipe
    <3>1. Pipelines[i] # r
      BY <2>4, <1>4, PipelineFacts
    <3>2. callbacks'[Pipelines[i]] = callbacks[Pipelines[i]]
      BY <3>1, <2>2, <1>5
    <3>3. i < s.pipe + 1 => i < s.pipe
      BY <2>2, <2>4, <1>4
    <3> QED BY <3>2, <3>3, <2>1
  <2> QED BY <2>3, <2>4
<1>17. last => \A q \in Readers : \A c \in callbacks'[q] : c = new
  <2> SUFFICES ASSUME last, NEW q \in Readers, NEW c \in callbacks'[q] PROVE c = new
    OBVIOUS
  <2>1. PICK i \in DOMAIN Pipelines : Pipelines[i] = q
    BY PipelineFacts
  <2>2. i < s.pipe + 1
    BY <1>4, PipelineFacts
  <2> QED BY <2>1, <2>2, <1>15, <1>16
<1>18. Covered'
  <2>1. \A q \in Readers : \A c \in callbacks'[q] : DOMAIN snapshots \subseteq c.names
    BY <1>14 DEF Sound, Covered
  <2>2. New(p)' = new
    BY <1>7 DEF New
  <2>3. \A q \in Readers : \A c \in callbacks'[q] :
          c.id = registration' \/ \E o \in Publishers : Changing(o)' /\ c = New(o)'
    <3>1. CASE last
      BY <3>1, <1>8, <1>17
    <3>2. CASE ~last
      <4>1. Changing(p)'
        BY <3>2, <1>7 DEF Changing
      <4> QED BY <3>2, <4>1, <2>2, <1>8, <1>15
    <3> QED BY <3>1, <3>2
  <2>4. \A q \in Readers : \A c, d \in callbacks'[q] : c.id = d.id => c = d
    BY <1>14 DEF Sound, Covered
  <2>5. \A q \in Readers : callbacks'[q] # {}
    BY <1>16, PipelineFacts
  <2>6. DOMAIN snapshots # {} => registration' # << >>
    BY <1>8, <1>11 DEF Sound, Covered
  <2>7. t.at = "unregister" =>
          \A i \in DOMAIN Pipelines :
            /\ new \in callbacks'[Pipelines[i]]
            /\ i < t.pipe => \A c \in callbacks'[Pipelines[i]] : c.id # registration'
    BY <1>7, <1>8, <1>16
  <2>8. t.at = "publish" =>
          registration' # << >> /\ \A q \in Readers : \A c \in callbacks'[q] : NamesOf[p] \subseteq c.names
    <3>1. NamesOf[p] \subseteq s.names
      BY <1>1 DEF Sound, Exclusive
    <3> QED BY <3>1, <1>7, <1>8, <1>11, <1>17
  <2>9. t.at # "register" /\ \A q \in Publishers : step'[q].at \in {"register", "unregister", "publish"} => q = p
    BY <1>6, <1>7 DEF Waiting
  <2> QED BY <1>2, <2>1, <2>2, <2>3, <2>4, <2>5, <2>6, <2>7, <2>8, <2>9 DEF Covered
<1>19. Collected'
  BY <1>1, <1>2, <1>5, CollectedKept
<1> QED BY <1>10, <1>12, <1>13, <1>18, <1>19 DEF Sound

LEMMA PublishKeeps == ASSUME Sound, NEW p \in Publishers, Publish(p) PROVE Sound'
<1> DEFINE batch == [generation |-> made[p], expires |-> moment + TTL]
<1>1. UNCHANGED <<moment, made, callbacks, registration, collecting>> /\ Leave(p)
  BY DEF Publish
<1>2. step[p].at = "publish" /\ step[p] # Waiting /\ ~Changing(p)
  BY DEF Publish, Waiting, Changing
<1>3. /\ \A q \in Publishers : step'[q] = Waiting
      /\ step' \in [Publishers -> {Waiting} \cup Steps] /\ held' = NoOne
      /\ Exclusive'
      /\ \A r \in Readers : \A c, d \in callbacks[r] : c.id = registration /\ c = d
  BY <1>1, <1>2, LeaveKeeps
<1>4. /\ DOMAIN snapshots' = DOMAIN snapshots \cup NamesOf[p]
      /\ \A n \in NamesOf[p] : snapshots'[n] = batch
      /\ \A n \in DOMAIN snapshots : n \notin NamesOf[p] => snapshots'[n] = snapshots[n]
  BY DEF Publish
<1>5. \A q \in Publishers : q # p => \A n \in NamesOf[q] : n \notin NamesOf[p]
  BY SnapshotAssumption
<1>6. moment \in Nat /\ TTL \in Nat /\ made[p] \in Nat /\ batch.generation = made[p] /\ batch.expires = moment + TTL
  BY SnapshotAssumption DEF Sound, Typed
<1>7. Typed'
  <2>1. NamesOf[p] \subseteq Gauges
    BY DEF Gauges
  <2>2. IsBatches(snapshots)'
    BY <2>1, <1>4, <1>6 DEF IsBatches, Sound, Typed
  <2> QED BY <1>1, <1>3, <2>2 DEF Sound, Typed, IsBatches, Busy
<1>8. Together'
  <2>1. \A q \in Publishers : WholeIn(snapshots, q)'
    BY <1>4, <1>5 DEF Sound, Together, WholeIn
  <2>2. ASSUME NEW q \in Publishers, NEW n \in NamesOf[q], n \in DOMAIN snapshots'
        PROVE  snapshots'[n].generation <= made[q] /\ snapshots'[n].expires <= moment + TTL
    <3>1. CASE q = p
      BY <3>1, <1>4, <1>6
    <3>2. CASE q # p
      BY <3>2, <2>2, <1>4, <1>5 DEF Sound, Together
    <3> QED BY <3>1, <3>2
  <2> QED BY <1>1, <2>1, <2>2 DEF Together
<1>9. Covered'
  BY <1>1, <1>2, <1>3, <1>4 DEF Sound, Covered, Waiting
<1>10. ASSUME NEW r \in Readers, Busy(r)
       PROVE  /\ NoOlder(collecting[r].before)'
              /\ (collecting[r].todo # {})' => Underway(r)'
              /\ (collecting[r].todo = {})' => Over(r)'
  <2> DEFINE f == collecting[r].before
  <2>1. NoOlder(f)'
    <3> SUFFICES ASSUME NEW q \in Publishers, NEW n \in NamesOf[q], n \in DOMAIN f
                 PROVE  /\ n \in DOMAIN snapshots'
                        /\ f[n].generation <= snapshots'[n].generation
                        /\ f[n].expires <= snapshots'[n].expires
      BY <1>1, <1>10 DEF NoOlder, WholeIn, Sound, Collected
    <3>1. /\ n \in DOMAIN snapshots
          /\ f[n].generation <= snapshots[n].generation
          /\ f[n].expires <= snapshots[n].expires
          /\ f[n].generation \in Nat /\ f[n].expires \in Nat
      BY <1>10 DEF Sound, Collected, NoOlder, Typed, IsBatches
    <3>2. /\ snapshots[n].generation <= made[q] /\ snapshots[n].expires <= moment + TTL
          /\ snapshots[n].generation \in Nat /\ snapshots[n].expires \in Nat
      BY <3>1 DEF Sound, Together, Typed, IsBatches
    <3>3. CASE q = p
      BY <3>1, <3>2, <3>3, <1>4, <1>6
    <3>4. CASE q # p
      BY <3>1, <3>4, <1>4, <1>5
    <3> QED BY <3>3, <3>4
  <2>2. ASSUME collecting[r].todo # {} PROVE Underway(r)'
    <3>1. collecting[r].todo = callbacks[r]
      <4>1. collecting[r].todo \subseteq callbacks[r]
        BY <1>10 DEF Sound, Typed
      <4>2. PICK c \in collecting[r].todo : TRUE
        BY <2>2
      <4>3. \A d \in callbacks[r] : d = c
        BY <4>1, <4>2, <1>3
      <4> QED BY <4>1, <4>2, <4>3
    <3>2. collecting[r].seen = {}
      BY <3>1, <2>2, <1>10 DEF Sound, Collected, Underway
    <3> QED BY <3>2, <1>1 DEF Underway, SeenWhole, SeenOf
  <2>3. Over(r) => Over(r)'
    BY <1>1 DEF Over, GenerationsSeen
  <2> QED BY <1>1, <1>10, <2>1, <2>2, <2>3 DEF Sound, Collected
<1>11. Collected'
  BY <1>1, <1>10 DEF Collected, Busy
<1> QED BY <1>3, <1>7, <1>8, <1>9, <1>11 DEF Sound

LEMMA PassKeeps == ASSUME Sound, Pass PROVE Sound'
<1>1. /\ UNCHANGED <<held, step, made, snapshots, callbacks, registration, collecting>>
      /\ moment \in Nat /\ moment' = moment + 1 /\ TTL \in Nat
  BY SnapshotAssumption DEF Pass, Sound, Typed
<1>2. Typed'
  BY <1>1 DEF Sound, Typed, IsBatches, Busy
<1>3. Exclusive'
  BY <1>1 DEF Sound, Exclusive, Changing
<1>4. Together'
  <2> SUFFICES ASSUME NEW q \in Publishers, NEW n \in NamesOf[q], n \in DOMAIN snapshots
               PROVE  snapshots[n].expires <= moment' + TTL
    BY <1>1 DEF Sound, Together, WholeIn
  <2>1. snapshots[n].expires \in Nat /\ snapshots[n].expires <= moment + TTL
    BY DEF Sound, Together, Typed, IsBatches
  <2> QED BY <2>1, <1>1
<1>5. Covered'
  BY <1>1 DEF Sound, Covered, Changing, New
<1>6. ASSUME NEW r \in Readers, Busy(r)
      PROVE  /\ NoOlder(collecting[r].before)'
             /\ (collecting[r].todo # {})' => Underway(r)'
             /\ (collecting[r].todo = {})' => Over(r)'
  <2>1. NoOlder(collecting[r].before)'
    BY <1>1, <1>6 DEF NoOlder, WholeIn, Sound, Collected
  <2>2. Underway(r) => Underway(r)'
    BY <1>1 DEF Underway, SeenWhole, SeenOf
  <2>3. ASSUME Over(r) PROVE Over(r)'
    <3> DEFINE f == collecting[r].before
    <3>1. ASSUME NEW q \in Publishers, NamesOf[q] \subseteq DOMAIN f, NEW n \in NamesOf[q], moment >= f[n].expires
          PROVE  moment' >= f[n].expires
      <4>1. f[n].expires \in Nat
        BY <3>1, <1>6 DEF Sound, Typed, IsBatches
      <4> QED BY <3>1, <4>1, <1>1
    <3>2. collecting'[r].before = f /\ \A q \in Publishers : GenerationsSeen(r, q)' = GenerationsSeen(r, q)
      BY <1>1 DEF GenerationsSeen
    <3> QED BY <1>1, <2>3, <3>1, <3>2 DEF Over
  <2> QED BY <1>1, <1>6, <2>1, <2>2, <2>3 DEF Sound, Collected
<1>7. Collected'
  BY <1>1, <1>6 DEF Collected, Busy
<1> QED BY <1>2, <1>3, <1>4, <1>5, <1>7 DEF Sound

-----------------------------------------------------------------------------
LEMMA StutterKeeps == ASSUME Sound, UNCHANGED gauges PROVE Sound'
<1>1. UNCHANGED <<moment, held, step, made, snapshots, callbacks, registration, collecting>>
  BY DEF gauges
<1>2. Exclusive' /\ Together' /\ Covered'
  BY <1>1, CollectionFrame
<1>3. Typed'
  BY <1>1 DEF Sound, Typed, IsBatches, Busy
<1>4. Collected'
  BY <1>1, CollectedKept
<1> QED BY <1>2, <1>3, <1>4 DEF Sound

\* No collection mixes two snapshots of a batch, misses one or goes back to an
\* older one, whoever publishes meanwhile and whenever the callbacks change
\* (observeSnapshots, GaugeSnapshots).
THEOREM OneGenerationSeen == GaugesSpec => []OneGeneration
<1>1. ASSUME Sound, GaugesNext PROVE Sound'
  <2>1. ASSUME NEW r \in Readers, StartCollection(r) \/ RunCallback(r) \/ EndCollection(r) PROVE Sound'
    BY <1>1, <2>1, StartKeeps, RunKeeps, EndKeeps
  <2>2. ASSUME NEW p \in Publishers, Enter(p) \/ Refuse(p) \/ Cancelled(p) PROVE Sound'
    BY <1>1, <2>2, EnterKeeps, RefuseKeeps, CancelledKeeps
  <2>3. ASSUME NEW p \in Publishers, Register(p) \/ Unregister(p) \/ Publish(p) PROVE Sound'
    BY <1>1, <2>3, RegisterKeeps, UnregisterKeeps, PublishKeeps
  <2> QED BY <1>1, <2>1, <2>2, <2>3, PassKeeps DEF GaugesNext
<1>2. Sound => OneGeneration
  BY DEF Sound, Collected, Over, OneGeneration
<1> QED BY <1>1, <1>2, SoundAtFirst, StutterKeeps, PTL DEF GaugesSpec

-----------------------------------------------------------------------------
(* IdentityOutcomes, for any number of snapshots, outcomes and indexes.     *)

Counts == [Outcomes -> Nat]

\* The state that the identity outcomes rest on has its type (Stats).
OutcomeTypes ==
  /\ sources \in Seq(Counts) /\ added \in Seq(Counts)
  /\ Len(sources) >= 1 /\ Len(added) = Len(sources)
  /\ identityLast \in Counts
  /\ snapshot = [n \in Snapshots |-> snapshot[n]]

\* A snapshot that adds holds the mutex; what it has read has been counted, and
\* what it has still to add is no less than the baseline.
Adding ==
  \A n \in Snapshots : snapshot[n].at = "add" =>
    /\ snapshot[n] \in [at : {"add"}, counts : Counts, left : SUBSET Outcomes]
    /\ identityMu = {n}
    /\ \A o \in Outcomes :
         /\ snapshot[n].counts[o] <= sources[Epoch][o]
         /\ o \in snapshot[n].left => identityLast[o] <= snapshot[n].counts[o]

Told == OutcomeTypes /\ Adding /\ OutcomesTold

-----------------------------------------------------------------------------

LEMMA ToldAtFirst == OutcomesInit => Told
<1> SUFFICES ASSUME OutcomesInit PROVE Told
  OBVIOUS
<1>1. Zero \in Counts
  BY DEF Zero, Counts
<1>2. OutcomeTypes
  BY <1>1 DEF OutcomesInit, OutcomeTypes, Away
<1>3. Adding
  BY DEF OutcomesInit, Adding, Away
<1>4. OutcomesTold
  <2>1. DOMAIN added = {1} /\ Epoch = 1 /\ added[1] = Zero /\ sources[1] = Zero /\ identityLast = Zero
    BY DEF OutcomesInit, Epoch
  <2>2. \A o \in Outcomes : Zero[o] <= Zero[o]
    BY DEF Zero
  <2> QED BY <2>1, <2>2 DEF OutcomesTold
<1> QED BY <1>2, <1>3, <1>4 DEF Told

LEMMA CountKeeps == ASSUME Told, NEW o \in Outcomes, CountOutcome(o) PROVE Told'
<1>1. /\ Epoch \in DOMAIN sources /\ DOMAIN added = DOMAIN sources
      /\ \A e \in DOMAIN sources : sources[e] \in Counts /\ added[e] \in Counts
  BY DEF Told, OutcomeTypes, Epoch
<1>2. \A c \in Counts, p \in Outcomes : c[p] \in Nat
  BY DEF Counts
<1> DEFINE more == [sources[Epoch] EXCEPT ![o] = @ + 1]
<1>3. more \in Counts
  BY <1>1, <1>2 DEF Counts
<1>4. \A p \in Outcomes : sources[Epoch][p] <= more[p]
  <2> TAKE p \in Outcomes
  <2>1. more[p] \in {sources[Epoch][p], sources[Epoch][p] + 1} /\ sources[Epoch][p] \in Nat
    BY <1>1, <1>2 DEF Counts
  <2> QED BY <2>1
<1> HIDE DEF more
<1>5. sources' = [sources EXCEPT ![Epoch] = more]
  BY DEF CountOutcome, more
<1>6. /\ sources' \in Seq(Counts) /\ Len(sources') = Len(sources) /\ Epoch' = Epoch
      /\ DOMAIN sources' = DOMAIN sources
      /\ \A e \in DOMAIN sources : sources'[e] = IF e = Epoch THEN more ELSE sources[e]
  BY <1>1, <1>3, <1>5 DEF Told, OutcomeTypes, Epoch
<1>7. \A e \in DOMAIN sources, p \in Outcomes, k \in Nat : k <= sources[e][p] => k <= sources'[e][p]
  <2> TAKE e \in DOMAIN sources, p \in Outcomes, k \in Nat
  <2>1. /\ sources[e][p] \in Nat /\ sources'[e][p] \in Nat
        /\ sources[e][p] <= sources'[e][p]
    BY <1>1, <1>2, <1>3, <1>4, <1>6
  <2> QED BY <2>1
<1>8. UNCHANGED <<added, identityLast, identityMu, snapshot>>
  BY DEF CountOutcome
<1>9. OutcomeTypes'
  BY <1>6, <1>8 DEF Told, OutcomeTypes
<1>10. Adding'
  <2> SUFFICES ASSUME NEW n \in Snapshots, snapshot[n].at = "add"
               PROVE  \A p \in Outcomes : snapshot[n].counts[p] <= sources'[Epoch][p]
    BY <1>6, <1>8 DEF Told, Adding
  <2>1. snapshot[n].counts \in Counts /\ \A p \in Outcomes : snapshot[n].counts[p] <= sources[Epoch][p]
    BY DEF Told, Adding
  <2> QED BY <2>1, <1>1, <1>2, <1>7
<1>11. OutcomesTold'
  BY <1>1, <1>2, <1>6, <1>7, <1>8 DEF Told, OutcomesTold
<1> QED BY <1>9, <1>10, <1>11 DEF Told

LEMMA AttachKeeps == ASSUME Told, Attach PROVE Told'
<1> USE DEF Told, OutcomeTypes, Epoch
<1>1. Zero \in Counts /\ \A o \in Outcomes : Zero[o] = 0
  BY DEF Zero, Counts
<1>2. OutcomeTypes'
  BY <1>1 DEF Attach
<1>3. Adding'
  BY DEF Attach, Adding
<1>4. OutcomesTold'
  BY <1>1 DEF Attach, OutcomesTold
<1> QED BY <1>2, <1>3, <1>4

LEMMA EnterIdentityKeeps == ASSUME Told, NEW n \in Snapshots, EnterIdentity(n) PROVE Told'
<1> USE DEF Told, OutcomeTypes
<1>1. sources[Epoch] \in Counts /\ Epoch \in DOMAIN added
  BY DEF Epoch
<1>2. OutcomeTypes'
  BY DEF EnterIdentity
<1>3. \A m \in Snapshots : snapshot[m].at # "add"
  BY DEF EnterIdentity, MutexFree, Adding
<1>4. \A o \in Outcomes : identityLast[o] <= sources[Epoch][o] /\ sources[Epoch][o] \in Nat
  BY <1>1 DEF OutcomesTold, Counts
<1>5. /\ snapshot'[n] = [at |-> "add", counts |-> sources[Epoch], left |-> Outcomes]
      /\ \A m \in Snapshots : m # n => snapshot'[m] = snapshot[m]
  BY DEF EnterIdentity
<1>6. Adding'
  BY <1>1, <1>3, <1>4, <1>5 DEF EnterIdentity, Adding, Epoch
<1>7. OutcomesTold'
  BY DEF EnterIdentity, OutcomesTold, Epoch
<1> QED BY <1>2, <1>6, <1>7

LEMMA AddKeeps ==
  ASSUME Told, NEW n \in Snapshots, NEW o \in Outcomes, AddAccepted(n, o) \/ AddRefused(n, o)
  PROVE  Told'
<1> DEFINE s == snapshot[n]
           last == identityLast'
<1>1. /\ s \in [at : {"add"}, counts : Counts, left : SUBSET Outcomes] /\ o \in s.left
      /\ identityMu = {n}
      /\ \A p \in Outcomes : s.counts[p] <= sources[Epoch][p]
      /\ \A p \in s.left : identityLast[p] <= s.counts[p]
  BY DEF AddAccepted, AddRefused, Told, Adding
<1>2. /\ UNCHANGED <<sources, identityMu>>
      /\ \A m \in Snapshots : m # n => snapshot'[m] = snapshot[m]
      /\ snapshot'[n] = [s EXCEPT !.left = @ \ {o}]
      /\ snapshot' = [m \in Snapshots |-> snapshot'[m]]
  BY DEF AddAccepted, AddRefused, Told, OutcomeTypes
<1>3. \A m \in Snapshots : snapshot'[m].at = "add" => m = n
  BY <1>1, <1>2 DEF Told, Adding
<1>4. /\ identityLast' \in Counts
      /\ \A p \in Outcomes \ {o} : identityLast'[p] = identityLast[p]
      /\ identityLast'[o] \in {identityLast[o], s.counts[o]}
  BY <1>1 DEF AddAccepted, AddRefused, BaselineStays, Told, OutcomeTypes, Counts
<1>5. /\ added' \in Seq(Counts) /\ Len(added') = Len(added)
      /\ \A e \in DOMAIN added \ {Epoch} : added'[e] = added[e]
      /\ \A p \in Outcomes : added'[Epoch][p] = identityLast'[p]
  <2>1. CASE AddRefused(n, o)
    BY <2>1 DEF AddRefused, BaselineStays, Told, OutcomeTypes, OutcomesTold
  <2>2. CASE AddAccepted(n, o)
    <3>1. Delta(s.counts[o], identityLast[o]) = s.counts[o] - identityLast[o]
      BY <1>1 DEF Delta
    <3>2. /\ s.counts[o] \in Nat /\ identityLast[o] \in Nat /\ identityLast[o] <= s.counts[o]
          /\ added[Epoch][o] = identityLast[o]
      BY <1>1 DEF Told, OutcomeTypes, OutcomesTold, Counts
    <3>3. added[Epoch][o] + Delta(s.counts[o], identityLast[o]) = s.counts[o]
      BY <3>1, <3>2
    <3>4. /\ added' = [added EXCEPT ![Epoch] = [added[Epoch] EXCEPT ![o] = s.counts[o]]]
          /\ identityLast' = [identityLast EXCEPT ![o] = s.counts[o]]
      BY <2>2, <3>3 DEF AddAccepted
    <3>5. Epoch \in DOMAIN added /\ added[Epoch] \in Counts
      BY DEF Told, OutcomeTypes, Epoch
    <3>6. [added[Epoch] EXCEPT ![o] = s.counts[o]] \in Counts
      BY <3>2, <3>5 DEF Counts
    <3>7. \A p \in Outcomes : [added[Epoch] EXCEPT ![o] = s.counts[o]][p] = identityLast'[p]
      BY <3>4, <3>5 DEF Told, OutcomeTypes, OutcomesTold, Counts
    <3> QED BY <3>4, <3>5, <3>6, <3>7 DEF Told, OutcomeTypes
  <2> QED BY <2>1, <2>2
<1>6. OutcomeTypes'
  BY <1>2, <1>4, <1>5 DEF Told, OutcomeTypes
<1>7. Adding'
  <2> SUFFICES ASSUME NEW m \in Snapshots, snapshot'[m].at = "add"
               PROVE  /\ snapshot'[m] \in [at : {"add"}, counts : Counts, left : SUBSET Outcomes]
                      /\ identityMu' = {m}
                      /\ \A p \in Outcomes :
                           /\ snapshot'[m].counts[p] <= sources'[Epoch'][p]
                           /\ p \in snapshot'[m].left => identityLast'[p] <= snapshot'[m].counts[p]
    BY DEF Adding
  <2>1. m = n
    BY <1>3
  <2>2. /\ snapshot'[n] \in [at : {"add"}, counts : Counts, left : SUBSET Outcomes]
        /\ snapshot'[n].counts = s.counts /\ snapshot'[n].left = s.left \ {o}
    BY <1>1, <1>2
  <2>3. \A p \in s.left \ {o} : identityLast'[p] <= s.counts[p]
    BY <1>1, <1>4
  <2> QED BY <2>1, <2>2, <2>3, <1>1, <1>2 DEF Epoch
<1>8. OutcomesTold'
  <2>1. Epoch' = Epoch
    BY <1>2 DEF Epoch
  <2>2. \A p \in Outcomes : added'[Epoch][p] <= sources[Epoch][p]
    <3> TAKE p \in Outcomes
    <3>1. identityLast[p] <= sources[Epoch][p]
      BY DEF Told, OutcomeTypes, OutcomesTold, Epoch
    <3> QED BY <3>1, <1>1, <1>4, <1>5
  <2>3. \A p \in Outcomes : \A e \in DOMAIN added' : added'[e][p] <= sources'[e][p]
    <3> TAKE p \in Outcomes
    <3> TAKE e \in DOMAIN added'
    <3>1. e \in DOMAIN added
      BY <1>5 DEF Told, OutcomeTypes
    <3>2. CASE e = Epoch
      BY <3>2, <2>2, <1>2
    <3>3. CASE e # Epoch
      <4>1. added'[e] = added[e] /\ sources' = sources
        BY <3>1, <3>3, <1>2, <1>5
      <4> QED BY <4>1, <3>1 DEF Told, OutcomesTold
    <3> QED BY <3>2, <3>3
  <2> QED BY <2>1, <2>3, <1>5 DEF OutcomesTold
<1> QED BY <1>6, <1>7, <1>8 DEF Told

LEMMA ToldKept == Told /\ [OutcomesNext]_outcomes => Told'
<1> SUFFICES ASSUME Told, [OutcomesNext]_outcomes PROVE Told'
  OBVIOUS
<1> USE DEF Told, OutcomeTypes
<1>1. ASSUME NEW n \in Snapshots, LeaveIdentity(n) PROVE Told'
  <2>1. /\ UNCHANGED <<sources, added, identityLast>>
        /\ snapshot' = [m \in Snapshots |-> snapshot'[m]]
    BY <1>1 DEF LeaveIdentity
  <2>2. \A m \in Snapshots : snapshot'[m].at # "add"
    BY <1>1 DEF LeaveIdentity, Adding, Away
  <2>3. Adding' /\ OutcomesTold' /\ OutcomeTypes'
    BY <2>1, <2>2 DEF Adding, OutcomesTold, Epoch
  <2> QED BY <2>3
<1>2. CASE UNCHANGED outcomes
  BY <1>2 DEF outcomes, Adding, OutcomesTold, Epoch
<1> QED BY <1>1, <1>2, CountKeeps, AttachKeeps, EnterIdentityKeeps, AddKeeps DEF OutcomesNext

\* Whichever snapshots run together, whichever adds are refused and however
\* often an index is replaced: the counters tell no look-up that was not counted,
\* and of the current index exactly those of the accepted adds (collectIdentity).
THEOREM OutcomesExact == OutcomesSpec => []OutcomesTold
<1>1. Told => OutcomesTold
  BY DEF Told
<1> QED BY <1>1, ToldAtFirst, ToldKept, PTL DEF OutcomesSpec

-----------------------------------------------------------------------------
(* LoginEvidence, for any log, windows, limits and order of failures.       *)

\* A set of numbers has a least one.
LEMMA LeastNumber ==
  ASSUME NEW T \in SUBSET Nat, T # {}
  PROVE  \E x \in T : \A y \in T : x <= y
  <1>1. IsWellFoundedOn(OpToRel(<, Nat), Nat)
    BY NatLessThanWellFounded
  <1>2. PICK x \in T : \A y \in T : ~ (<<y, x>> \in OpToRel(<, Nat))
    BY <1>1, WFMin
  <1>3. \A y \in T : ~ (y < x)
    BY <1>2 DEF OpToRel
  <1> QED BY <1>3

-----------------------------------------------------------------------------
(* The order of logins and the highest of a set of them.                    *)

Drawn == logins \in LoginWorlds /\ digest \in Digests

LEMMA LoginsKnown ==
  ASSUME Drawn
  PROVE  /\ IsFiniteSet(logins) /\ \A r, o \in logins : r.id = o.id => r = o
         /\ \A r \in logins : r.at \in Nat /\ r.delay \in Nat /\ r.id \in Nat /\ digest[r.id] \in Nat
         /\ \A r, o \in logins : digest[r.id] = digest[o.id] => r = o
  BY EvidenceAssumption DEF Drawn

LEMMA LessOrder ==
  ASSUME Drawn
  PROVE  /\ \A r \in logins : ~Less(r, r)
         /\ \A r, o \in logins : Less(r, o) => ~Less(o, r)
         /\ \A r, o \in logins : r = o \/ Less(r, o) \/ Less(o, r)
         /\ \A r, o, t \in logins : Less(r, o) /\ Less(o, t) => Less(r, t)
  BY LoginsKnown DEF Less

\* The lowest row of a set.
LEMMA Lowest ==
  ASSUME Drawn, NEW rows \in SUBSET logins, rows # {}
  PROVE  LowestOf(rows) \in rows /\ \A o \in rows \ {LowestOf(rows)} : Less(LowestOf(rows), o)
  <1> DEFINE under(r) == {o \in rows : Less(o, r)}
             sizes == {Cardinality(under(r)) : r \in rows}
  <1>1. IsFiniteSet(rows)
    BY LoginsKnown, FS_Subset
  <1>2. ASSUME NEW r \in rows PROVE IsFiniteSet(under(r)) /\ Cardinality(under(r)) \in Nat
    <2>1. under(r) \in SUBSET rows
      OBVIOUS
    <2> HIDE DEF under
    <2> QED BY <1>1, <2>1, FS_Subset, FS_CardinalityType
  <1>3. sizes \in SUBSET Nat /\ sizes # {}
    BY <1>2
  <1>4. PICK n \in sizes : \A m \in sizes : n <= m
    BY <1>3, LeastNumber
  <1>5. PICK r \in rows : Cardinality(under(r)) = n
    BY <1>4
  <1>6. ASSUME NEW o \in rows, Less(o, r) PROVE FALSE
    <2>1. under(o) \in SUBSET under(r) /\ o \in under(r) /\ o \notin under(o)
      BY <1>6, LessOrder
    <2>2. Cardinality(under(r)) <= Cardinality(under(o))
      BY <1>4, <1>5
    <2> HIDE DEF under
    <2>3. Cardinality(under(o)) <= Cardinality(under(r)) /\ Cardinality(under(o)) \in Nat /\ Cardinality(under(r)) \in Nat
          /\ (Cardinality(under(r)) = Cardinality(under(o)) => under(r) = under(o))
      BY <1>2, <2>1, FS_Subset
    <2> QED BY <2>1, <2>2, <2>3
  <1>7. \A o \in rows \ {r} : Less(r, o)
    BY <1>6, LessOrder
  <1> HIDE DEF under, sizes
  <1> QED BY <1>7 DEF LowestOf

\* Of the rows in S, the k highest.
IsTop(T, S, k) ==
  /\ T \subseteq S /\ \A t \in T, o \in S : Less(t, o) => o \in T
  /\ Cardinality(T) = k \/ (T = S /\ Cardinality(S) <= k)

LEMMA TopIs ==
  ASSUME Drawn, NEW S \in SUBSET logins, NEW T, NEW k \in Nat, IsTop(T, S, k)
  PROVE  T = {r \in S : Cardinality({o \in S : Less(r, o)}) < k}
  <1> DEFINE above(r) == {o \in S : Less(r, o)}
  <1>1. IsFiniteSet(S) /\ T \in SUBSET S
    BY LoginsKnown, FS_Subset DEF IsTop
  <1>2. IsFiniteSet(T) /\ Cardinality(T) \in Nat /\ Cardinality(T) <= k
    BY <1>1, FS_Subset, FS_CardinalityType DEF IsTop
  <1>3. \A r \in S : above(r) \in SUBSET S
    OBVIOUS
  <1>4. ASSUME NEW r \in S PROVE IsFiniteSet(above(r)) /\ Cardinality(above(r)) \in Nat
    <2> HIDE DEF above
    <2> QED BY <1>1, <1>3, <1>4, FS_Subset, FS_CardinalityType
  <1>5. ASSUME NEW r \in T PROVE Cardinality(above(r)) < k
    <2>1. above(r) \in SUBSET T /\ r \notin above(r)
      BY <1>1, LessOrder DEF IsTop
    <2> HIDE DEF above
    <2>2. Cardinality(above(r)) <= Cardinality(T) /\ Cardinality(above(r)) # Cardinality(T)
      BY <1>2, <2>1, FS_Subset
    <2>3. Cardinality(above(r)) \in Nat
      BY <1>1, <1>4
    <2> QED BY <1>2, <2>2, <2>3
  <1>6. ASSUME NEW r \in S \ T PROVE ~(Cardinality(above(r)) < k)
    <2>1. Cardinality(T) = k
      BY DEF IsTop
    <2>2. T \in SUBSET above(r)
      BY <1>1, LessOrder DEF IsTop
    <2>3. IsFiniteSet(above(r)) /\ Cardinality(above(r)) \in Nat
      BY <1>4
    <2> HIDE DEF above
    <2>4. Cardinality(T) <= Cardinality(above(r))
      BY <2>2, <2>3, FS_Subset
    <2> QED BY <2>1, <2>3, <2>4
  <1>7. T = {r \in S : Cardinality(above(r)) < k}
    <2> HIDE DEF above
    <2> QED BY <1>1, <1>5, <1>6
  <1> QED BY <1>7

\* What expires is lowest: the rest stays the highest of what remains.
LEMMA TopExpires ==
  ASSUME Drawn, NEW S \in SUBSET logins, NEW T, NEW k \in Nat, IsTop(T, S, k), NEW latest \in Int
  PROVE  IsTop({r \in T : Recent(r, latest)}, {r \in S : Recent(r, latest)}, k)
  <1> DEFINE recent == {r \in T : Recent(r, latest)}
             rest == {r \in S : Recent(r, latest)}
  <1>1. T \in SUBSET S /\ recent \in SUBSET T /\ rest \in SUBSET S /\ recent \in SUBSET rest
    BY DEF IsTop
  <1>2. IsFiniteSet(S) /\ IsFiniteSet(T)
    BY <1>1, LoginsKnown, FS_Subset
  <1>3. \A t \in recent, o \in rest : Less(t, o) => o \in recent
    BY DEF IsTop
  <1>4. CASE T = S /\ Cardinality(S) <= k
    <2>1. recent = rest
      BY <1>4
    <2> HIDE DEF recent, rest
    <2>2. Cardinality(rest) <= Cardinality(S) /\ Cardinality(rest) \in Nat /\ Cardinality(S) \in Nat
      BY <1>1, <1>2, FS_Subset, FS_CardinalityType
    <2> QED BY <1>1, <1>3, <1>4, <2>1, <2>2 DEF IsTop, recent, rest
  <1>5. CASE Cardinality(T) = k /\ recent = T
    BY <1>1, <1>3, <1>5 DEF IsTop
  <1>6. CASE Cardinality(T) = k /\ recent # T
    <2>1. PICK t \in T : ~Recent(t, latest)
      BY <1>6
    <2>2. ASSUME NEW o \in S \ T PROVE ~Recent(o, latest)
      <3>1. Less(o, t)
        BY <1>1, <2>1, LessOrder DEF IsTop
      <3>2. o.at \in Nat /\ t.at \in Nat /\ o.at <= t.at
        BY <1>1, <2>1, <3>1, LoginsKnown DEF Less
      <3> QED BY <2>1, <3>2, EvidenceAssumption DEF Recent
    <2>3. recent = rest
      BY <1>1, <2>2
    <2> HIDE DEF recent, rest
    <2>4. Cardinality(recent) <= k
      BY <1>1, <1>2, <1>6, FS_Subset
    <2> QED BY <1>1, <1>3, <2>3, <2>4 DEF IsTop, recent, rest
  <1> QED BY <1>4, <1>5, <1>6 DEF IsTop


\* A row more: it is taken while there is room, left if it is below the rest,
\* and otherwise takes the place of the lowest.
LEMMA TopGrows ==
  ASSUME Drawn, NEW S \in SUBSET logins, NEW T, NEW k \in Nat, IsTop(T, S, k),
         NEW r \in logins, Cardinality(T) < k
  PROVE  IsTop(T \cup {r}, S \cup {r}, k)
  <1>1. IsFiniteSet(S) /\ Cardinality(S) \in Nat
    BY LoginsKnown, FS_Subset, FS_CardinalityType
  <1>2. T = S
    BY <1>1 DEF IsTop
  <1>3. Cardinality(S \cup {r}) = Cardinality(S) \/ Cardinality(S \cup {r}) = Cardinality(S) + 1
    BY <1>1, FS_AddElement
  <1>4. Cardinality(S \cup {r}) <= k
    BY <1>1, <1>2, <1>3
  <1> QED BY <1>2, <1>4 DEF IsTop

LEMMA TopSkips ==
  ASSUME Drawn, NEW S \in SUBSET logins, NEW T, NEW k, IsTop(T, S, k),
         NEW r, Cardinality(T) = k, \A t \in T : ~Less(t, r)
  PROVE  IsTop(T, S \cup {r}, k)
  BY DEF IsTop

LEMMA TopTakes ==
  ASSUME Drawn, NEW S \in SUBSET logins, NEW T, NEW k \in Nat, IsTop(T, S, k),
         NEW r \in logins, r \notin T, Cardinality(T) = k,
         NEW low \in T, \A t \in T \ {low} : Less(low, t), Less(low, r)
  PROVE  IsTop((T \cup {r}) \ {low}, S \cup {r}, k)
  <1> DEFINE more == T \cup {r}
             new == more \ {low}
  <1>1. T \in SUBSET S /\ T \in SUBSET logins
    BY DEF IsTop
  <1>2. IsFiniteSet(T)
    BY <1>1, LoginsKnown, FS_Subset
  <1>3. IsFiniteSet(more) /\ Cardinality(more) = k + 1 /\ low \in more
    BY <1>2, FS_AddElement
  <1>4. Cardinality(new) = k
    <2> HIDE DEF more
    <2>1. Cardinality(more \ {low}) = Cardinality(more) - 1
      BY <1>3, FS_RemoveElement
    <2> QED BY <1>3, <2>1
  <1>5. ASSUME NEW t \in new, NEW o \in S \cup {r}, Less(t, o) PROVE o \in new
    <2>1. low \in logins /\ t \in logins /\ o \in logins
      BY <1>1
    <2>2. Less(low, t)
      OBVIOUS
    <2>3. Less(low, o)
      BY <1>5, <2>1, <2>2, LessOrder
    <2>4. o # low
      BY <2>1, <2>3, LessOrder
    <2>5. o \in more
      BY <2>1, <2>3 DEF IsTop
    <2> QED BY <2>4, <2>5
  <1>6. new \subseteq S \cup {r}
    BY <1>1
  <1> QED BY <1>4, <1>5, <1>6 DEF IsTop

\* Of two sets of highest rows the smaller is part of the larger.
LEMMA TopNested ==
  ASSUME Drawn, NEW S \in SUBSET logins, NEW T, NEW U, NEW k \in Nat, NEW n \in Nat,
         IsTop(T, S, k), IsTop(U, S, n), k <= n
  PROVE  T \subseteq U
  <1>1. T = {r \in S : Cardinality({o \in S : Less(r, o)}) < k}
    BY TopIs
  <1>2. U = {r \in S : Cardinality({o \in S : Less(r, o)}) < n}
    BY TopIs
  <1>3. \A r \in S : Cardinality({o \in S : Less(r, o)}) \in Nat
    <2> TAKE r \in S
    <2> DEFINE above == {o \in S : Less(r, o)}
    <2>1. IsFiniteSet(S) /\ above \in SUBSET S
      BY LoginsKnown, FS_Subset
    <2> HIDE DEF above
    <2>2. Cardinality(above) \in Nat
      BY <2>1, FS_Subset, FS_CardinalityType
    <2> QED BY <2>2 DEF above
  <1> QED BY <1>1, <1>2, <1>3

-----------------------------------------------------------------------------
(* The index.                                                               *)

\* Of what was observed, what can be evidence; and candidates: the highest of
\* it, each once.
Useful(rows, latest) == {r \in rows : r.user # Nobody /\ Recent(r, latest)}
Candidates == [row : logins, copy : Nat]
KeptTop(kept, S) ==
  /\ kept \in SUBSET Candidates /\ \A c, d \in kept : c.row = d.row => c = d
  /\ IsTop(RowsKept(kept), S, MaxCandidates)
IndexInv(idx, rows) ==
  /\ idx \in [latest : Nat, seen : SUBSET logins, kept : SUBSET Candidates]
  /\ IsTop(idx.seen, Useful(rows, idx.latest), MaxSeen)
  /\ KeptTop(idx.kept, Useful(rows, idx.latest))

\* Candidates are as many as their rows.
LEMMA KeptCount ==
  ASSUME Drawn, NEW kept \in SUBSET Candidates, \A c, d \in kept : c.row = d.row => c = d
  PROVE  /\ RowsKept(kept) \in SUBSET logins /\ IsFiniteSet(RowsKept(kept)) /\ IsFiniteSet(kept)
         /\ Cardinality(kept) = Cardinality(RowsKept(kept)) /\ Cardinality(kept) \in Nat
  <1> DEFINE rows == RowsKept(kept)
             candidate == [r \in rows |-> CHOOSE c \in kept : c.row = r]
  <1>1. rows \in SUBSET logins
    BY DEF RowsKept, Candidates
  <1>2. IsFiniteSet(rows) /\ Cardinality(rows) \in Nat
    BY <1>1, LoginsKnown, FS_Subset, FS_CardinalityType
  <1>3. \A r \in rows : candidate[r] \in kept /\ candidate[r].row = r
    <2> TAKE r \in rows
    <2>1. \E c \in kept : c.row = r
      BY DEF RowsKept
    <2> QED BY <2>1
  <1>4. candidate \in [rows -> kept]
    BY <1>3
  <1>5. \A c \in kept : c.row \in rows
    BY DEF RowsKept
  <1> HIDE DEF candidate, rows
  <1>6. \A c \in kept : candidate[c.row] = c
    BY <1>3, <1>5
  <1>7. \A r, o \in rows : candidate[r] = candidate[o] => r = o
    BY <1>3
  <1>8. candidate \in Surjection(rows, kept) /\ candidate \in Injection(rows, kept)
    BY <1>4, <1>5, <1>6, <1>7 DEF Surjection, Injection, IsInjective
  <1>9. IsFiniteSet(kept) /\ Cardinality(kept) = Cardinality(rows)
    BY <1>2, <1>8, FS_Surjection
  <1> QED BY <1>1, <1>2, <1>9 DEF rows

\* Retention: what is left is the highest of what is left.
LEMMA AdvanceTop ==
  ASSUME Drawn, NEW rows \in SUBSET logins, NEW idx, IndexInv(idx, rows), NEW at \in Nat
  PROVE  IndexInv(Advance(idx, at), rows) /\ at <= Advance(idx, at).latest
  <1> DEFINE latest == IF at > idx.latest THEN at ELSE idx.latest
             S == Useful(rows, idx.latest)
             recent == {c \in idx.kept : Recent(c.row, latest)}
             new == Advance(idx, at)
  <1>1. idx.latest \in Nat /\ latest \in Nat /\ latest >= idx.latest /\ at <= latest /\ S \in SUBSET logins
    BY DEF IndexInv, Useful
  <1>2. new = [latest |-> latest, seen |-> {r \in idx.seen : Recent(r, latest)}, kept |-> recent]
    BY DEF Advance
  <1>3. new.latest = latest /\ new.seen = {r \in idx.seen : Recent(r, latest)} /\ new.kept = recent
    BY <1>2
  <1>4. new \in [latest : Nat, seen : SUBSET logins, kept : SUBSET Candidates]
    <2>1. {r \in idx.seen : Recent(r, latest)} \in SUBSET logins /\ recent \in SUBSET Candidates
      BY DEF IndexInv
    <2> HIDE DEF recent, new
    <2> QED BY <1>1, <1>2, <2>1
  <1> HIDE DEF latest
  <1>5. {r \in S : Recent(r, latest)} = Useful(rows, latest)
    <2>1. \A r \in rows : r.at \in Nat
      BY LoginsKnown
    <2>2. \A r \in rows : Recent(r, latest) => Recent(r, idx.latest)
      BY <1>1, <2>1, EvidenceAssumption DEF Recent
    <2> QED BY <2>2 DEF Useful
  <1>6. IsTop({r \in idx.seen : Recent(r, latest)}, {r \in S : Recent(r, latest)}, MaxSeen)
    BY <1>1, TopExpires, EvidenceAssumption DEF IndexInv
  <1>7. IsTop({r \in RowsKept(idx.kept) : Recent(r, latest)}, {r \in S : Recent(r, latest)}, MaxCandidates)
    BY <1>1, TopExpires, EvidenceAssumption DEF IndexInv, KeptTop
  <1>8. {r \in RowsKept(idx.kept) : Recent(r, latest)} = RowsKept(recent)
    BY DEF RowsKept
  <1>9. KeptTop(recent, Useful(rows, latest))
    BY <1>5, <1>7, <1>8 DEF KeptTop, IndexInv
  <1> HIDE DEF new, recent, S
  <1> QED BY <1>1, <1>3, <1>4, <1>5, <1>6, <1>9 DEF IndexInv, new


\* What a full set does with a row.
LEMMA LowestBelow ==
  ASSUME Drawn, NEW T \in SUBSET logins, T # {}, NEW r \in logins, r \notin T
  PROVE  IF Below(T, r) THEN \A t \in T : ~Less(t, r) ELSE Less(LowestOf(T), r)
  <1>1. LowestOf(T) \in T /\ \A o \in T \ {LowestOf(T)} : Less(LowestOf(T), o)
    BY Lowest
  <1>2. ASSUME ~Less(LowestOf(T), r), NEW t \in T PROVE ~Less(t, r)
    <2>1. Less(r, LowestOf(T))
      BY <1>1, <1>2, LessOrder
    <2>2. Less(r, t)
      BY <1>1, <2>1, LessOrder
    <2> QED BY <2>2, LessOrder
  <1> QED BY <1>2 DEF Below

\* The fingerprints after a row that is not among them and is not rejected.
LEMMA RememberTop ==
  ASSUME Drawn, NEW S \in SUBSET logins, NEW seen, IsTop(seen, S, MaxSeen),
         NEW r \in logins, r \notin seen, ~Rejected(seen, r)
  PROVE  Remember(seen, r) \in SUBSET logins /\ IsTop(Remember(seen, r), S \cup {r}, MaxSeen)
  <1>1. seen \in SUBSET logins /\ IsFiniteSet(seen) /\ Cardinality(seen) \in Nat /\ MaxSeen \in Nat \ {0}
    <2>1. seen \in SUBSET logins
      BY DEF IsTop
    <2> QED BY <2>1, LoginsKnown, FS_Subset, FS_CardinalityType, EvidenceAssumption
  <1>2. Cardinality(seen) <= MaxSeen
    <2>1. (Cardinality(S) <= MaxSeen /\ seen = S) \/ Cardinality(seen) = MaxSeen
      BY DEF IsTop
    <2> QED BY <1>1, <2>1
  <1>3. CASE Cardinality(seen) < MaxSeen
    <2>1. Remember(seen, r) = seen \cup {r}
      BY <1>3 DEF Remember
    <2> QED BY <1>1, <1>3, <2>1, TopGrows
  <1>4. CASE ~(Cardinality(seen) < MaxSeen)
    <2>1. Cardinality(seen) = MaxSeen /\ seen # {}
      BY <1>1, <1>2, <1>4, FS_EmptySet
    <2>2. Less(LowestOf(seen), r)
      BY <1>1, <2>1, LowestBelow DEF Rejected
    <2>3. LowestOf(seen) \in seen /\ \A o \in seen \ {LowestOf(seen)} : Less(LowestOf(seen), o)
      BY <1>1, <2>1, Lowest
    <2>4. Remember(seen, r) = (seen \cup {r}) \ {LowestOf(seen)}
      BY <1>4 DEF Remember
    <2>5. IsTop((seen \cup {r}) \ {LowestOf(seen)}, S \cup {r}, MaxSeen)
      BY <1>1, <2>1, <2>2, <2>3, TopTakes
    <2> QED BY <1>1, <2>4, <2>5
  <1> QED BY <1>3, <1>4

\* A new candidate, and a dropped one.
LEMMA PushKept ==
  ASSUME Drawn, NEW kept \in SUBSET Candidates, \A c, d \in kept : c.row = d.row => c = d,
         NEW r \in logins, r \notin RowsKept(kept)
  PROVE  /\ Push(kept, r) \in SUBSET Candidates /\ \A c, d \in Push(kept, r) : c.row = d.row => c = d
         /\ RowsKept(Push(kept, r)) = RowsKept(kept) \cup {r}
  <1> DEFINE new == [row |-> r, copy |-> 0]
  <1>1. {c \in kept : c.row = r} = {}
    BY DEF RowsKept
  <1>2. Push(kept, r) = kept \cup {new}
    BY <1>1, FS_EmptySet DEF Push
  <1>3. new \in Candidates /\ new.row = r
    BY DEF Candidates
  <1>4. \A c \in kept : c.row # r
    BY DEF RowsKept
  <1> HIDE DEF new
  <1>5. RowsKept(kept \cup {new}) = RowsKept(kept) \cup {r}
    BY <1>3 DEF RowsKept
  <1> QED BY <1>2, <1>3, <1>4, <1>5

LEMMA DropKept ==
  ASSUME Drawn, NEW kept \in SUBSET Candidates, \A c, d \in kept : c.row = d.row => c = d, kept # {}
  PROVE  DropLowest(kept) \in SUBSET kept /\ RowsKept(DropLowest(kept)) = RowsKept(kept) \ {LowestOf(RowsKept(kept))}
  <1> DEFINE low == LowestOf(RowsKept(kept))
             P(c) == \A d \in kept : ~Less(d.row, c.row) /\ (d.row = c.row => d.copy <= c.copy)
             c0 == CHOOSE c \in kept : P(c)
  <1>1. RowsKept(kept) \in SUBSET logins /\ RowsKept(kept) # {}
    BY KeptCount DEF RowsKept
  <1>2. low \in RowsKept(kept) /\ \A o \in RowsKept(kept) \ {low} : Less(low, o)
    BY <1>1, Lowest
  <1> HIDE DEF low
  <1>3. PICK c \in kept : c.row = low
    BY <1>2 DEF RowsKept
  <1>4. \A d \in kept : d.row \in RowsKept(kept) /\ d.row \in logins /\ d.copy \in Nat
    BY DEF RowsKept, Candidates
  <1>5. P(c)
    <2> TAKE d \in kept
    <2>1. ~Less(d.row, c.row)
      BY <1>2, <1>3, <1>4, LessOrder
    <2>2. d.row = c.row => d.copy <= c.copy
      BY <1>4
    <2> QED BY <2>1, <2>2
  <1>6. c0 \in kept /\ P(c0)
    BY <1>5
  <1>7. DropLowest(kept) = kept \ {c0}
    BY DEF DropLowest
  <1> HIDE DEF c0
  <1>8. c0.row = low
    BY <1>1, <1>2, <1>3, <1>4, <1>6, LessOrder
  <1>9. RowsKept(kept \ {c0}) = RowsKept(kept) \ {low}
    BY <1>6, <1>8 DEF RowsKept
  <1> QED BY <1>7, <1>9 DEF low

\* The candidates after a row that is none of them.
LEMMA KeepTop ==
  ASSUME Drawn, NEW S \in SUBSET logins, NEW kept, KeptTop(kept, S), NEW r \in logins, r \notin RowsKept(kept)
  PROVE  KeptTop(Keep(kept, r), S \cup {r})
  <1> DEFINE T == RowsKept(kept)
             pushed == Push(kept, r)
  <1>1. /\ kept \in SUBSET Candidates /\ \A c, d \in kept : c.row = d.row => c = d
        /\ IsTop(T, S, MaxCandidates)
    BY DEF KeptTop
  <1>2. T \in SUBSET logins /\ IsFiniteSet(T) /\ Cardinality(kept) = Cardinality(T) /\ Cardinality(T) \in Nat
    BY <1>1, KeptCount
  <1>3. MaxCandidates \in Nat \ {0}
    BY EvidenceAssumption
  <1>4. /\ pushed \in SUBSET Candidates /\ \A c, d \in pushed : c.row = d.row => c = d
        /\ RowsKept(pushed) = T \cup {r}
    BY <1>1, PushKept
  <1>5. Cardinality(T) <= MaxCandidates
    <2>1. (Cardinality(S) <= MaxCandidates /\ T = S) \/ Cardinality(T) = MaxCandidates
      BY <1>1 DEF IsTop
    <2> QED BY <1>2, <1>3, <2>1
  <1> HIDE DEF T, pushed
  <1>6. CASE Cardinality(kept) < MaxCandidates
    <2>1. Keep(kept, r) = pushed
      BY <1>6 DEF Keep, pushed
    <2>2. IsTop(T \cup {r}, S \cup {r}, MaxCandidates)
      BY <1>1, <1>2, <1>3, <1>6, TopGrows
    <2> QED BY <1>4, <2>1, <2>2 DEF KeptTop
  <1>7. CASE ~(Cardinality(kept) < MaxCandidates)
    <2>1. Cardinality(T) = MaxCandidates /\ T # {}
      BY <1>2, <1>3, <1>5, <1>7, FS_EmptySet
    <2>2. r \notin T
      BY DEF T
    <2>3. CASE Below(T, r)
      <3>1. Keep(kept, r) = kept
        BY <1>7, <2>3 DEF Keep, T
      <3>2. \A t \in T : ~Less(t, r)
        BY <1>2, <2>1, <2>2, <2>3, LowestBelow
      <3>3. IsTop(T, S \cup {r}, MaxCandidates)
        BY <1>1, <2>1, <3>2, TopSkips
      <3> QED BY <1>1, <3>1, <3>3 DEF KeptTop, T
    <2>4. CASE ~Below(T, r)
      <3> DEFINE low == LowestOf(T)
                 all == T \cup {r}
      <3>1. Keep(kept, r) = DropLowest(pushed)
        BY <1>7, <2>4 DEF Keep, T, pushed
      <3>2. low \in T /\ \A o \in T \ {low} : Less(low, o)
        BY <1>2, <2>1, Lowest
      <3>3. Less(low, r)
        BY <1>2, <2>1, <2>2, <2>4, LowestBelow
      <3>4. LowestOf(all) = low
        <4>1. LowestOf(all) \in all /\ \A o \in all \ {LowestOf(all)} : Less(LowestOf(all), o)
          BY <1>2, Lowest
        <4> HIDE DEF low
        <4>2. all \in SUBSET logins /\ low \in all /\ \A o \in all \ {low} : Less(low, o)
          BY <1>2, <3>2, <3>3
        <4> QED BY <4>1, <4>2, LessOrder
      <3>5. pushed # {}
        BY <1>4, <2>1 DEF RowsKept
      <3>6. DropLowest(pushed) \in SUBSET pushed /\ RowsKept(DropLowest(pushed)) = RowsKept(pushed) \ {LowestOf(RowsKept(pushed))}
        BY <1>4, <3>5, DropKept
      <3>7. RowsKept(DropLowest(pushed)) = (T \cup {r}) \ {low}
        BY <1>4, <3>4, <3>6
      <3>8. IsTop((T \cup {r}) \ {low}, S \cup {r}, MaxCandidates)
        <4> HIDE DEF low
        <4> QED BY <1>1, <1>3, <2>1, <2>2, <3>2, <3>3, TopTakes
      <3> QED BY <1>4, <3>1, <3>6, <3>7, <3>8 DEF KeptTop
    <2> QED BY <2>3, <2>4
  <1> QED BY <1>6, <1>7

\* The index after a row: the highest of the rows with it.
LEMMA ObserveTop ==
  ASSUME Drawn, NEW rows \in SUBSET logins, NEW idx, IndexInv(idx, rows), NEW r \in logins
  PROVE  IndexInv(Observe(idx, r), rows \cup {r})
  <1> DEFINE i == Advance(idx, r.at)
             S == Useful(rows, i.latest)
             more == rows \cup {r}
  <1>1. IndexInv(i, rows) /\ r.at \in Nat
    BY LoginsKnown, AdvanceTop
  <1> HIDE DEF i
  <1>2. CASE r.user = Nobody
    <2>1. Observe(idx, r) = idx
      BY <1>2 DEF Observe
    <2>2. Useful(more, idx.latest) = Useful(rows, idx.latest)
      BY <1>2 DEF Useful
    <2> QED BY <2>1, <2>2 DEF IndexInv
  <1>3. CASE r.user # Nobody /\ ~Recent(r, i.latest)
    <2>1. Observe(idx, r) = i
      BY <1>3 DEF Observe, i
    <2>2. Useful(more, i.latest) = Useful(rows, i.latest)
      BY <1>3 DEF Useful
    <2> QED BY <1>1, <2>1, <2>2 DEF IndexInv
  <1>4. CASE r.user # Nobody /\ Recent(r, i.latest)
    <2>1. Useful(more, i.latest) = S \cup {r} /\ S \in SUBSET logins
      BY <1>4 DEF Useful
    <2>2. /\ i \in [latest : Nat, seen : SUBSET logins, kept : SUBSET Candidates]
          /\ IsTop(i.seen, S, MaxSeen) /\ KeptTop(i.kept, S) /\ IsTop(RowsKept(i.kept), S, MaxCandidates)
      BY <1>1 DEF IndexInv, KeptTop
    <2> HIDE DEF S, more
    <2>3. RowsKept(i.kept) \subseteq i.seen
      BY <2>1, <2>2, TopNested, EvidenceAssumption
    <2>4. CASE r \in i.seen
      <3>1. Observe(idx, r) = i
        BY <1>4, <2>4 DEF Observe, i
      <3>2. S \cup {r} = S
        BY <2>2, <2>4 DEF IsTop
      <3> QED BY <1>1, <2>1, <3>1, <3>2 DEF IndexInv, S, more
    <2>5. CASE r \notin i.seen /\ Rejected(i.seen, r)
      <3>1. Observe(idx, r) = i
        BY <1>4, <2>5 DEF Observe, i
      <3>2. i.seen \in SUBSET logins /\ IsFiniteSet(i.seen) /\ Cardinality(i.seen) = MaxSeen /\ MaxSeen # 0
        <4>1. i.seen \in SUBSET logins
          BY <2>2
        <4> QED BY <4>1, <2>5, LoginsKnown, FS_Subset, EvidenceAssumption DEF Rejected
      <3>3. i.seen # {}
        BY <3>2, FS_EmptySet
      <3>4. \A t \in i.seen : ~Less(t, r)
        BY <2>5, <3>2, <3>3, LowestBelow DEF Rejected
      <3>5. IsTop(i.seen, S \cup {r}, MaxSeen)
        BY <2>1, <2>2, <3>2, <3>4, TopSkips
      <3>6. IsTop(RowsKept(i.kept), S \cup {r}, MaxCandidates)
        <4>1. CASE Cardinality(RowsKept(i.kept)) = MaxCandidates
          BY <2>1, <2>2, <2>3, <3>4, <4>1, TopSkips
        <4>2. CASE Cardinality(RowsKept(i.kept)) # MaxCandidates
          <5>1. RowsKept(i.kept) = S /\ Cardinality(S) <= MaxCandidates
            BY <2>2, <4>2 DEF IsTop
          <5>2. i.seen = S
            BY <2>2, <2>3, <5>1 DEF IsTop
          <5>3. Cardinality(S) = MaxCandidates
            BY <3>2, <5>1, <5>2, EvidenceAssumption
          <5> QED BY <4>2, <5>1, <5>3
        <4> QED BY <4>1, <4>2
      <3>7. KeptTop(i.kept, S \cup {r})
        BY <2>2, <3>6 DEF KeptTop
      <3> QED BY <2>1, <2>2, <3>1, <3>5, <3>7 DEF IndexInv, more
    <2>6. CASE r \notin i.seen /\ ~Rejected(i.seen, r)
      <3> DEFINE seen == Remember(i.seen, r)
                 kept == Keep(i.kept, r)
                 new == [i EXCEPT !.seen = seen, !.kept = kept]
      <3>1. Observe(idx, r) = new
        BY <1>4, <2>6 DEF Observe, i
      <3>2. seen \in SUBSET logins /\ IsTop(seen, S \cup {r}, MaxSeen)
        BY <2>1, <2>2, <2>6, RememberTop
      <3>3. KeptTop(kept, S \cup {r}) /\ kept \in SUBSET Candidates
        <4>1. KeptTop(kept, S \cup {r})
          BY <2>1, <2>2, <2>3, <2>6, KeepTop
        <4> QED BY <4>1 DEF KeptTop
      <3> HIDE DEF seen, kept
      <3>4. new.latest = i.latest /\ new.seen = seen /\ new.kept = kept
        BY <2>2
      <3>5. new \in [latest : Nat, seen : SUBSET logins, kept : SUBSET Candidates]
        BY <2>2, <3>2, <3>3
      <3> HIDE DEF new
      <3> QED BY <2>1, <3>1, <3>2, <3>3, <3>4, <3>5 DEF IndexInv, more
    <2> QED BY <2>4, <2>5, <2>6
  <1> QED BY <1>2, <1>3, <1>4


-----------------------------------------------------------------------------
(* The pages of the log.                                                    *)

LEMMA Places ==
  ASSUME Drawn, NEW S \in SUBSET logins
  PROVE  /\ IsFiniteSet(S) /\ Cardinality(S) \in Nat
         /\ \A r \in S : Place(r, S) \in 0 .. Cardinality(S) - 1
         /\ \A n \in 0 .. Cardinality(S) - 1 : \E r \in S : Place(r, S) = n
  <1> DEFINE before(r) == {o \in S : Leads(o, r)}
             place == [r \in S |-> Place(r, S)]
             size == Cardinality(S)
             places == 0 .. size - 1
  <1>1. IsFiniteSet(S) /\ size \in Nat
    BY LoginsKnown, FS_Subset, FS_CardinalityType
  <1>2. ASSUME NEW r \in S PROVE Cardinality(before(r)) \in 0 .. size - 1 /\ IsFiniteSet(before(r))
    <2>1. before(r) \in SUBSET S /\ r \notin before(r)
      BY LoginsKnown DEF Leads
    <2> HIDE DEF before
    <2>2. IsFiniteSet(before(r)) /\ Cardinality(before(r)) <= size /\ Cardinality(before(r)) # size
      BY <1>1, <2>1, FS_Subset
    <2>3. Cardinality(before(r)) \in Nat
      BY <2>2, FS_CardinalityType
    <2> QED BY <1>1, <2>2, <2>3
  <1>3. \A r \in S : place[r] = Cardinality(before(r))
    BY DEF Place
  <1>4. ASSUME NEW r \in S, NEW o \in S, Leads(r, o) PROVE Cardinality(before(r)) < Cardinality(before(o))
    <2>1. before(r) \in SUBSET before(o) /\ r \in before(o) /\ r \notin before(r)
      BY <1>4, LoginsKnown DEF Leads
    <2>2. IsFiniteSet(before(o)) /\ Cardinality(before(r)) \in Int /\ Cardinality(before(o)) \in Int
      BY <1>1, <1>2
    <2> HIDE DEF before
    <2>3. Cardinality(before(r)) <= Cardinality(before(o)) /\ Cardinality(before(r)) # Cardinality(before(o))
      BY <2>1, <2>2, FS_Subset
    <2> QED BY <2>2, <2>3
  <1>5. \A r, o \in S : r = o \/ Leads(r, o) \/ Leads(o, r)
    BY LoginsKnown DEF Leads
  <1> HIDE DEF before, size
  <1>6. \A r, o \in S : place[r] = place[o] => r = o
    <2> TAKE r, o \in S
    <2>1. Cardinality(before(r)) \in Int /\ Cardinality(before(o)) \in Int
      BY <1>1, <1>2
    <2>2. Leads(r, o) => Cardinality(before(r)) < Cardinality(before(o))
      BY <1>4
    <2>3. Leads(o, r) => Cardinality(before(o)) < Cardinality(before(r))
      BY <1>4
    <2> QED BY <1>3, <1>5, <2>1, <2>2, <2>3
  <1>7. \A r \in S : place[r] \in places
    BY <1>2, <1>3
  <1>8. place \in [S -> places] /\ DOMAIN place = S
    BY <1>7
  <1>9. IsFiniteSet(places) /\ Cardinality(places) = size
    BY <1>1, FS_Interval
  <1>10. \A r \in S : Place(r, S) = place[r]
    OBVIOUS
  <1> HIDE DEF place, places
  <1>11. place \in Injection(S, places)
    BY <1>6, <1>8 DEF Injection, IsInjective
  <1>12. place \in Surjection(S, places)
    BY <1>9, <1>11, FS_Injection DEF size
  <1>13. \A n \in places : \E r \in S : place[r] = n
    BY <1>12 DEF Surjection
  <1> QED BY <1>1, <1>7, <1>10, <1>13 DEF places, size

\* A page that is not full is the last.
LEMMA ShortPage ==
  ASSUME Drawn, NEW S \in SUBSET logins, NEW n \in Nat \ {0}, Cardinality(Page(S, n)) < PageSize
  PROVE  \A r \in S : Place(r, S) < n * PageSize
  <1> DEFINE page == Page(S, n)
             first == (n - 1) * PageSize
             last == n * PageSize - 1
             places == first .. last
             at == [m \in places |-> CHOOSE r \in S : Place(r, S) = m]
  <1> SUFFICES ASSUME NEW r \in S, ~(Place(r, S) < n * PageSize) PROVE FALSE
    OBVIOUS
  <1>1. first \in Nat /\ last \in Int /\ last - first + 1 = PageSize /\ PageSize \in Nat \ {0}
    <2>1. \A x \in Nat \ {0}, y \in Nat : /\ (x - 1) * y \in Nat /\ x * y - 1 \in Int
                                         /\ (x * y - 1) - (x - 1) * y + 1 = y
      OBVIOUS
    <2> QED BY <2>1, EvidenceAssumption
  <1>2. /\ Cardinality(S) \in Nat /\ Place(r, S) \in 0 .. Cardinality(S) - 1
        /\ \A m \in 0 .. Cardinality(S) - 1 : \E o \in S : Place(o, S) = m
        /\ IsFiniteSet(S)
    BY Places
  <1>3. last < Cardinality(S)
    <2>1. n * PageSize \in Int
      BY EvidenceAssumption
    <2> QED BY <1>1, <1>2, <2>1
  <1>4. \A m \in places : \E o \in S : Place(o, S) = m
    BY <1>1, <1>2, <1>3
  <1>5. \A m \in places : at[m] \in S /\ Place(at[m], S) = m
    BY <1>4
  <1>6. \A o \in S : Place(o, S) \in places => o \in page
    BY <1>1, EvidenceAssumption DEF Page
  <1>7. page \in SUBSET S
    BY DEF Page
  <1>8. IsFiniteSet(page) /\ Cardinality(page) \in Nat
    <2> HIDE DEF page
    <2> QED BY <1>2, <1>7, FS_Subset, FS_CardinalityType
  <1>9. DOMAIN at = places
    OBVIOUS
  <1>10. IsFiniteSet(places) /\ Cardinality(places) = PageSize
    <2> HIDE DEF first, last
    <2>1. IsFiniteSet(places) /\ Cardinality(places) = IF first > last THEN 0 ELSE last - first + 1
      BY <1>1, FS_Interval
    <2> HIDE DEF places
    <2> QED BY <1>1, <2>1
  <1>11. at \in [places -> page]
    BY <1>5, <1>6
  <1> HIDE DEF page, places, at
  <1>12. at \in Injection(places, page)
    BY <1>5, <1>9, <1>11 DEF Injection, IsInjective
  <1>13. Cardinality(places) <= Cardinality(page)
    BY <1>8, <1>12, FS_Injection
  <1> QED BY <1>1, <1>8, <1>10, <1>13 DEF page

\* Rows that arrive move others back, never forward.
LEMMA PlaceGrows ==
  ASSUME Drawn, NEW S \in SUBSET logins, NEW T \in SUBSET S, NEW r
  PROVE  Place(r, T) <= Place(r, S) /\ Place(r, T) \in Nat /\ Place(r, S) \in Nat
  <1> DEFINE all == {o \in S : Leads(o, r)}
             some == {o \in T : Leads(o, r)}
  <1>1. all \in SUBSET logins /\ some \in SUBSET all
    OBVIOUS
  <1> HIDE DEF all, some
  <1>2. IsFiniteSet(all) /\ IsFiniteSet(some) /\ Cardinality(some) <= Cardinality(all)
    BY <1>1, LoginsKnown, FS_Subset
  <1>3. Cardinality(all) \in Nat /\ Cardinality(some) \in Nat
    BY <1>2, FS_CardinalityType
  <1> QED BY <1>2, <1>3 DEF Place, all, some

-----------------------------------------------------------------------------
(* The readers and the index.                                               *)

Windows == [active : {TRUE}, from : Int, to : Int, page : Nat, rows : SUBSET logins, queue : SUBSET logins]
EvidenceType ==
  /\ Drawn /\ clock \in Nat /\ mark \in [LogReaders -> Int] /\ reading \in [LogReaders -> {Idle} \cup Windows]
  /\ due \in SUBSET logins /\ observed \in SUBSET logins /\ asked \subseteq Requests

\* What was due when the window of requests began: the pages read so far hold
\* what they then listed, and once the last is read all of it is known or queued.
DueInv ==
  LET w == reading["requests"]
  IN  w.active =>
        \A r \in due :
          /\ r \in Listing(w.from, w.to) /\ r.at < w.to
          /\ w.page # 0 /\ Place(r, Listing(w.from, w.to)) < (w.page - 1) * PageSize => r \in w.rows
          /\ w.page = 0 => r \in observed \cup w.queue

EvidenceInv == EvidenceType /\ IndexInv(index, observed) /\ DueInv /\ RightUser

\* A reader that reads is in a window.
LEMMA InWindow ==
  ASSUME EvidenceType, NEW p \in LogReaders, reading[p].active
  PROVE  reading[p] \in Windows
  BY DEF EvidenceType, Idle

\* What neither reader of the requests' window nor the log has to do with.
LEMMA DueFrame ==
  ASSUME DueInv, UNCHANGED <<logins, clock, due>>, reading'["requests"] = reading["requests"],
         observed \subseteq observed'
  PROVE  DueInv'
  BY DEF DueInv, Listing, Listed, Place, Leads

LEMMA NotDue ==
  ASSUME ~reading'["requests"].active
  PROVE  DueInv'
  BY DEF DueInv

\* A reader's next state.
LEMMA ReaderType ==
  ASSUME EvidenceType, NEW p \in LogReaders, NEW w \in {Idle} \cup Windows,
         reading' = [reading EXCEPT ![p] = w], UNCHANGED <<logins, digest>>
  PROVE  reading' \in [LogReaders -> {Idle} \cup Windows'] /\ reading'[p] = w
         /\ \A o \in LogReaders \ {p} : reading'[o] = reading[o]
  <1>1. Windows' = Windows
    BY DEF Windows
  <1>2. reading \in [LogReaders -> {Idle} \cup Windows]
    BY DEF EvidenceType
  <1> QED BY <1>1, <1>2

\* The index in the next state.
LEMMA IndexNext ==
  ASSUME NEW idx, NEW rows, IndexInv(idx, rows), index' = idx, observed' = rows, UNCHANGED <<logins, digest>>
  PROVE  IndexInv(index, observed)'
  BY DEF IndexInv, KeptTop, Useful, IsTop, RowsKept, Candidates, Recent, Less

LEMMA ListingKnown ==
  ASSUME Drawn, NEW from, NEW to
  PROVE  Listing(from, to) \in SUBSET logins
  BY DEF Listing, Listed

\* A window begins: nothing of it is read.
LEMMA OpenInv == EvidenceInv /\ (\E p \in LogReaders : Open(p)) => EvidenceInv'
  <1> SUFFICES ASSUME EvidenceInv, NEW p \in LogReaders, Open(p) PROVE EvidenceInv'
    OBVIOUS
  <1> DEFINE w == [active |-> TRUE, from |-> Since(p), to |-> clock - LagOf(p), page |-> 1,
                   rows |-> {}, queue |-> {}]
  <1>1. /\ EvidenceType /\ IndexInv(index, observed) /\ DueInv /\ RightUser
        /\ mark[p] \in Int /\ MatchWindow \in Nat /\ LagOf(p) \in Nat /\ clock \in Nat
    BY EvidenceAssumption DEF EvidenceInv, EvidenceType, LagOf
  <1>2. /\ reading' = [reading EXCEPT ![p] = w]
        /\ due' = IF p = "requests" THEN {r \in Listed : mark[p] - MatchWindow <= r.at /\ r.at < clock - LagOf(p)}
                  ELSE due
        /\ UNCHANGED <<logins, clock, digest, index, mark, asked, observed, told>>
    BY DEF Open
  <1>3. w \in Windows /\ w.active /\ w.from = Since(p) /\ w.to = clock - LagOf(p) /\ w.page = 1
    BY <1>1 DEF Windows, Since
  <1> HIDE DEF w
  <1>4. /\ reading' \in [LogReaders -> {Idle} \cup Windows'] /\ reading'[p] = w
        /\ \A o \in LogReaders \ {p} : reading'[o] = reading[o]
    BY <1>1, <1>2, <1>3, ReaderType
  <1>5. due' \in SUBSET logins
    BY <1>1, <1>2 DEF Listed, EvidenceType
  <1>6. EvidenceType'
    BY <1>1, <1>2, <1>4, <1>5 DEF EvidenceType, Drawn
  <1>7. DueInv'
    <2>1. CASE p # "requests"
      <3>1. "requests" \in LogReaders \ {p}
        BY <2>1 DEF LogReaders
      <3>2. reading'["requests"] = reading["requests"]
        BY <1>4, <3>1
      <3> QED BY <1>1, <1>2, <2>1, <3>2, DueFrame
    <2>2. CASE p = "requests"
      <3>1. reading'["requests"] = w
        BY <1>4, <2>2
      <3>2. ASSUME NEW r \in due'
            PROVE  /\ r \in Listing(w.from, w.to) /\ r.at < w.to
                   /\ ~(Place(r, Listing(w.from, w.to)) < (w.page - 1) * PageSize)
        <4>1. r \in Listed /\ w.from <= r.at /\ r.at < w.to /\ r \in logins /\ r.at \in Nat /\ w.to \in Int
          BY <1>1, <1>2, <1>3, <2>2, LoginsKnown DEF Since, Listed, EvidenceType
        <4>2. r \in Listing(w.from, w.to)
          BY <4>1 DEF Listing
        <4>3. Listing(w.from, w.to) \in SUBSET logins
          BY <1>1, ListingKnown DEF EvidenceType
        <4> DEFINE S == Listing(w.from, w.to)
        <4> HIDE DEF S
        <4>4. Place(r, S) \in Nat
          BY <1>1, <4>3, PlaceGrows DEF EvidenceType, S
        <4>5. (w.page - 1) * PageSize = 0
          BY <1>3, EvidenceAssumption
        <4> QED BY <4>1, <4>2, <4>4, <4>5 DEF S
      <3>3. Listed' = Listed
        BY <1>2 DEF Listed
      <3> QED BY <1>3, <3>1, <3>2, <3>3 DEF DueInv, Listing, Place, Leads
    <2> QED BY <2>1, <2>2
  <1>8. IndexInv(index, observed)'
    BY <1>1, <1>2, IndexNext
  <1> QED BY <1>1, <1>2, <1>6, <1>7, <1>8 DEF EvidenceInv, RightUser

\* The poll ends with the rows of its window, the next page, or nothing.
LEMMA ReadPageInv == EvidenceInv /\ (\E p \in LogReaders : ReadPage(p)) => EvidenceInv'
  <1> SUFFICES ASSUME EvidenceInv, NEW p \in LogReaders, ReadPage(p) PROVE EvidenceInv'
    OBVIOUS
  <1> DEFINE w == reading[p]
             listing == Listing(w.from, w.to)
             rows == Page(listing, w.page)
             all == w.rows \cup rows
             taken == {r \in all : w.from <= r.at /\ r.at < w.to}
             turned == [w EXCEPT !.page = @ + 1, !.rows = all]
             ended == [w EXCEPT !.page = 0, !.rows = {}, !.queue = taken]
  <1>1. /\ EvidenceType /\ IndexInv(index, observed) /\ DueInv /\ RightUser
        /\ Drawn /\ reading \in [LogReaders -> {Idle} \cup Windows] /\ asked \subseteq Requests
    BY DEF EvidenceInv, EvidenceType
  <1>2. /\ w.active /\ w.page > 0
        /\ UNCHANGED <<logins, clock, digest, index, mark, due, observed, told>>
    BY DEF ReadPage
  <1>3. w \in Windows
    BY <1>1, <1>2, InWindow
  <1>4. listing \in SUBSET logins /\ rows \in SUBSET listing
    BY <1>1, ListingKnown DEF Page
  <1>5. w.page \in Nat \ {0} /\ w.rows \in SUBSET logins /\ w.queue \in SUBSET logins /\ w.from \in Int /\ w.to \in Int
    <2>1. w.page \in Nat /\ w.rows \in SUBSET logins /\ w.queue \in SUBSET logins /\ w.from \in Int /\ w.to \in Int
      <3> HIDE DEF w
      <3> QED BY <1>3 DEF Windows
    <2>2. w.page > 0
      BY <1>2
    <2> HIDE DEF w
    <2> QED BY <2>1, <2>2
  <1>6. all \in SUBSET logins /\ taken \in SUBSET logins
    BY <1>4, <1>5
  <1>7. Listed' = Listed
    BY <1>2 DEF Listed
  <1>8. ASSUME NEW v \in {Idle} \cup Windows, reading' = [reading EXCEPT ![p] = v], asked' \subseteq Requests,
               p = "requests" /\ v.active =>
                 \A r \in due :
                   /\ r \in Listing(v.from, v.to) /\ r.at < v.to
                   /\ v.page # 0 /\ Place(r, Listing(v.from, v.to)) < (v.page - 1) * PageSize => r \in v.rows
                   /\ v.page = 0 => r \in observed \cup v.queue
        PROVE  EvidenceInv'
    <2>1. /\ reading' \in [LogReaders -> {Idle} \cup Windows'] /\ reading'[p] = v
          /\ \A o \in LogReaders \ {p} : reading'[o] = reading[o]
      BY <1>1, <1>2, <1>8, ReaderType
    <2>2. EvidenceType'
      BY <1>1, <1>2, <1>8, <2>1 DEF EvidenceType, Drawn
    <2>3. DueInv'
      <3>1. CASE p # "requests"
        <4>1. reading'["requests"] = reading["requests"]
          BY <2>1, <3>1 DEF LogReaders
        <4> QED BY <1>1, <1>2, <4>1, DueFrame
      <3>2. CASE p = "requests"
        <4> HIDE DEF w, listing, rows, all, taken, turned, ended
        <4> QED BY <1>2, <1>7, <1>8, <2>1, <3>2 DEF DueInv, Listing, Place, Leads
      <3> QED BY <3>1, <3>2
    <2>4. IndexInv(index, observed)'
      BY <1>1, <1>2, IndexNext
    <2> QED BY <1>1, <1>2, <2>2, <2>3, <2>4 DEF EvidenceInv, RightUser
  <1>9. CASE Abandon(p) /\ asked' = asked
    BY <1>1, <1>8, <1>9 DEF Abandon, Idle
  <1>10. CASE Cardinality(rows) = PageSize /\ reading' = [reading EXCEPT ![p].page = @ + 1, ![p].rows = all] /\ asked' = asked
    <2>1. reading' = [reading EXCEPT ![p] = turned]
      BY <1>1, <1>10
    <2>2. turned \in Windows
      <3>1. w.page + 1 \in Nat
        BY <1>5
      <3> HIDE DEF w, all
      <3> QED BY <1>3, <1>6, <3>1 DEF Windows
    <2>3. /\ turned.active /\ turned.from = w.from /\ turned.to = w.to /\ turned.page = w.page + 1
          /\ turned.rows = all
      BY <1>2, <1>3 DEF Windows
    <2>4. ASSUME p = "requests", NEW r \in due, Place(r, listing) < w.page * PageSize PROVE r \in all
      <3>1. r \in listing /\ (Place(r, listing) < (w.page - 1) * PageSize => r \in w.rows)
        BY <1>1, <1>2, <1>5, <2>4 DEF DueInv
      <3>2. Place(r, listing) \in Nat
        <4> HIDE DEF listing
        <4> QED BY <1>1, <1>4, PlaceGrows
      <3>3. (w.page - 1) * PageSize \in Int
        BY <1>5, EvidenceAssumption
      <3>4. ~(Place(r, listing) < (w.page - 1) * PageSize) => r \in rows
        <4> HIDE DEF listing, w
        <4> QED BY <2>4, <3>1, <3>2, <3>3 DEF Page
      <3> QED BY <3>1, <3>4
    <2>5. p = "requests" => \A r \in due : r \in listing /\ r.at < w.to
      BY <1>1, <1>2 DEF DueInv
    <2>6. w.page + 1 # 0 /\ (w.page + 1) - 1 = w.page
      BY <1>5
    <2> HIDE DEF turned, all, rows, w
    <2>7. p = "requests" =>
            \A r \in due :
               /\ r \in Listing(turned.from, turned.to) /\ r.at < turned.to
               /\ turned.page # 0 /\ Place(r, Listing(turned.from, turned.to)) < (turned.page - 1) * PageSize
                  => r \in turned.rows
               /\ turned.page = 0 => r \in observed \cup turned.queue
      BY <2>3, <2>4, <2>5, <2>6
    <2> QED BY <1>1, <1>8, <1>10, <2>1, <2>2, <2>7
  <1>11. CASE /\ Cardinality(rows) < PageSize
              /\ reading' = [reading EXCEPT ![p].page = 0, ![p].rows = {}, ![p].queue = taken]
              /\ asked' \subseteq Requests
    <2>1. reading' = [reading EXCEPT ![p] = ended]
      BY <1>1, <1>11
    <2>2. ended \in Windows
      BY <1>3, <1>6 DEF Windows
    <2>3. ended.active /\ ended.from = w.from /\ ended.to = w.to /\ ended.page = 0 /\ ended.queue = taken
      BY <1>2, <1>3 DEF Windows
    <2>4. ASSUME p = "requests", NEW r \in due PROVE r \in listing /\ r.at < w.to /\ r \in taken
      <3>1. r \in listing /\ r.at < w.to /\ (Place(r, listing) < (w.page - 1) * PageSize => r \in w.rows)
        BY <1>1, <1>2, <1>5, <2>4 DEF DueInv
      <3>2. w.from <= r.at
        BY <3>1 DEF Listing
      <3>3. Place(r, listing) < w.page * PageSize
        <4> HIDE DEF listing, w
        <4> QED BY <1>1, <1>4, <1>5, <1>11, <3>1, ShortPage DEF rows
      <3>4. Place(r, listing) \in Nat
        <4> HIDE DEF listing
        <4> QED BY <1>1, <1>4, PlaceGrows
      <3>5. (w.page - 1) * PageSize \in Int
        BY <1>5, EvidenceAssumption
      <3>6. ~(Place(r, listing) < (w.page - 1) * PageSize) => r \in rows
        <4> HIDE DEF listing, w
        <4> QED BY <3>1, <3>3, <3>4, <3>5 DEF Page
      <3> QED BY <3>1, <3>2, <3>6
    <2> HIDE DEF ended, taken, all, rows, w
    <2>5. p = "requests" =>
            \A r \in due :
               /\ r \in Listing(ended.from, ended.to) /\ r.at < ended.to
               /\ ended.page # 0 /\ Place(r, Listing(ended.from, ended.to)) < (ended.page - 1) * PageSize
                  => r \in ended.rows
               /\ ended.page = 0 => r \in observed \cup ended.queue
      BY <2>3, <2>4
    <2> QED BY <1>8, <1>11, <2>1, <2>2, <2>5
  <1>12. /\ \/ Abandon(p) /\ asked' = asked
            \/ Cardinality(rows) = PageSize /\ reading' = [reading EXCEPT ![p].page = @ + 1, ![p].rows = all] /\ asked' = asked
            \/ /\ Cardinality(rows) < PageSize
               /\ reading' = [reading EXCEPT ![p].page = 0, ![p].rows = {}, ![p].queue = taken]
               /\ asked' \subseteq Requests
    BY <1>1 DEF ReadPage
  <1> QED BY <1>9, <1>10, <1>11, <1>12

\* A row leaves the queue for the index.
LEMMA ObserveRowInv == EvidenceInv /\ (\E p \in LogReaders : ObserveRow(p)) => EvidenceInv'
  <1> SUFFICES ASSUME EvidenceInv, NEW p \in LogReaders, ObserveRow(p) PROVE EvidenceInv'
    OBVIOUS
  <1>1. /\ EvidenceType /\ IndexInv(index, observed) /\ DueInv /\ RightUser
        /\ Drawn /\ reading \in [LogReaders -> {Idle} \cup Windows] /\ observed \in SUBSET logins
    BY DEF EvidenceInv, EvidenceType
  <1>2. PICK r \in reading[p].queue :
          /\ reading' = [reading EXCEPT ![p].queue = @ \ {r}]
          /\ index' = Observe(index, r)
          /\ observed' = observed \cup {r}
    BY DEF ObserveRow
  <1>3. reading[p].active /\ UNCHANGED <<logins, clock, digest, mark, asked, due, told>>
    BY DEF ObserveRow
  <1> DEFINE w == reading[p]
             v == [w EXCEPT !.queue = @ \ {r}]
  <1>4. w \in Windows
    BY <1>1, <1>3, InWindow
  <1>5. v \in Windows /\ r \in logins
    BY <1>2, <1>4 DEF Windows
  <1>6. /\ v.active /\ v.from = w.from /\ v.to = w.to /\ v.page = w.page /\ v.rows = w.rows
        /\ v.queue = w.queue \ {r}
    BY <1>3, <1>4 DEF Windows
  <1>7. reading' = [reading EXCEPT ![p] = v]
    BY <1>1, <1>2
  <1> HIDE DEF v
  <1>8. /\ reading' \in [LogReaders -> {Idle} \cup Windows'] /\ reading'[p] = v
        /\ \A o \in LogReaders \ {p} : reading'[o] = reading[o]
    BY <1>1, <1>3, <1>5, <1>7, ReaderType
  <1>9. IndexInv(index, observed)'
    <2>1. IndexInv(Observe(index, r), observed \cup {r})
      BY <1>1, <1>5, ObserveTop
    <2> QED BY <1>2, <1>3, <2>1, IndexNext
  <1>10. EvidenceType'
    BY <1>1, <1>2, <1>3, <1>5, <1>8 DEF EvidenceType, Drawn
  <1>11. DueInv'
    <2>1. CASE p # "requests"
      <3>1. reading'["requests"] = reading["requests"]
        BY <1>8, <2>1 DEF LogReaders
      <3> QED BY <1>1, <1>2, <1>3, <3>1, DueFrame
    <2>2. CASE p = "requests"
      <3>1. Listed' = Listed
        BY <1>3 DEF Listed
      <3>2. reading'["requests"] = v /\ reading["requests"] = w
        BY <1>8, <2>2
      <3> HIDE DEF w
      <3> QED BY <1>1, <1>2, <1>3, <1>6, <3>1, <3>2 DEF DueInv, Listing, Place, Leads
    <2> QED BY <2>1, <2>2
  <1> QED BY <1>1, <1>3, <1>9, <1>10, <1>11 DEF EvidenceInv, RightUser

\* A window that fails, or is committed, is over.
LEMMA OverInv ==
  ASSUME EvidenceInv, NEW p \in LogReaders, Abandon(p),
         mark' \in [LogReaders -> Int], asked' \subseteq Requests,
         UNCHANGED <<logins, clock, digest, index, due, observed, told>>
  PROVE  EvidenceInv'
  <1>1. EvidenceType /\ IndexInv(index, observed) /\ DueInv /\ RightUser
    BY DEF EvidenceInv
  <1>2. /\ reading' \in [LogReaders -> {Idle} \cup Windows'] /\ reading'[p] = Idle
        /\ \A o \in LogReaders \ {p} : reading'[o] = reading[o]
    BY <1>1, ReaderType DEF Abandon
  <1>3. EvidenceType'
    BY <1>1, <1>2 DEF EvidenceType, Drawn
  <1>4. DueInv'
    <2>1. CASE p # "requests"
      <3>1. reading'["requests"] = reading["requests"]
        BY <1>2, <2>1 DEF LogReaders
      <3> QED BY <1>1, <3>1, DueFrame
    <2>2. CASE p = "requests"
      BY <1>2, <2>2, NotDue DEF Idle
    <2> QED BY <2>1, <2>2
  <1>5. IndexInv(index, observed)'
    BY <1>1, IndexNext
  <1> QED BY <1>1, <1>3, <1>4, <1>5 DEF EvidenceInv, RightUser

LEMMA FailInv == EvidenceInv /\ (\E p \in LogReaders : Fail(p)) => EvidenceInv'
  BY OverInv DEF Fail, EvidenceInv, EvidenceType

LEMMA CommitInv == EvidenceInv /\ (\E p \in LogReaders : Commit(p)) => EvidenceInv'
  <1> SUFFICES ASSUME EvidenceInv, NEW p \in LogReaders, Commit(p) PROVE EvidenceInv'
    OBVIOUS
  <1>1. EvidenceType /\ asked \subseteq Requests /\ mark \in [LogReaders -> Int]
    BY DEF EvidenceInv, EvidenceType
  <1>2. reading[p] \in Windows
    BY <1>1, InWindow DEF Commit
  <1>3. mark' \in [LogReaders -> Int]
    BY <1>1, <1>2 DEF Commit, Windows
  <1> QED BY <1>1, <1>3, OverInv DEF Commit

\* A lookup: everything due is observed, and what the index kept of it is its
\* highest evidence.
LEMMA AskInv == EvidenceInv /\ (\E q \in Requests : Ask(q)) => EvidenceInv'
  <1> SUFFICES ASSUME EvidenceInv, NEW q \in Requests, Ask(q) PROVE EvidenceInv'
    OBVIOUS
  <1> DEFINE idx == Advance(index, q.at)
             S == Useful(observed, idx.latest)
  <1>1. /\ EvidenceType /\ IndexInv(index, observed) /\ DueInv /\ RightUser
        /\ Drawn /\ observed \in SUBSET logins /\ asked \subseteq Requests
    BY DEF EvidenceInv, EvidenceType
  <1>2. /\ Hydrated /\ asked' = asked \ {q} /\ index' = idx
        /\ told' = [answer |-> Lookup(idx, q), right |-> Match(Evidence(observed \cup due, idx.latest), q)]
        /\ UNCHANGED <<logins, clock, digest, mark, reading, due, observed>>
    BY DEF Ask
  <1>3. IndexInv(idx, observed)
    BY <1>1, AdvanceTop, EvidenceAssumption
  <1> HIDE DEF idx
  <1>4. observed \cup due = observed
    BY <1>1, <1>2 DEF Hydrated, DueInv
  <1>5. RowsKept(idx.kept) = Evidence(observed, idx.latest)
    <2>1. IsTop(RowsKept(idx.kept), S, MaxCandidates) /\ S \in SUBSET logins
      BY <1>1, <1>3 DEF IndexInv, KeptTop, Useful
    <2>2. TopOf(S) = Evidence(observed, idx.latest)
      BY DEF Evidence, Useful
    <2> HIDE DEF S
    <2>3. RowsKept(idx.kept) = TopOf(S)
      BY <1>1, <2>1, TopIs, EvidenceAssumption DEF TopOf
    <2> QED BY <2>2, <2>3
  <1>6. RightUser'
    <2>1. Lookup(idx, q) = Match(Evidence(observed \cup due, idx.latest), q)
      BY <1>4, <1>5 DEF Lookup
    <2> QED BY <1>2, <2>1 DEF RightUser
  <1>7. EvidenceType'
    BY <1>1, <1>2 DEF EvidenceType, Drawn, Windows
  <1>8. DueInv'
    BY <1>1, <1>2, DueFrame
  <1>9. IndexInv(index, observed)'
    BY <1>2, <1>3, IndexNext
  <1> QED BY <1>6, <1>7, <1>8, <1>9 DEF EvidenceInv

LEMMA PruneInv == EvidenceInv /\ Prune => EvidenceInv'
  <1> SUFFICES ASSUME EvidenceInv, Prune PROVE EvidenceInv'
    OBVIOUS
  <1>1. /\ EvidenceType /\ IndexInv(index, observed) /\ DueInv /\ RightUser
        /\ Drawn /\ observed \in SUBSET logins /\ clock \in Nat
    BY DEF EvidenceInv, EvidenceType
  <1>2. /\ index' = Advance(index, clock)
        /\ UNCHANGED <<logins, clock, digest, mark, reading, asked, due, observed, told>>
    BY DEF Prune
  <1>3. IndexInv(Advance(index, clock), observed)
    BY <1>1, AdvanceTop
  <1>4. IndexInv(index, observed)'
    BY <1>2, <1>3, IndexNext
  <1>5. EvidenceType'
    BY <1>1, <1>2 DEF EvidenceType, Drawn, Windows
  <1>6. DueInv'
    BY <1>1, <1>2, DueFrame
  <1> QED BY <1>1, <1>2, <1>4, <1>5, <1>6 DEF EvidenceInv, RightUser

\* Time passes and rows arrive: those of the pages still to be read move back.
LEMMA TickInv == EvidenceInv /\ Tick => EvidenceInv'
  <1> SUFFICES ASSUME EvidenceInv, Tick PROVE EvidenceInv'
    OBVIOUS
  <1>1. /\ EvidenceType /\ IndexInv(index, observed) /\ DueInv /\ RightUser
        /\ Drawn /\ clock \in Nat
    BY DEF EvidenceInv, EvidenceType
  <1>2. /\ clock' = clock + 1
        /\ UNCHANGED <<logins, digest, index, mark, reading, asked, due, observed, told>>
    BY DEF Tick
  <1>3. EvidenceType'
    <2>1. clock' \in Nat
      BY <1>1, <1>2
    <2> QED BY <1>1, <1>2, <2>1 DEF EvidenceType, Drawn, Windows
  <1>4. IndexInv(index, observed)'
    BY <1>1, <1>2, IndexNext
  <1> DEFINE w == reading["requests"]
             now == Listing(w.from, w.to)
             later == {r \in {o \in logins : o.at + o.delay <= clock + 1} : w.from <= r.at /\ r.at <= w.to}
  <1>5. later \in SUBSET logins /\ now \in SUBSET later
    <2>1. \A r \in logins : r.at + r.delay <= clock => r.at + r.delay <= clock + 1
      BY <1>1, LoginsKnown
    <2> QED BY <2>1 DEF Listing, Listed
  <1>6. Listing(w.from, w.to)' = later
    BY <1>2 DEF Listing, Listed
  <1>7. DueInv'
    <2> SUFFICES ASSUME w.active, NEW r \in due
                 PROVE  /\ r \in later /\ r.at < w.to
                        /\ w.page # 0 /\ Place(r, later) < (w.page - 1) * PageSize => r \in w.rows
                        /\ w.page = 0 => r \in observed \cup w.queue
      <3>1. \A r : Place(r, Listing(w.from, w.to))' = Place(r, later)
        BY <1>2, <1>6 DEF Place, Leads
      <3> HIDE DEF later
      <3> QED BY <1>2, <1>6, <3>1 DEF DueInv
    <2>1. /\ r \in now /\ r.at < w.to
          /\ w.page # 0 /\ Place(r, now) < (w.page - 1) * PageSize => r \in w.rows
          /\ w.page = 0 => r \in observed \cup w.queue
      BY <1>1 DEF DueInv
    <2>2. w \in Windows
      BY <1>1, InWindow DEF LogReaders
    <2>3. (w.page - 1) * PageSize \in Int
      <3>1. w.page \in Nat
        BY <2>2 DEF Windows
      <3> QED BY <3>1, EvidenceAssumption
    <2> HIDE DEF now, later
    <2>4. Place(r, now) <= Place(r, later) /\ Place(r, now) \in Nat /\ Place(r, later) \in Nat
      BY <1>1, <1>5, PlaceGrows
    <2> HIDE DEF w
    <2> QED BY <1>5, <2>1, <2>3, <2>4
  <1> QED BY <1>1, <1>2, <1>3, <1>4, <1>7 DEF EvidenceInv, RightUser

\* A new process knows nothing and reads nothing.
LEMMA NewIndex ==
  ASSUME index' = EmptyIndex, observed' = {}
  PROVE  IndexInv(index, observed)'
  <1>1. index'.latest = 0 /\ index'.seen = {} /\ index'.kept = {}
    BY DEF EmptyIndex
  <1>2. index' \in [latest : Nat, seen : SUBSET logins', kept : SUBSET Candidates']
    BY DEF EmptyIndex
  <1>3. Useful({}, 0) = {} /\ RowsKept({}) = {} /\ Cardinality({}) = 0
    BY FS_EmptySet DEF Useful, RowsKept
  <1>4. MaxSeen \in Nat /\ MaxCandidates \in Nat
    BY EvidenceAssumption
  <1> QED BY <1>1, <1>2, <1>3, <1>4 DEF IndexInv, KeptTop, IsTop, Useful, RowsKept

LEMMA RestartInv == EvidenceInv /\ Restart => EvidenceInv'
  <1> SUFFICES ASSUME EvidenceInv, Restart PROVE EvidenceInv'
    OBVIOUS
  <1>1. /\ digest' \in Digests /\ index' = EmptyIndex /\ reading' = [p \in LogReaders |-> Idle]
        /\ asked' = {} /\ due' = {} /\ observed' = {} /\ told' = [answer |-> Nothing, right |-> Nothing]
        /\ UNCHANGED <<logins, clock, mark>>
    BY DEF Restart
  <1>2. IndexInv(index, observed)'
    BY <1>1, NewIndex
  <1>3. EvidenceType'
    BY <1>1 DEF EvidenceInv, EvidenceType, Drawn, Windows
  <1>4. DueInv'
    BY <1>1, NotDue DEF Idle, LogReaders
  <1> QED BY <1>1, <1>2, <1>3, <1>4 DEF EvidenceInv, RightUser

LEMMA EvidenceBegins == EvidenceInit => EvidenceInv
  <1> SUFFICES ASSUME NEW rows \in LoginWorlds, NEW order \in Digests, EvidenceStarts(rows, order) PROVE EvidenceInv
    BY DEF EvidenceInit
  <1>1. /\ logins = rows /\ clock = FirstMark /\ digest = order /\ index = EmptyIndex
        /\ mark = [p \in LogReaders |-> FirstMark] /\ reading = [p \in LogReaders |-> Idle]
        /\ asked = {} /\ due = {} /\ observed = {} /\ told = [answer |-> Nothing, right |-> Nothing]
    BY DEF EvidenceStarts
  <1>2. IndexInv(index, observed)
    <2>1. index.latest = 0 /\ index.seen = {} /\ index.kept = {}
      BY <1>1 DEF EmptyIndex
    <2>2. index \in [latest : Nat, seen : SUBSET logins, kept : SUBSET Candidates]
      BY <1>1 DEF EmptyIndex
    <2>3. Useful({}, 0) = {} /\ RowsKept({}) = {} /\ Cardinality({}) = 0
      BY FS_EmptySet DEF Useful, RowsKept
    <2>4. MaxSeen \in Nat /\ MaxCandidates \in Nat
      BY EvidenceAssumption
    <2> QED BY <1>1, <2>1, <2>2, <2>3, <2>4 DEF IndexInv, KeptTop, IsTop
  <1>3. EvidenceType
    BY <1>1, EvidenceAssumption DEF EvidenceType, Drawn, Windows
  <1>4. DueInv
    BY <1>1 DEF DueInv, Idle, LogReaders
  <1> QED BY <1>1, <1>2, <1>3, <1>4 DEF EvidenceInv, RightUser

LEMMA EvidenceStays == EvidenceInv /\ UNCHANGED evidence => EvidenceInv'
  <1> SUFFICES ASSUME EvidenceInv, UNCHANGED evidence PROVE EvidenceInv'
    OBVIOUS
  <1>1. EvidenceType /\ IndexInv(index, observed) /\ DueInv /\ RightUser
    BY DEF EvidenceInv
  <1>2. IndexInv(index, observed)'
    BY <1>1, IndexNext DEF evidence
  <1>3. EvidenceType'
    BY <1>1 DEF evidence, EvidenceType, Drawn, Windows
  <1>4. DueInv'
    BY <1>1, DueFrame DEF evidence
  <1> QED BY <1>1, <1>2, <1>3, <1>4 DEF EvidenceInv, RightUser, evidence

\* Every lookup is answered from the evidence the log had when its window began,
\* however the readers, their failures, the bounds of the index, its retention
\* and restarts interleave (Observe, Lookup, HydrateIdentity).
THEOREM EvidenceRight == EvidenceSpec => []RightUser
  <1>1. EvidenceInv /\ [EvidenceNext]_evidence => EvidenceInv'
    BY OpenInv, ReadPageInv, ObserveRowInv, FailInv, CommitInv, AskInv, PruneInv, TickInv, RestartInv,
       EvidenceStays DEF EvidenceNext
  <1>2. EvidenceInv => RightUser
    BY DEF EvidenceInv
  <1> QED BY EvidenceBegins, <1>1, <1>2, PTL DEF EvidenceSpec

-----------------------------------------------------------------------------
(* TunnelStatus, for any listings.                                          *)

\* A finite set in some order, each member once.
LEMMA SetInOrder ==
  ASSUME NEW S, IsFiniteSet(S)
  PROVE  /\ SetToSeq(S) \in Seq(S)
         /\ \A x \in S : \E i \in 1 .. Len(SetToSeq(S)) : SetToSeq(S)[i] = x
  <1> DEFINE n == Cardinality(S)
             q == SetToSeq(S)
  <1>1. n \in Nat
    BY FS_CardinalityType
  <1>2. \E f \in Bijection(1 .. n, S) : TRUE
    BY FS_CardinalityType DEF ExistsBijection
  <1>3. q \in [1 .. n -> S] /\ IsInjective(q)
    BY <1>2 DEF SetToSeq, Bijection, Injection, IsInjective
  <1>4. IsFiniteSet(1 .. n) /\ Cardinality(1 .. n) = n
    BY <1>1, FS_Interval
  <1> HIDE DEF q
  <1>5. q \in Injection(1 .. n, S)
    BY <1>3 DEF Injection, IsInjective
  <1>6. q \in Surjection(1 .. n, S)
    BY <1>4, <1>5, FS_Injection DEF n
  <1>7. q \in Seq(S) /\ Len(q) = n
    BY <1>1, <1>3
  <1> QED BY <1>6, <1>7 DEF Surjection, q

\* The values of a function on a finite set.
LEMMA FiniteImage ==
  ASSUME NEW f, IsFiniteSet(DOMAIN f)
  PROVE  IsFiniteSet({f[x] : x \in DOMAIN f})
  <1> DEFINE values == {f[x] : x \in DOMAIN f}
             g == [x \in DOMAIN f |-> f[x]]
  <1>1. g \in Surjection(DOMAIN f, values)
    BY DEF Surjection
  <1> HIDE DEF values, g
  <1> QED BY <1>1, FS_Surjection DEF values

-----------------------------------------------------------------------------
(* The series of a listing and the points that are replayed.                *)

\* A tunnel has one status.
OneStatus(f) ==
  \A s, o \in DOMAIN f : s.kind = "status" /\ o.kind = "status" /\ s.id = o.id => s = o

\* Rows of a listing that were read, or of none.
ListedRows(rows) == (rows = << >> \/ rows \in Listings) /\ Valid(rows)

LEMMA SeriesFacts ==
  ASSUME NEW rows, ListedRows(rows)
  PROVE  /\ IsFiniteSet(DOMAIN SeriesOf(rows)) /\ OneStatus(SeriesOf(rows))
         /\ IsFiniteSet(DOMAIN StatusesOf(rows))
  <1> DEFINE counts(r) == {Series(r, "count", c) : c \in DOMAIN r.counts}
             sets == {counts(r) : r \in Tunnels(rows)}
             statuses == {Series(r, "status", r.status) : r \in Tunnels(rows)}
             ids == {r.id : r \in Tunnels(rows)}
  <1>1. IsFiniteSet(Tunnels(rows)) /\ \A r \in Tunnels(rows) : IsFiniteSet(DOMAIN r.counts)
    <2>1. rows \in Seq(Range(rows)) /\ \A r \in Range(rows) : IsFiniteSet(DOMAIN r.counts)
      <3>1. CASE rows = << >>
        BY <3>1 DEF Range
      <3>2. CASE rows \in Listings
        BY <3>2, TunnelAssumption
      <3> QED BY <3>1, <3>2 DEF ListedRows
    <2>2. Len(rows) \in Nat /\ DOMAIN rows = 1 .. Len(rows)
      BY <2>1
    <2>3. IsFiniteSet(1 .. Len(rows))
      BY <2>2, FS_Interval
    <2>4. IsFiniteSet(Present(rows))
      <3>1. Present(rows) \in SUBSET (1 .. Len(rows))
        BY <2>2 DEF Present
      <3> QED BY <2>3, <3>1, FS_Subset
    <2>5. IsFiniteSet({rows[i] : i \in Present(rows)})
      <3> DEFINE row == [i \in Present(rows) |-> rows[i]]
      <3>1. DOMAIN row = Present(rows) /\ {row[i] : i \in Present(rows)} = {rows[i] : i \in Present(rows)}
        OBVIOUS
      <3> HIDE DEF row
      <3> QED BY <2>4, <3>1, FiniteImage
    <2>6. Tunnels(rows) \subseteq Range(rows)
      BY DEF Tunnels, Present, Range
    <2> QED BY <2>1, <2>5, <2>6 DEF Tunnels
  <1>2. \A r, o \in Tunnels(rows) : r.id = o.id => r = o
    BY DEF ListedRows, Valid, Tunnels
  <1>3. \A r \in Tunnels(rows) : IsFiniteSet(counts(r))
    <2> TAKE r \in Tunnels(rows)
    <2> DEFINE series == [c \in DOMAIN r.counts |-> Series(r, "count", c)]
    <2>1. DOMAIN series = DOMAIN r.counts /\ {series[c] : c \in DOMAIN r.counts} = counts(r)
      OBVIOUS
    <2> HIDE DEF series, counts
    <2> QED BY <1>1, <2>1, FiniteImage
  <1>4. IsFiniteSet(statuses) /\ IsFiniteSet(sets) /\ IsFiniteSet(ids)
    <2> DEFINE series == [r \in Tunnels(rows) |-> Series(r, "status", r.status)]
               id == [r \in Tunnels(rows) |-> r.id]
               set == [r \in Tunnels(rows) |-> counts(r)]
    <2>1. IsFiniteSet(statuses)
      <3>1. DOMAIN series = Tunnels(rows) /\ {series[r] : r \in Tunnels(rows)} = statuses
        OBVIOUS
      <3> HIDE DEF series, statuses
      <3> QED BY <1>1, <3>1, FiniteImage
    <2>2. IsFiniteSet(ids)
      <3>1. DOMAIN id = Tunnels(rows) /\ {id[r] : r \in Tunnels(rows)} = ids
        OBVIOUS
      <3> HIDE DEF id, ids
      <3> QED BY <1>1, <3>1, FiniteImage
    <2>3. IsFiniteSet(sets)
      <3> HIDE DEF counts
      <3>1. DOMAIN set = Tunnels(rows) /\ {set[r] : r \in Tunnels(rows)} = sets
        OBVIOUS
      <3> HIDE DEF set, sets
      <3> QED BY <1>1, <3>1, FiniteImage
    <2> QED BY <2>1, <2>2, <2>3
  <1>5. DOMAIN SeriesOf(rows) = statuses \cup UNION sets
    <2> DEFINE status == {<<Series(r, "status", r.status), 1>> : r \in Tunnels(rows)}
               count == UNION {{<<Series(r, "count", c), r.counts[c]>> : c \in DOMAIN r.counts} : r \in Tunnels(rows)}
    <2>1. DOMAIN SeriesOf(rows) = {p[1] : p \in status \cup count}
      BY DEF SeriesOf
    <2>2. {p[1] : p \in status} = statuses
      <3>1. \A r \in Tunnels(rows) : <<Series(r, "status", r.status), 1>>[1] = Series(r, "status", r.status)
        OBVIOUS
      <3>2. \A p \in status : p[1] \in statuses
        OBVIOUS
      <3>3. \A s \in statuses : \E p \in status : p[1] = s
        BY <3>1
      <3> HIDE DEF status, statuses
      <3> QED BY <3>2, <3>3
    <2>3. {p[1] : p \in count} = UNION sets
      <3> DEFINE of(r) == {<<Series(r, "count", c), r.counts[c]>> : c \in DOMAIN r.counts}
      <3>1. \A r \in Tunnels(rows) : \A p \in of(r) : p[1] \in counts(r)
        OBVIOUS
      <3>2. \A r \in Tunnels(rows) : \A s \in counts(r) : \E p \in of(r) : p[1] = s
        <4> TAKE r \in Tunnels(rows)
        <4> TAKE s \in counts(r)
        <4>1. PICK c \in DOMAIN r.counts : s = Series(r, "count", c)
          OBVIOUS
        <4>2. <<s, r.counts[c]>> \in of(r) /\ <<s, r.counts[c]>>[1] = s
          BY <4>1
        <4> QED BY <4>2
      <3>3. count = UNION {of(r) : r \in Tunnels(rows)}
        OBVIOUS
      <3> HIDE DEF of, counts, count
      <3>4. \A p \in count : p[1] \in UNION sets
        BY <3>1, <3>3
      <3>5. \A s \in UNION sets : \E p \in count : p[1] = s
        BY <3>2, <3>3
      <3> HIDE DEF sets
      <3> QED BY <3>4, <3>5
    <2> HIDE DEF status, count, statuses, sets
    <2> QED BY <2>1, <2>2, <2>3
  <1>6. OneStatus(SeriesOf(rows))
    <2>1. \A s \in UNION sets : s.kind = "count"
      BY DEF Series
    <2>2. \A s \in statuses : \E r \in Tunnels(rows) : s = Series(r, "status", r.status) /\ s.id = r.id
      BY DEF Series
    <2> HIDE DEF statuses, sets
    <2> QED BY <1>2, <1>5, <2>1, <2>2 DEF OneStatus
  <1>7. IsFiniteSet(DOMAIN StatusesOf(rows))
    BY <1>4 DEF StatusesOf
  <1> HIDE DEF statuses, sets, counts
  <1>8. \A S \in sets : IsFiniteSet(S)
    BY <1>3 DEF sets
  <1>9. IsFiniteSet(UNION sets)
    BY <1>4, <1>8, FS_UNION
  <1>10. IsFiniteSet(statuses \cup UNION sets)
    BY <1>4, <1>9, FS_Union
  <1> QED BY <1>5, <1>6, <1>7, <1>10

LEMMA PointsOf ==
  ASSUME NEW f, IsFiniteSet(DOMAIN f)
  PROVE  /\ Points(f) \in Seq({<<s, f[s]>> : s \in DOMAIN f})
         /\ \A i \in 1 .. Len(Points(f)) : Points(f)[i][1] \in DOMAIN f /\ Points(f)[i][2] = f[Points(f)[i][1]]
         /\ \A s \in DOMAIN f : \E i \in 1 .. Len(Points(f)) : Points(f)[i][1] = s
  <1> DEFINE all == {<<s, f[s]>> : s \in DOMAIN f}
  <1>1. IsFiniteSet(all)
    <2> DEFINE point == [s \in DOMAIN f |-> <<s, f[s]>>]
    <2>1. DOMAIN point = DOMAIN f /\ {point[s] : s \in DOMAIN f} = all
      OBVIOUS
    <2> HIDE DEF point, all
    <2> QED BY <2>1, FiniteImage
  <1>2. \A p \in all : p[1] \in DOMAIN f /\ p[2] = f[p[1]]
    OBVIOUS
  <1>3. \A s \in DOMAIN f : \E p \in all : p[1] = s
    <2> TAKE s \in DOMAIN f
    <2>1. <<s, f[s]>> \in all /\ <<s, f[s]>>[1] = s
      OBVIOUS
    <2> QED BY <2>1
  <1> HIDE DEF all
  <1>4. Points(f) \in Seq(all) /\ \A p \in all : \E i \in 1 .. Len(Points(f)) : Points(f)[i] = p
    BY <1>1, SetInOrder DEF Points, all
  <1>5. \A i \in 1 .. Len(Points(f)) : Points(f)[i] \in all
    BY <1>4
  <1>6. \A s \in DOMAIN f : \E i \in 1 .. Len(Points(f)) : Points(f)[i][1] = s
    BY <1>3, <1>4
  <1> QED BY <1>2, <1>4, <1>5, <1>6 DEF all

ValueIn(f, s) == IF s \in DOMAIN f THEN f[s] ELSE 0

\* The first k of the points retire the series that new lacks, the others set
\* its series.
Retires(p, k, old, new) ==
  /\ Len(p) \in Nat /\ k \in 0 .. Len(p)
  /\ \A i \in 1 .. k : p[i][1] \in DOMAIN old \ DOMAIN new
  /\ \A i \in k + 1 .. Len(p) : p[i][1] \in DOMAIN new
  /\ \A i \in 1 .. Len(p) : p[i][2] = ValueIn(new, p[i][1])
  /\ \A s \in DOMAIN old \ DOMAIN new : \E i \in 1 .. k : p[i][1] = s
  /\ \A s \in DOMAIN new : \E i \in k + 1 .. Len(p) : p[i][1] = s

LEMMA BufferFacts ==
  ASSUME NEW old, NEW new, IsFiniteSet(DOMAIN old), IsFiniteSet(DOMAIN new)
  PROVE  \E k : Retires(Buffered(old, new), k, old, new)
  <1> DEFINE gone == Retired(old, new)
             p == Points(gone)
             q == Points(new)
             k == Len(p)
             n == Len(q)
             b == Buffered(old, new)
  <1>1. DOMAIN gone = DOMAIN old \ DOMAIN new /\ \A s \in DOMAIN gone : gone[s] = 0
    BY DEF Retired
  <1>2. IsFiniteSet(DOMAIN gone)
    BY <1>1, FS_Subset
  <1> HIDE DEF gone
  <1>3. /\ p \in Seq({<<s, gone[s]>> : s \in DOMAIN gone})
        /\ \A i \in 1 .. k : p[i][1] \in DOMAIN gone /\ p[i][2] = gone[p[i][1]]
        /\ \A s \in DOMAIN gone : \E i \in 1 .. k : p[i][1] = s
    BY <1>2, PointsOf
  <1>4. /\ q \in Seq({<<s, new[s]>> : s \in DOMAIN new})
        /\ \A i \in 1 .. n : q[i][1] \in DOMAIN new /\ q[i][2] = new[q[i][1]]
        /\ \A s \in DOMAIN new : \E i \in 1 .. n : q[i][1] = s
    BY PointsOf
  <1>5. b = p \o q
    BY DEF Buffered, gone
  <1> HIDE DEF p, q, b
  <1>6. /\ k \in Nat /\ n \in Nat /\ Len(b) = k + n
        /\ \A i \in 1 .. k : b[i] = p[i]
        /\ \A j \in 1 .. n : b[k + j] = q[j]
    <2> DEFINE P == {<<s, gone[s]>> : s \in DOMAIN gone}
               Q == {<<s, new[s]>> : s \in DOMAIN new}
    <2>1. p \in Seq(P) /\ q \in Seq(Q)
      BY <1>3, <1>4
    <2> HIDE DEF P, Q
    <2> QED BY <1>5, <2>1
  <1> HIDE DEF k, n
  <1>7. \A i \in 1 .. k : b[i][1] \in DOMAIN old \ DOMAIN new /\ b[i][2] = 0
    BY <1>1, <1>3, <1>6
  <1>8. \A i \in k + 1 .. Len(b) : i - k \in 1 .. n /\ b[i] = q[i - k]
    <2> TAKE i \in k + 1 .. Len(b)
    <2>1. k \in Nat /\ n \in Nat /\ i \in k + 1 .. k + n
      BY <1>6
    <2>2. i - k \in 1 .. n /\ k + (i - k) = i
      BY <2>1
    <2>3. b[k + (i - k)] = q[i - k]
      BY <1>6, <2>2
    <2> QED BY <2>2, <2>3
  <1>9. \A i \in k + 1 .. Len(b) : b[i][1] \in DOMAIN new /\ b[i][2] = new[b[i][1]]
    <2> TAKE i \in k + 1 .. Len(b)
    <2>1. i - k \in 1 .. n /\ b[i] = q[i - k]
      BY <1>8
    <2>2. q[i - k][1] \in DOMAIN new /\ q[i - k][2] = new[q[i - k][1]]
      BY <1>4, <2>1
    <2> QED BY <2>1, <2>2
  <1>10. \A i \in 1 .. Len(b) : b[i][2] = ValueIn(new, b[i][1])
    <2> TAKE i \in 1 .. Len(b)
    <2>1. i \in 1 .. k \/ i \in k + 1 .. Len(b)
      BY <1>6
    <2> QED BY <2>1, <1>7, <1>9 DEF ValueIn
  <1>11. \A s \in DOMAIN old \ DOMAIN new : \E i \in 1 .. k : b[i][1] = s
    BY <1>1, <1>3, <1>6
  <1>12. \A s \in DOMAIN new : \E i \in k + 1 .. Len(b) : b[i][1] = s
    <2> TAKE s \in DOMAIN new
    <2>1. PICK j \in 1 .. n : q[j][1] = s
      BY <1>4
    <2>2. k \in Nat /\ n \in Nat /\ Len(b) = k + n
      BY <1>6
    <2>3. k + j \in k + 1 .. Len(b)
      BY <2>2
    <2>4. b[k + j] = q[j]
      BY <1>6
    <2> QED BY <2>1, <2>3, <2>4
  <1>13. Len(b) \in Nat /\ k \in 0 .. Len(b)
    BY <1>6
  <1>14. Retires(b, k, old, new)
    BY <1>7, <1>9, <1>10, <1>11, <1>12, <1>13 DEF Retires
  <1> QED BY <1>14 DEF b

LEMMA NonZeroValues ==
  ASSUME NEW f, NEW g, \A s : ValueIn(f, s) = ValueIn(g, s)
  PROVE  NonZero(f) = NonZero(g)
  <1>1. \A s : ValueIn(f, s) = ValueIn(g, s)
    OBVIOUS
  <1>2. NonZero(f) = {<<s, f[s]>> : s \in {s \in DOMAIN f : f[s] # 0}} /\ NonZero(g) = {<<s, g[s]>> : s \in {s \in DOMAIN g : g[s] # 0}}
    BY DEF NonZero
  <1>3. \A s : s \in DOMAIN f /\ f[s] # 0 => s \in DOMAIN g /\ g[s] # 0 /\ f[s] = g[s]
    BY <1>1 DEF ValueIn
  <1>4. \A s : s \in DOMAIN g /\ g[s] # 0 => s \in DOMAIN f /\ f[s] # 0 /\ f[s] = g[s]
    BY <1>1 DEF ValueIn
  <1>5. \A s \in {s \in DOMAIN f : f[s] # 0} : <<s, f[s]>> \in NonZero(g)
    BY <1>3, <1>2
  <1>6. \A s \in {s \in DOMAIN g : g[s] # 0} : <<s, g[s]>> \in NonZero(f)
    BY <1>4, <1>2
  <1> QED BY <1>2, <1>5, <1>6

-----------------------------------------------------------------------------
(* The collector.                                                           *)

\* Stages of a poll, and the snapshot that is replayed or was replayed last:
\* of the listing accepted last.
StagesInv ==
  /\ stage \in {"idle", "drain", "build", "replay"}
  /\ stage \in {"drain", "build"} => ListedRows(read)
  /\ Replaying => pending.held /\ next \in Nat \ {0}
  /\ stage = "build" => ~pending.held
  /\ ListedRows(accepted) /\ IsFiniteSet(DOMAIN metrics) /\ OneStatus(metrics)
SnapshotInv ==
  IF pending.held
  THEN /\ pending = [held |-> TRUE, statuses |-> StatusesOf(accepted), metrics |-> SeriesOf(accepted),
                     points |-> Buffered(metrics, SeriesOf(accepted)), records |-> pending.records]
       /\ IsFiniteSet(pending.records)
  ELSE pending = NoPending /\ previous = StatusesOf(accepted) /\ metrics = SeriesOf(accepted)

\* What the SDK shows: each series as in the last snapshot replayed in full or
\* in the pending one, and nothing new before all that it retires is at zero.
Played(p, n, f) == \A i \in 1 .. Len(p) : i < n => ValueIn(f, p[i][1]) = p[i][2]
SeriesInv ==
  IF pending.held
  THEN LET new == pending.metrics
       IN  /\ \A s : ValueIn(sdk, s) \in {ValueIn(metrics, s), ValueIn(new, s)}
           /\ \/ \A s \in DOMAIN new : ValueIn(sdk, s) = ValueIn(metrics, s)
              \/ \A s \in DOMAIN metrics \ DOMAIN new : ValueIn(sdk, s) = 0
           /\ Replaying => Played(pending.points, next, sdk)
  ELSE \A s : ValueIn(sdk, s) = ValueIn(metrics, s)

\* The changes exported, and those still to be.
RecordsInv ==
  LET records == IF pending.held THEN pending.records ELSE {}
  IN  /\ exported \subseteq changes /\ records \subseteq changes /\ changes \subseteq exported \cup records
      /\ Replaying => \A i \in 1 .. Len(SetToSeq(records)) :
           Len(pending.points) + i < next => SetToSeq(records)[i] \in exported

TunnelInv == StagesInv /\ SnapshotInv /\ SeriesInv /\ RecordsInv

\* The pending snapshot's parts.
LEMMA PendingFacts ==
  ASSUME StagesInv, SnapshotInv, pending.held
  PROVE  /\ pending.statuses = StatusesOf(accepted) /\ pending.metrics = SeriesOf(accepted)
         /\ IsFiniteSet(DOMAIN pending.metrics) /\ OneStatus(pending.metrics)
         /\ \E k : Retires(pending.points, k, metrics, pending.metrics)
         /\ SetToSeq(pending.records) \in Seq(pending.records)
         /\ \A r \in pending.records : \E i \in 1 .. Len(SetToSeq(pending.records)) : SetToSeq(pending.records)[i] = r
         /\ Len(Calls(pending)) = Len(pending.points) + Len(SetToSeq(pending.records))
         /\ \A i \in 1 .. Len(SetToSeq(pending.records)) :
              Calls(pending)[Len(pending.points) + i] = SetToSeq(pending.records)[i]
  <1>1. /\ pending.statuses = StatusesOf(accepted) /\ pending.metrics = SeriesOf(accepted)
        /\ pending.points = Buffered(metrics, SeriesOf(accepted)) /\ IsFiniteSet(pending.records)
    BY DEF SnapshotInv
  <1>2. IsFiniteSet(DOMAIN pending.metrics) /\ OneStatus(pending.metrics)
    BY <1>1, SeriesFacts DEF StagesInv
  <1>3. \E k : Retires(pending.points, k, metrics, pending.metrics)
    BY <1>1, <1>2, BufferFacts DEF StagesInv
  <1> DEFINE records == pending.records
             q == SetToSeq(records)
             p == pending.points
  <1>4. q \in Seq(records) /\ \A r \in records : \E i \in 1 .. Len(q) : q[i] = r
    <2> HIDE DEF records
    <2>1. IsFiniteSet(records)
      BY <1>1 DEF records
    <2> QED BY <2>1, SetInOrder
  <1>5. \E T : p \in Seq(T)
    <2> DEFINE P == {<<s, Retired(metrics, pending.metrics)[s]>> : s \in DOMAIN Retired(metrics, pending.metrics)}
               Q == {<<s, pending.metrics[s]>> : s \in DOMAIN pending.metrics}
               a == Points(Retired(metrics, pending.metrics))
               b == Points(pending.metrics)
    <2>1. IsFiniteSet(DOMAIN Retired(metrics, pending.metrics))
      <3>1. DOMAIN Retired(metrics, pending.metrics) \in SUBSET DOMAIN metrics
        BY DEF Retired
      <3> QED BY <3>1, FS_Subset DEF StagesInv
    <2>2. a \in Seq(P) /\ b \in Seq(Q)
      BY <1>2, <2>1, PointsOf
    <2>3. p = a \o b
      BY <1>1 DEF Buffered
    <2> HIDE DEF P, Q, a, b, p
    <2>4. p \in Seq(P \cup Q)
      BY <2>2, <2>3
    <2> QED BY <2>4
  <1>6. Calls(pending) = p \o q
    BY DEF Calls
  <1> HIDE DEF p, q, records
  <1>7. /\ Len(p \o q) = Len(p) + Len(q)
        /\ \A i \in 1 .. Len(q) : (p \o q)[Len(p) + i] = q[i]
    BY <1>4, <1>5
  <1> QED BY <1>1, <1>2, <1>3, <1>4, <1>6, <1>7 DEF p, q, records

\* What the invariant says between polls and of the statuses shown.
LEMMA TunnelSays == TunnelInv => TunnelsTold
  <1> SUFFICES ASSUME TunnelInv PROVE TunnelsTold
    OBVIOUS
  <1>1. StagesInv /\ SnapshotInv /\ SeriesInv /\ RecordsInv
    BY DEF TunnelInv
  <1>2. ASSUME NEW s \in DOMAIN sdk, NEW o \in DOMAIN sdk, s.kind = "status", o.kind = "status",
               s.id = o.id, sdk[s] = 1, sdk[o] = 1
        PROVE  s = o
    <2>1. ValueIn(sdk, s) = 1 /\ ValueIn(sdk, o) = 1
      BY <1>2 DEF ValueIn
    <2>2. OneStatus(metrics) /\ (ValueIn(metrics, s) = 1 => s \in DOMAIN metrics)
          /\ (ValueIn(metrics, o) = 1 => o \in DOMAIN metrics)
      BY <1>1 DEF StagesInv, ValueIn
    <2>3. CASE ~pending.held
      BY <1>1, <1>2, <2>1, <2>2, <2>3 DEF SeriesInv, OneStatus
    <2>4. CASE pending.held
      <3> DEFINE new == pending.metrics
      <3>1. OneStatus(new) /\ (ValueIn(new, s) = 1 => s \in DOMAIN new) /\ (ValueIn(new, o) = 1 => o \in DOMAIN new)
        BY <1>1, <2>4, PendingFacts DEF ValueIn
      <3>2. /\ ValueIn(metrics, s) = 1 \/ ValueIn(new, s) = 1
            /\ ValueIn(metrics, o) = 1 \/ ValueIn(new, o) = 1
            /\ \/ \A t \in DOMAIN new : ValueIn(sdk, t) = ValueIn(metrics, t)
               \/ \A t \in DOMAIN metrics \ DOMAIN new : ValueIn(sdk, t) = 0
        <4>1. /\ ValueIn(sdk, s) \in {ValueIn(metrics, s), ValueIn(new, s)}
              /\ ValueIn(sdk, o) \in {ValueIn(metrics, o), ValueIn(new, o)}
              /\ \/ \A t \in DOMAIN new : ValueIn(sdk, t) = ValueIn(metrics, t)
                 \/ \A t \in DOMAIN metrics \ DOMAIN new : ValueIn(sdk, t) = 0
          BY <1>1, <2>4 DEF SeriesInv
        <4> QED BY <2>1, <4>1
      <3> HIDE DEF new
      <3>3. CASE \A t \in DOMAIN new : ValueIn(sdk, t) = ValueIn(metrics, t)
        BY <1>2, <2>1, <2>2, <3>1, <3>2, <3>3 DEF OneStatus
      <3>4. CASE \A t \in DOMAIN metrics \ DOMAIN new : ValueIn(sdk, t) = 0
        BY <1>2, <2>1, <2>2, <3>1, <3>2, <3>4 DEF OneStatus
      <3> QED BY <3>2, <3>3, <3>4
    <2> QED BY <2>3, <2>4
  <1>3. ~pending.held => NonZero(sdk) = NonZero(SeriesOf(accepted)) /\ exported = changes
    <2> SUFFICES ASSUME ~pending.held PROVE NonZero(sdk) = NonZero(SeriesOf(accepted)) /\ exported = changes
      OBVIOUS
    <2>1. metrics = SeriesOf(accepted) /\ \A s : ValueIn(sdk, s) = ValueIn(metrics, s)
      BY <1>1 DEF SnapshotInv, SeriesInv
    <2>2. NonZero(sdk) = NonZero(metrics)
      BY <2>1, NonZeroValues
    <2> QED BY <1>1, <2>1, <2>2 DEF RecordsInv
  <1>4. exported \subseteq changes
    BY <1>1 DEF RecordsInv
  <1> QED BY <1>2, <1>3, <1>4 DEF TunnelsTold, StatusFollows, ChangesTold

LEMMA NothingListed ==
  /\ ListedRows(<< >>) /\ StatusesOf(<< >>) = Empty /\ SeriesOf(<< >>) = Empty
  /\ DOMAIN Empty = {} /\ IsFiniteSet({}) /\ \A s : ValueIn(Empty, s) = 0
  <1>1. Tunnels(<< >>) = {} /\ Present(<< >>) = {}
    BY DEF Tunnels, Present
  <1>2. StatusesOf(<< >>) = Empty
    BY <1>1 DEF StatusesOf, Empty
  <1>3. DOMAIN SeriesOf(<< >>) = {}
    BY <1>1 DEF SeriesOf
  <1>4. SeriesOf(<< >>) = Empty
    BY <1>1 DEF SeriesOf, Empty
  <1> QED BY <1>1, <1>2, <1>4, FS_EmptySet DEF ListedRows, Valid, Empty, ValueIn

LEMMA TunnelBegins == TunnelInit => TunnelInv
  BY NothingListed DEF TunnelInit, TunnelInv, StagesInv, SnapshotInv, SeriesInv, RecordsInv, NoPending, OneStatus, Replaying

\* A listing that is read, and one that is taken as the pending snapshot.
LEMMA ReadInv == ASSUME TunnelInv, NEW rows \in Listings, Read(rows) PROVE TunnelInv'
  <1>1. /\ stage = "idle"
        /\ \/ Valid(rows) /\ read' = rows /\ next' = 1 /\ stage' = IF pending.held THEN "drain" ELSE "build"
           \/ UNCHANGED <<stage, read, next>>
        /\ UNCHANGED <<previous, metrics, pending, sdk, exported, accepted, changes>>
    BY DEF Read
  <1>2. StagesInv'
    BY <1>1 DEF TunnelInv, StagesInv, Replaying, ListedRows
  <1>3. SnapshotInv'
    BY <1>1 DEF TunnelInv, SnapshotInv
  <1>4. SeriesInv'
    <2>1. SeriesInv
      BY DEF TunnelInv
    <2>2. CASE ~pending.held
      BY <1>1, <2>1, <2>2 DEF SeriesInv
    <2>3. CASE pending.held
      <3>1. Replaying' => Played(pending.points, next', sdk)
        <4>1. PICK k : Retires(pending.points, k, metrics, pending.metrics)
          BY <2>3, PendingFacts DEF TunnelInv
        <4> QED BY <1>1, <4>1 DEF Replaying, Played, Retires
      <3> QED BY <1>1, <2>1, <2>3, <3>1 DEF SeriesInv, Played
    <2> QED BY <2>2, <2>3
  <1>5. RecordsInv'
    <2>1. RecordsInv
      BY DEF TunnelInv
    <2>2. CASE ~pending.held
      BY <1>1, <2>1, <2>2 DEF RecordsInv, Replaying
    <2>3. CASE pending.held
      <3>1. PICK k : Retires(pending.points, k, metrics, pending.metrics)
        BY <2>3, PendingFacts DEF TunnelInv
      <3>2. Replaying' => \A i \in 1 .. Len(SetToSeq(pending.records)) : ~(Len(pending.points) + i < next')
        BY <1>1, <3>1 DEF Replaying, Retires
      <3> QED BY <1>1, <2>1, <2>3, <3>2 DEF RecordsInv
    <2> QED BY <2>2, <2>3
  <1> QED BY <1>2, <1>3, <1>4, <1>5 DEF TunnelInv

LEMMA BuildInv == ASSUME TunnelInv, BuildNext PROVE TunnelInv'
  <1> DEFINE new == SeriesOf(read)
             records == ChangesFrom(previous, read, polls)
             built == [held |-> TRUE, statuses |-> StatusesOf(read), metrics |-> new,
                       points |-> Buffered(metrics, new), records |-> records]
  <1>1. /\ stage = "build" /\ stage' = "replay" /\ next' = 1
        /\ pending' = built /\ accepted' = read
        /\ changes' = changes \cup ChangesFrom(StatusesOf(accepted), read, polls)
        /\ UNCHANGED <<polls, previous, metrics, sdk, exported>>
    BY DEF BuildNext, Build
  <1>2. /\ ListedRows(read) /\ ~pending.held /\ IsFiniteSet(DOMAIN metrics) /\ OneStatus(metrics)
        /\ previous = StatusesOf(accepted) /\ \A s : ValueIn(sdk, s) = ValueIn(metrics, s)
        /\ exported = changes
    BY <1>1 DEF TunnelInv, StagesInv, SnapshotInv, SeriesInv, RecordsInv
  <1>3. IsFiniteSet(records)
    <2> DEFINE now == StatusesOf(read)
               ids == {id \in DOMAIN previous \cap DOMAIN now : previous[id] # now[id]}
               change == [id \in ids |-> [id |-> id, from |-> previous[id], to |-> now[id], at |-> polls]]
    <2>1. IsFiniteSet(DOMAIN now)
      BY <1>2, SeriesFacts
    <2>2. ids \in SUBSET DOMAIN now
      OBVIOUS
    <2>3. DOMAIN change = ids /\ {change[id] : id \in ids} = records
      BY DEF ChangesFrom
    <2> HIDE DEF now, ids, change
    <2>4. IsFiniteSet(ids)
      BY <2>1, <2>2, FS_Subset
    <2> HIDE DEF records
    <2> QED BY <2>3, <2>4, FiniteImage
  <1>4. /\ built.held = TRUE /\ built.statuses = StatusesOf(read) /\ built.metrics = new
        /\ built.points = Buffered(metrics, new) /\ built.records = records
    OBVIOUS
  <1>5. changes' = changes \cup records
    BY <1>1, <1>2
  <1> HIDE DEF records, new
  <1>6. StagesInv'
    BY <1>1, <1>2, <1>4 DEF StagesInv, Replaying
  <1>7. SnapshotInv'
    BY <1>1, <1>3, <1>4 DEF SnapshotInv, new
  <1>8. StagesInv' /\ SnapshotInv' /\ pending'.held
    BY <1>1, <1>4, <1>6, <1>7
  <1>9. \A i \in Int : i >= 1 => ~(i < next')
    BY <1>1
  <1> HIDE DEF built
  <1>10. SeriesInv'
    <2>1. IsFiniteSet(DOMAIN new)
      BY <1>2, SeriesFacts DEF new
    <2>2. PICK k : Retires(built.points, k, metrics, new)
      BY <1>2, <1>4, <2>1, BufferFacts
    <2>3. Played(built.points, next', sdk)
      BY <1>9, <2>2 DEF Played, Retires
    <2> QED BY <1>1, <1>2, <1>4, <2>3 DEF SeriesInv, Played
  <1>11. RecordsInv'
    <2>1. IsFiniteSet(DOMAIN new)
      BY <1>2, SeriesFacts DEF new
    <2>2. PICK k : Retires(built.points, k, metrics, new)
      BY <1>2, <1>4, <2>1, BufferFacts
    <2>3. \A i \in 1 .. Len(SetToSeq(records)) : ~(Len(built.points) + i < next')
      BY <1>9, <2>2 DEF Retires
    <2> QED BY <1>1, <1>2, <1>4, <1>5, <2>3 DEF RecordsInv
  <1> QED BY <1>6, <1>7, <1>10, <1>11 DEF TunnelInv

\* A point of the pending snapshot is given to the SDK: one that retires a
\* series, or one that sets a new one when all are retired.
LEMMA ReplayPointInv == ASSUME TunnelInv, ReplayPoint PROVE TunnelInv'
  <1> DEFINE p == pending.points
             new == pending.metrics
             s0 == p[next][1]
  <1>1. /\ Replaying /\ next <= Len(p) /\ next' = next + 1
        /\ sdk' = [s \in DOMAIN sdk \cup {s0} |-> IF s = s0 THEN p[next][2] ELSE sdk[s]]
        /\ UNCHANGED <<polls, stage, read, previous, metrics, pending, exported, accepted, changes>>
    BY DEF ReplayPoint
  <1>2. StagesInv /\ SnapshotInv /\ SeriesInv /\ RecordsInv /\ pending.held /\ next \in Nat \ {0}
    BY <1>1 DEF TunnelInv, StagesInv
  <1>3. PICK k : Retires(p, k, metrics, new)
    BY <1>2, PendingFacts
  <1>4. /\ \A s : ValueIn(sdk, s) \in {ValueIn(metrics, s), ValueIn(new, s)}
        /\ \/ \A s \in DOMAIN new : ValueIn(sdk, s) = ValueIn(metrics, s)
           \/ \A s \in DOMAIN metrics \ DOMAIN new : ValueIn(sdk, s) = 0
        /\ Played(p, next, sdk)
    BY <1>1, <1>2 DEF SeriesInv
  <1>5. next \in 1 .. Len(p) /\ Len(p) \in Nat /\ k \in 0 .. Len(p)
    BY <1>1, <1>2, <1>3 DEF Retires
  <1>6. p[next][2] = ValueIn(new, s0)
    BY <1>3, <1>5 DEF Retires
  <1>7. \A s : ValueIn(sdk', s) = IF s = s0 THEN ValueIn(new, s0) ELSE ValueIn(sdk, s)
    <2> HIDE DEF s0, p
    <2> QED BY <1>1, <1>6 DEF ValueIn
  <1>8. Played(p, next', sdk')
    <2> SUFFICES ASSUME NEW i \in 1 .. Len(p), i < next' PROVE ValueIn(sdk', p[i][1]) = p[i][2]
      BY DEF Played
    <2>1. i < next \/ i = next
      BY <1>1, <1>5
    <2>2. p[i][2] = ValueIn(new, p[i][1])
      BY <1>3 DEF Retires
    <2>3. CASE p[i][1] = s0
      <3> HIDE DEF s0, p
      <3> QED BY <1>7, <2>2, <2>3
    <2>4. CASE p[i][1] # s0
      <3>1. i < next
        BY <2>1, <2>4
      <3>2. ValueIn(sdk, p[i][1]) = p[i][2]
        BY <1>4, <3>1 DEF Played
      <3> HIDE DEF s0, p
      <3> QED BY <1>7, <2>4, <3>2
    <2> QED BY <2>3, <2>4
  <1>9. \/ \A s \in DOMAIN new : ValueIn(sdk', s) = ValueIn(metrics, s)
        \/ \A s \in DOMAIN metrics \ DOMAIN new : ValueIn(sdk', s) = 0
    <2>1. CASE next <= k
      <3>1. next \in 1 .. k
        BY <1>5, <2>1
      <3>2. s0 \in DOMAIN metrics \ DOMAIN new
        BY <1>3, <3>1 DEF Retires
      <3> HIDE DEF s0
      <3>3. ValueIn(new, s0) = 0
        BY <3>2 DEF ValueIn
      <3> QED BY <1>4, <1>7, <3>2, <3>3
    <2>2. CASE ~(next <= k)
      <3>1. next \in k + 1 .. Len(p) /\ \A i \in 1 .. k : i \in 1 .. Len(p) /\ i < next
        BY <1>5, <2>2
      <3>2. s0 \in DOMAIN new
        BY <1>3, <3>1 DEF Retires
      <3>3. ASSUME NEW s \in DOMAIN metrics \ DOMAIN new PROVE ValueIn(sdk, s) = 0
        <4>1. PICK i \in 1 .. k : p[i][1] = s
          BY <1>3 DEF Retires
        <4>2. p[i][2] = ValueIn(new, s) /\ ValueIn(sdk, s) = p[i][2]
          BY <1>3, <1>4, <3>1, <4>1 DEF Retires, Played
        <4> QED BY <4>2 DEF ValueIn
      <3> HIDE DEF s0
      <3> QED BY <1>7, <3>2, <3>3
    <2> QED BY <2>1, <2>2
  <1>10. SeriesInv'
    <2> HIDE DEF s0, p, new
    <2>1. \A s : ValueIn(sdk', s) \in {ValueIn(metrics, s), ValueIn(new, s)}
      BY <1>4, <1>7
    <2> QED BY <1>1, <1>2, <1>8, <1>9, <2>1 DEF SeriesInv, Played, p, new
  <1>11. StagesInv'
    BY <1>1, <1>2 DEF StagesInv, Replaying
  <1>12. SnapshotInv'
    BY <1>1, <1>2 DEF SnapshotInv
  <1>13. RecordsInv'
    <2>1. \A i \in 1 .. Len(SetToSeq(pending.records)) : ~(Len(p) + i < next')
      BY <1>1, <1>5
    <2> QED BY <1>1, <1>2, <2>1 DEF RecordsInv
  <1> QED BY <1>10, <1>11, <1>12, <1>13 DEF TunnelInv

\* A change is exported.
LEMMA ReplayRecordInv == ASSUME TunnelInv, ReplayRecord PROVE TunnelInv'
  <1> DEFINE p == pending.points
             records == pending.records
             q == SetToSeq(records)
  <1>1. /\ Replaying /\ next > Len(p) /\ next <= Len(Calls(pending)) /\ next' = next + 1
        /\ exported' = exported \cup {Calls(pending)[next]}
        /\ UNCHANGED <<polls, stage, read, previous, metrics, pending, sdk, accepted, changes>>
    BY DEF ReplayRecord
  <1>2. StagesInv /\ SnapshotInv /\ SeriesInv /\ RecordsInv /\ pending.held /\ next \in Nat \ {0}
    BY <1>1 DEF TunnelInv, StagesInv
  <1>3. /\ Len(p) \in Nat /\ q \in Seq(records) /\ Len(Calls(pending)) = Len(p) + Len(q)
        /\ \A i \in 1 .. Len(q) : Calls(pending)[Len(p) + i] = q[i]
    <2>1. PICK k : Retires(p, k, metrics, pending.metrics)
      BY <1>2, PendingFacts
    <2>2. Len(p) \in Nat
      BY <2>1 DEF Retires
    <2> QED BY <1>2, <2>2, PendingFacts
  <1> HIDE DEF q
  <1>4. Len(q) \in Nat
    BY <1>3
  <1> DEFINE j == next - Len(p)
  <1>5. j \in 1 .. Len(q) /\ Len(p) + j = next
    BY <1>1, <1>2, <1>3, <1>4
  <1>6. Calls(pending)[next] = q[j] /\ q[j] \in records
    <2>1. Calls(pending)[Len(p) + j] = q[j]
      BY <1>3, <1>5
    <2>2. q[j] \in records
      BY <1>3, <1>5
    <2> QED BY <1>5, <2>1, <2>2
  <1>7. exported' = exported \cup {q[j]}
    BY <1>1, <1>6
  <1>8. ASSUME NEW i \in 1 .. Len(q), Len(p) + i < next' PROVE q[i] \in exported'
    <2>1. Len(p) + i < next \/ i = j
      <3>1. Len(p) \in Nat /\ next \in Nat /\ i \in Nat /\ Len(p) + i < next + 1
        BY <1>1, <1>2, <1>3, <1>8
      <3> HIDE DEF p
      <3> QED BY <3>1
    <2>2. Len(p) + i < next => q[i] \in exported
      BY <1>1, <1>2 DEF RecordsInv, q
    <2> QED BY <1>7, <2>1, <2>2
  <1>9. RecordsInv'
    <2>1. /\ exported \subseteq changes /\ records \subseteq changes /\ changes \subseteq exported \cup records
      BY <1>2 DEF RecordsInv
    <2> HIDE DEF j
    <2> QED BY <1>1, <1>2, <1>6, <1>7, <1>8, <2>1 DEF RecordsInv, q
  <1>10. StagesInv'
    BY <1>1, <1>2 DEF StagesInv, Replaying
  <1>11. SnapshotInv'
    BY <1>1, <1>2 DEF SnapshotInv
  <1>12. SeriesInv'
    <2>1. Played(p, next', sdk)
      BY <1>1, <1>2, <1>3 DEF SeriesInv, Played
    <2> QED BY <1>1, <1>2, <2>1 DEF SeriesInv, Played
  <1> QED BY <1>9, <1>10, <1>11, <1>12 DEF TunnelInv

LEMMA ReplayFailsInv == ASSUME TunnelInv, ReplayFails PROVE TunnelInv'
  <1>1. /\ stage' = "idle" /\ Replaying
        /\ UNCHANGED <<polls, previous, metrics, pending, sdk, exported, accepted, changes>>
    BY DEF ReplayFails, Kept
  <1>2. StagesInv /\ SnapshotInv /\ SeriesInv /\ RecordsInv
    BY DEF TunnelInv
  <1>3. StagesInv'
    BY <1>1, <1>2 DEF StagesInv, Replaying
  <1>4. SnapshotInv'
    BY <1>1, <1>2 DEF SnapshotInv
  <1>5. SeriesInv' /\ RecordsInv'
    BY <1>1, <1>2 DEF SeriesInv, RecordsInv, Replaying
  <1> QED BY <1>3, <1>4, <1>5 DEF TunnelInv

\* All of the snapshot is replayed: it is the one the SDK shows and the next is
\* compared with.
LEMMA ReplayEndsInv == ASSUME TunnelInv, ReplayEnds PROVE TunnelInv'
  <1> DEFINE p == pending.points
             new == pending.metrics
             q == SetToSeq(pending.records)
  <1>1. /\ Replaying /\ next > Len(Calls(pending))
        /\ previous' = pending.statuses /\ metrics' = new /\ pending' = NoPending
        /\ stage' = IF stage = "drain" THEN "build" ELSE "idle"
        /\ UNCHANGED <<polls, read, sdk, exported, accepted, changes>>
    BY DEF ReplayEnds
  <1>2. StagesInv /\ SnapshotInv /\ SeriesInv /\ RecordsInv /\ pending.held /\ next \in Nat \ {0} /\ ~NoPending.held
    BY <1>1 DEF TunnelInv, StagesInv, NoPending
  <1>3. /\ pending.statuses = StatusesOf(accepted) /\ new = SeriesOf(accepted)
        /\ IsFiniteSet(DOMAIN new) /\ OneStatus(new)
        /\ q \in Seq(pending.records) /\ \A r \in pending.records : \E i \in 1 .. Len(q) : q[i] = r
    BY <1>2, PendingFacts
  <1>4. Len(Calls(pending)) = Len(p) + Len(q)
    BY <1>2, PendingFacts
  <1>5. PICK k : Retires(p, k, metrics, new)
    BY <1>2, PendingFacts
  <1>6. Len(p) \in Nat /\ Len(q) \in Nat /\ Len(p) < next /\ \A i \in 1 .. Len(q) : Len(p) + i < next
    <2>1. Len(p) \in Nat /\ Len(q) \in Nat
      BY <1>3, <1>5 DEF Retires
    <2> HIDE DEF p, q
    <2> QED BY <1>1, <1>2, <1>4, <2>1
  <1>7. ASSUME NEW s PROVE ValueIn(sdk, s) = ValueIn(new, s)
    <2>1. ValueIn(sdk, s) \in {ValueIn(metrics, s), ValueIn(new, s)} /\ Played(p, next, sdk)
      BY <1>1, <1>2 DEF SeriesInv
    <2>2. CASE s \notin DOMAIN metrics /\ s \notin DOMAIN new
      BY <2>1, <2>2 DEF ValueIn
    <2>3. CASE s \in DOMAIN metrics \/ s \in DOMAIN new
      <3>1. PICK i \in 1 .. Len(p) : p[i][1] = s
        BY <1>5, <1>6, <2>3 DEF Retires
      <3>2. p[i][2] = ValueIn(new, s)
        BY <1>5, <3>1 DEF Retires
      <3>3. i < next
        BY <1>2, <1>6
      <3> QED BY <2>1, <3>1, <3>2, <3>3 DEF Played
    <2> QED BY <2>2, <2>3
  <1>8. changes = exported
    <2>1. \A i \in 1 .. Len(q) : q[i] \in exported
      BY <1>1, <1>2, <1>6 DEF RecordsInv
    <2>2. \A r \in pending.records : r \in exported
      BY <1>3, <2>1
    <2>3. exported \subseteq changes /\ changes \subseteq exported \cup pending.records
      BY <1>2 DEF RecordsInv
    <2> QED BY <2>2, <2>3
  <1>9. StagesInv'
    BY <1>1, <1>2, <1>3 DEF StagesInv, Replaying
  <1>10. SnapshotInv'
    BY <1>1, <1>2, <1>3 DEF SnapshotInv
  <1>11. SeriesInv'
    <2> HIDE DEF new
    <2> QED BY <1>1, <1>2, <1>7 DEF SeriesInv
  <1>12. RecordsInv'
    BY <1>1, <1>2, <1>8 DEF RecordsInv, Replaying
  <1> QED BY <1>9, <1>10, <1>11, <1>12 DEF TunnelInv

LEMMA RestartTunnelsInv == ASSUME TunnelInv, RestartTunnels PROVE TunnelInv'
  <1>1. /\ stage' = "idle" /\ previous' = Empty /\ metrics' = Empty /\ pending' = NoPending /\ sdk' = Empty
        /\ exported' = {} /\ accepted' = << >> /\ changes' = {}
    BY DEF RestartTunnels
  <1> QED BY <1>1, NothingListed DEF TunnelInv, StagesInv, SnapshotInv, SeriesInv, RecordsInv, NoPending, OneStatus, Replaying

LEMMA TunnelStays == ASSUME TunnelInv, UNCHANGED tunnel PROVE TunnelInv'
  <1>1. UNCHANGED <<polls, stage, read, previous, metrics, pending, next, sdk, exported, accepted, changes>>
    BY DEF tunnel
  <1>2. StagesInv'
    BY <1>1 DEF TunnelInv, StagesInv, Replaying
  <1>3. SnapshotInv'
    BY <1>1 DEF TunnelInv, SnapshotInv
  <1>4. SeriesInv' /\ RecordsInv'
    BY <1>1 DEF TunnelInv, SeriesInv, RecordsInv, Replaying, Played
  <1> QED BY <1>2, <1>3, <1>4 DEF TunnelInv

\* Statuses and their changes survive failed replays, however often they are
\* repeated and whatever listings come between (Collect, finishPending).
THEOREM TunnelsAlwaysTold == TunnelSpec => []TunnelsTold
  <1>1. TunnelInv /\ [TunnelNext]_tunnel => TunnelInv'
    BY ReadInv, BuildInv, ReplayPointInv, ReplayRecordInv, ReplayFailsInv, ReplayEndsInv, RestartTunnelsInv,
       TunnelStays DEF TunnelNext
  <1> QED BY TunnelBegins, TunnelSays, <1>1, PTL DEF TunnelSpec

-----------------------------------------------------------------------------
(* GatewayLogs: what a call returns and what a cut leaves to the next one,*)
(* for all gateways, pages, delays, budgets, caps and orders in which      *)
(* pages and details arrive.  First, the inductive invariant.              *)

Aligned(t) == t % Tenths = 0
InCall(r) == r \in logged /\ call.from <= r.at /\ r.at < call.to
RowsOf(details) == {details[i].row : i \in DOMAIN details}

Detail == [row : logged, got : BOOLEAN, at : Nat, missing : BOOLEAN]
Retained == {d \in Detail : d.got /\ (d.missing => d.row.body = "off")}

\* What the call may emit: read long enough ago for no one, and again if it was missing.
Fresh(d) ==
  /\ d.at > call.began - CacheTTL
  /\ d.missing /\ d.row.body = "late" => d.at >= call.began

CallFields ==
  {"stage", "from", "to", "budget", "began", "pagers", "pos", "buffered", "listed", "round",
   "queue", "flight", "group", "goal", "out", "any", "mark"}
Pager == [page : Nat, seen : SUBSET logged, pending : SUBSET logged, last : Nat, done : BOOLEAN]

\* The parts of the state that outlive a call.
BaseInv ==
  /\ logged \in GatewayWorlds
  /\ instant \in Nat /\ logMark \in Nat /\ Aligned(logMark)
  /\ retained \in Seq(Retained)
  /\ call = NoCall \/ (DOMAIN call = CallFields /\ call.stage \in {"list", "emit", "returned"})

\* The window of the call, and how far it has been emitted or is about to be.
Limit == IF call.stage = "list" THEN call.pos ELSE call.goal
WindowInv ==
  /\ call.from \in Nat /\ call.to \in Nat /\ call.pos \in Nat /\ call.goal \in Nat /\ call.began \in Nat
  /\ call.from < call.to /\ call.from <= call.pos /\ call.pos < call.to /\ call.began <= instant
  /\ Aligned(call.from) /\ Aligned(call.to) /\ Aligned(call.pos)
  /\ call.round \in SUBSET Gateways /\ \A g \in call.round : ~call.pagers[g].done
  /\ call.stage = "emit" => call.pos < call.goal /\ call.goal <= call.to /\ Aligned(call.goal)

\* What a list had when the call began.
Known(g) ==
  {r \in logged : r.gateway = g /\ r.at + r.delay <= call.began /\ call.from <= r.at /\ r.at < call.to}

\* A row that has been in the list since the call began only moves to later
\* pages: it is seen once the pages, or a row behind it, have been read.
PagerInv ==
  /\ call.pagers \in [Gateways -> Pager]
  /\ \A g \in Gateways :
       LET p == call.pagers[g]
       IN  /\ p.last <= call.to /\ p.pending \subseteq p.seen
           /\ \A r \in p.seen : r.gateway = g /\ InCall(r)
           /\ \A r \in Known(g) :
                \/ r \in p.seen
                \/ /\ ~p.done /\ p.last <= r.at
                   /\ p.page * GatewayPage <= Before(r, ListOf(g, call.from, call.to))

\* Rows are emitted, about to be, or wait behind the limit, which no pager is behind.
StageInv ==
  \A g \in Gateways :
    LET p == call.pagers[g]
    IN  /\ Limit <= Horizon(p, call)
        /\ \A r \in p.pending : Limit <= r.at
        /\ \A r \in p.seen \ p.pending : r \in RowsOf(call.out) \cup RowsOf(call.group) \cup call.queue

\* Emitted in order, before the second being gathered, before the rest.
Ordered(details) == \A i, j \in DOMAIN details : i < j => Earlier(details[i].row, details[j].row)
EmitInv ==
  /\ call.out \in Seq(Detail) /\ call.group \in Seq(Detail)
  /\ Ordered(call.out) /\ Ordered(call.group)
  /\ \A i \in DOMAIN call.out :
       InCall(call.out[i].row) /\ call.out[i].row.at < Limit /\ Fresh(call.out[i])
  /\ \A i \in DOMAIN call.group : Fresh(call.group[i])
  /\ call.any => call.out # << >>
  /\ call.stage = "list" =>
       call.group = << >> /\ call.queue = {}
  /\ call.stage = "emit" =>
       /\ \A r \in RowsOf(call.group) \cup call.queue : InCall(r) /\ call.pos <= r.at /\ r.at < call.goal
       /\ \A o \in RowsOf(call.out), r \in RowsOf(call.group) \cup call.queue :
            Truncate(o.at) < Truncate(r.at)
       /\ \A i \in DOMAIN call.group : Truncate(call.group[i].row.at) = Truncate(call.group[1].row.at)
       /\ \A r \in RowsOf(call.group), o \in call.queue : Earlier(r, o)

FlightInv ==
  call.stage = "emit" =>
    \A d \in call.flight : d \in Detail /\ (d.got => Fresh(d))

GatewayInv ==
  /\ BaseInv
  /\ call.stage \in {"list", "emit"} => WindowInv /\ PagerInv /\ StageInv /\ EmitInv /\ FlightInv
  /\ call.stage = "returned" => GatewaySound /\ call.mark \in Nat

-----------------------------------------------------------------------------
(* Seconds of the source. *)

LEMMA DivFacts ==
  ASSUME NEW t \in Nat
  PROVE  /\ t \div Tenths \in Nat
         /\ t % Tenths \in 0 .. Tenths - 1
         /\ t = Tenths * (t \div Tenths) + (t % Tenths)
  <1>1. Tenths \in Nat \ {0}
    BY GatewayAssumption
  <1>2. t \div Tenths \in Int /\ t % Tenths \in 0 .. Tenths - 1 /\ t = Tenths * (t \div Tenths) + (t % Tenths)
    BY <1>1
  <1>3. t \div Tenths >= 0
    BY <1>1
  <1> QED BY <1>2, <1>3

\* A second starts at a multiple, at or before the instant, and lasts Tenths.
LEMMA TruncateBounds ==
  ASSUME NEW t \in Nat
  PROVE  /\ Truncate(t) \in Nat /\ Truncate(t) <= t /\ t < Truncate(t) + Tenths
         /\ Aligned(t) <=> Truncate(t) = t
  <1> DEFINE q == t \div Tenths
             m == t % Tenths
  <1>1. q \in Nat /\ m \in 0 .. Tenths - 1 /\ t = Tenths * q + m /\ Tenths \in Nat \ {0}
    BY DivFacts, GatewayAssumption
  <1>2. Truncate(t) = q * Tenths /\ (Aligned(t) <=> m = 0)
    BY DEF Truncate, Aligned
  <1> HIDE DEF q, m
  <1>3. q * Tenths = Tenths * q /\ q * Tenths \in Nat
    BY <1>1
  <1> QED BY <1>1, <1>2, <1>3

\* Multiples of Tenths are at least Tenths apart.
LEMMA Multiples ==
  ASSUME NEW a \in Nat, NEW b \in Nat, a * Tenths < b * Tenths
  PROVE  a * Tenths + Tenths <= b * Tenths
  <1>1. Tenths \in Nat \ {0}
    BY GatewayAssumption
  <1>2. \A x, y \in Nat : x <= y => x * Tenths <= y * Tenths
    BY <1>1
  <1>3. a < b
    <2>1. ~(b <= a)
      <3>1. b <= a => b * Tenths <= a * Tenths
        BY <1>2
      <3>2. a * Tenths \in Int /\ b * Tenths \in Int
        BY <1>1
      <3> QED BY <3>1, <3>2
    <2> QED BY <2>1
  <1>4. (a + 1) * Tenths <= b * Tenths
    BY <1>2, <1>3
  <1>5. (a + 1) * Tenths = a * Tenths + Tenths
    BY <1>1
  <1> QED BY <1>4, <1>5

LEMMA MultipleAligned ==
  ASSUME NEW k \in Nat
  PROVE  Aligned(k * Tenths)
  <1> DEFINE t == k * Tenths
             q == t \div Tenths
             m == t % Tenths
  <1>1. t \in Nat /\ Tenths \in Nat \ {0}
    BY GatewayAssumption
  <1>2. q \in Nat /\ m \in 0 .. Tenths - 1 /\ t = Tenths * q + m
    <2> HIDE DEF t
    <2> QED BY <1>1, DivFacts
  <1>3. q * Tenths = Tenths * q /\ q * Tenths \in Nat
    <2> HIDE DEF q
    <2> QED BY <1>1, <1>2
  <1>4. q * Tenths <= k * Tenths
    <2> HIDE DEF q, m
    <2>1. t = k * Tenths
      OBVIOUS
    <2> HIDE DEF t
    <2> QED BY <1>1, <1>2, <1>3, <2>1
  <1>5. ~(q * Tenths < k * Tenths)
    <2> SUFFICES ASSUME q * Tenths < k * Tenths PROVE FALSE
      OBVIOUS
    <2>1. t = k * Tenths
      OBVIOUS
    <2> HIDE DEF q, m, t
    <2>2. q * Tenths + Tenths <= k * Tenths
      BY <1>2, Multiples
    <2> QED BY <1>1, <1>2, <1>3, <2>1, <2>2
  <1>6. m = 0
    <2>1. t = k * Tenths
      OBVIOUS
    <2> HIDE DEF q, m, t
    <2> QED BY <1>1, <1>2, <1>3, <1>4, <1>5, <2>1
  <1> QED BY <1>6 DEF Aligned

LEMMA TruncateAligned ==
  ASSUME NEW t \in Nat
  PROVE  Aligned(Truncate(t))
  BY MultipleAligned, DivFacts DEF Truncate

\* Seconds come in the order of their instants, and no second starts inside another.
LEMMA TruncateOrder ==
  ASSUME NEW s \in Nat, NEW t \in Nat
  PROVE  /\ s <= t => Truncate(s) <= Truncate(t)
         /\ Aligned(t) /\ s < t => Truncate(s) + Tenths <= t
         /\ Aligned(s) /\ s <= t => s <= Truncate(t)
         /\ Truncate(s) < Truncate(t) => Truncate(s) + Tenths <= Truncate(t) /\ s < Truncate(t)
  <1> DEFINE a == s \div Tenths
             b == t \div Tenths
  <1>1. a \in Nat /\ b \in Nat /\ Truncate(s) = a * Tenths /\ Truncate(t) = b * Tenths
    BY DivFacts DEF Truncate
  <1>2. /\ Truncate(s) \in Nat /\ Truncate(s) <= s /\ s < Truncate(s) + Tenths
        /\ Truncate(t) \in Nat /\ Truncate(t) <= t /\ t < Truncate(t) + Tenths
        /\ Aligned(t) => Truncate(t) = t
        /\ Aligned(s) => Truncate(s) = s
    BY TruncateBounds
  <1> HIDE DEF a, b
  <1>3. Truncate(s) < Truncate(t) => Truncate(s) + Tenths <= Truncate(t)
    BY <1>1, Multiples
  <1>4. Truncate(t) < Truncate(s) => Truncate(t) + Tenths <= Truncate(s)
    BY <1>1, Multiples
  <1>5. Tenths \in Nat \ {0}
    BY GatewayAssumption
  <1> QED BY <1>2, <1>3, <1>4, <1>5

-----------------------------------------------------------------------------
(* Rows in the order of their times, and their places in a list. *)

\* What is assumed of the rows that are logged.
Rows == logged \in GatewayWorlds

LEMMA RowFacts ==
  ASSUME Rows
  PROVE  /\ IsFiniteSet(logged)
         /\ \A r \in logged : r.gateway \in Gateways /\ r.at \in Nat /\ r.delay \in Nat /\ r.id \in Nat
         /\ \A r, o \in logged : r.id = o.id => r = o
  BY RowAssumption DEF Rows

LEMMA TotalOrder ==
  ASSUME Rows, NEW r \in logged, NEW o \in logged
  PROVE  /\ r = o \/ Earlier(r, o) \/ Earlier(o, r)
         /\ Earlier(r, o) => ~Earlier(o, r) /\ r # o /\ r.at <= o.at
         /\ r.at < o.at => Earlier(r, o)
         /\ \A x \in logged : Earlier(r, o) /\ Earlier(o, x) => Earlier(r, x)
  BY RowFacts DEF Earlier

LEMMA BeforeNat ==
  ASSUME Rows, NEW S \in SUBSET logged, NEW r
  PROVE  /\ IsFiniteSet(S) /\ IsFiniteSet({o \in S : Earlier(o, r)})
         /\ Before(r, S) \in Nat
  <1> DEFINE E == {o \in S : Earlier(o, r)}
  <1>1. IsFiniteSet(S)
    BY RowFacts, FS_Subset
  <1>2. IsFiniteSet(E)
    <2>1. E \in SUBSET S
      OBVIOUS
    <2> HIDE DEF E
    <2> QED BY <1>1, <2>1, FS_Subset
  <1>3. Cardinality(E) \in Nat
    <2> HIDE DEF E
    <2> QED BY <1>2, FS_CardinalityType
  <1> QED BY <1>1, <1>2, <1>3 DEF Before

\* A longer list only moves a row to a later place.
LEMMA BeforeGrows ==
  ASSUME Rows, NEW S \in SUBSET logged, NEW T \in SUBSET S, NEW r
  PROVE  Before(r, T) <= Before(r, S)
  <1> DEFINE E == {o \in S : Earlier(o, r)}
             F == {o \in T : Earlier(o, r)}
  <1>1. IsFiniteSet(E)
    BY BeforeNat
  <1>2. F \in SUBSET E
    OBVIOUS
  <1>3. Cardinality(F) <= Cardinality(E)
    <2> HIDE DEF E, F
    <2> QED BY <1>1, <1>2, FS_Subset
  <1> QED BY <1>3 DEF Before

\* A row in the list has an earlier place than what comes after it.
LEMMA BeforeOrder ==
  ASSUME Rows, NEW S \in SUBSET logged, NEW r \in S, NEW o \in S, Earlier(r, o)
  PROVE  Before(r, S) < Before(o, S)
  <1> DEFINE E == {x \in S : Earlier(x, o)}
             F == {x \in S : Earlier(x, r)}
  <1>1. IsFiniteSet(E) /\ IsFiniteSet(F) /\ Before(r, S) \in Nat /\ Before(o, S) \in Nat
    BY BeforeNat
  <1>2. F \in SUBSET E /\ r \in E /\ r \notin F
    BY TotalOrder
  <1>3. Cardinality(F) <= Cardinality(E) /\ Cardinality(F) # Cardinality(E)
    <2> HIDE DEF E, F
    <2> QED BY <1>1, <1>2, FS_Subset
  <1> QED BY <1>1, <1>3 DEF Before

\* The places of a list are taken, each by one row.
LEMMA PlacesTaken ==
  ASSUME Rows, NEW S \in SUBSET logged
  PROVE  /\ Cardinality(S) \in Nat
         /\ \A o \in S : Before(o, S) \in 0 .. Cardinality(S) - 1
         /\ \A n \in 0 .. Cardinality(S) - 1 : \E o \in S : Before(o, S) = n
  <1> DEFINE N == Cardinality(S)
             places == 0 .. N - 1
             f == [o \in S |-> Before(o, S)]
  <1>1. IsFiniteSet(S) /\ N \in Nat
    BY BeforeNat, FS_CardinalityType
  <1>2. \A o \in S : Before(o, S) \in places
    <2> TAKE o \in S
    <2> DEFINE E == {x \in S : Earlier(x, o)}
    <2>1. E \in SUBSET S /\ o \notin E
      BY TotalOrder
    <2>2. IsFiniteSet(E) /\ Before(o, S) \in Nat /\ Before(o, S) = Cardinality(E)
      BY BeforeNat DEF Before
    <2>3. Cardinality(E) <= Cardinality(S) /\ Cardinality(E) # Cardinality(S)
      <3> HIDE DEF E
      <3> QED BY <1>1, <2>1, FS_Subset
    <2> HIDE DEF E
    <2> QED BY <1>1, <2>2, <2>3
  <1>3. \A o, x \in S : Before(o, S) = Before(x, S) => o = x
    <2> TAKE o, x \in S
    <2>1. Before(o, S) \in Nat /\ Before(x, S) \in Nat
      BY BeforeNat
    <2>2. Earlier(o, x) => Before(o, S) < Before(x, S)
      BY BeforeOrder
    <2>3. Earlier(x, o) => Before(x, S) < Before(o, S)
      BY BeforeOrder
    <2> QED BY <2>1, <2>2, <2>3, TotalOrder
  <1>4. f \in Injection(S, places)
    <2>1. f \in [S -> places]
      <3> HIDE DEF places
      <3> QED BY <1>2
    <2> QED BY <1>3, <2>1 DEF Injection, IsInjective
  <1>5. IsFiniteSet(places) /\ Cardinality(places) = N
    <2>1. 0 \in Int /\ N - 1 \in Int
      BY <1>1
    <2>2. IsFiniteSet(places) /\ Cardinality(places) = IF 0 > N - 1 THEN 0 ELSE (N - 1) - 0 + 1
      BY <2>1, FS_Interval
    <2> HIDE DEF places, N
    <2> QED BY <1>1, <2>2
  <1>6. f \in Surjection(S, places)
    <2> HIDE DEF f, places
    <2> QED BY <1>1, <1>4, <1>5, FS_Injection DEF N
  <1>7. \A n \in places : \E o \in S : f[o] = n
    BY <1>6 DEF Surjection
  <1> QED BY <1>1, <1>2, <1>7

LEMMA PlaceTaken ==
  ASSUME Rows, NEW S \in SUBSET logged, NEW r \in S, NEW n \in Nat, n <= Before(r, S)
  PROVE  \E o \in S : Before(o, S) = n
  <1>1. Cardinality(S) \in Nat /\ Before(r, S) \in 0 .. Cardinality(S) - 1
    BY PlacesTaken
  <1>2. n \in 0 .. Cardinality(S) - 1
    BY <1>1
  <1> QED BY <1>2, PlacesTaken

-----------------------------------------------------------------------------
(* Least and greatest numbers, and the sequences of details. *)

LEMMA LeastOfSome ==
  ASSUME NEW T \in SUBSET Nat, T # {}
  PROVE  Min(T) \in T /\ \A y \in T : Min(T) <= y
  <1>1. IsWellFoundedOn(OpToRel(<, Nat), Nat)
    BY NatLessThanWellFounded
  <1>2. PICK x \in T : \A y \in T : ~ (<<y, x>> \in OpToRel(<, Nat))
    BY <1>1, WFMin
  <1>3. \A y \in T : ~ (y < x)
    BY <1>2 DEF OpToRel
  <1>4. \A y \in T : x <= y
    BY <1>3
  <1> QED BY <1>4 DEF Min

LEMMA GreatestOfSome ==
  ASSUME NEW T \in SUBSET Nat, T # {}, NEW top \in Nat, \A x \in T : x <= top
  PROVE  Max(T) \in T /\ \A y \in T : y <= Max(T)
  <1> DEFINE U == {top - x : x \in T}
  <1>1. U \in SUBSET Nat /\ U # {}
    <2>1. ASSUME NEW x \in T
          PROVE  top - x \in Nat
      <3>1. x \in Nat /\ x <= top
        OBVIOUS
      <3> QED BY <3>1
    <2>2. U # {}
      OBVIOUS
    <2> QED BY <2>1, <2>2
  <1>2. Min(U) \in U /\ \A y \in U : Min(U) <= y
    <2> HIDE DEF U
    <2> QED BY <1>1, LeastOfSome
  <1>3. PICK x \in T : Min(U) = top - x
    BY <1>2
  <1>4. \A y \in T : y <= x
    <2> TAKE y \in T
    <2>1. Min(U) <= top - y
      BY <1>2
    <2> HIDE DEF U
    <2> QED BY <1>3, <2>1
  <1> QED BY <1>4 DEF Max

\* Places among positions are those of a list as long.
LEMMA PositionRank ==
  ASSUME NEW K \in SUBSET Nat, IsFiniteSet(K)
  PROVE  /\ Cardinality(K) \in Nat
         /\ \A n \in 1 .. Cardinality(K) : \E i \in K : Rank(i, K) = n
  <1> DEFINE N == Cardinality(K)
             places == 1 .. N
             f == [i \in K |-> Rank(i, K)]
  <1>1. N \in Nat
    BY FS_CardinalityType
  <1>2. \A i \in K : /\ Rank(i, K) \in places
                     /\ \A k \in K : i < k => Rank(i, K) < Rank(k, K)
    <2> TAKE i \in K
    <2> DEFINE L(k) == {j \in K : j <= k}
    <2>1. \A k \in K : L(k) \in SUBSET K /\ k \in L(k)
      OBVIOUS
    <2>2. \A k \in K : i < k => L(i) \in SUBSET L(k) /\ k \notin L(i)
      <3> TAKE k \in K
      <3>1. \A j \in K : i < k /\ j <= i => j <= k /\ j # k
        OBVIOUS
      <3> QED BY <3>1
    <2>3. \A k \in K : Rank(k, K) = Cardinality(L(k))
      BY DEF Rank
    <2> HIDE DEF L
    <2>4. \A k \in K : IsFiniteSet(L(k)) /\ Cardinality(L(k)) <= N /\ Cardinality(L(k)) \in Nat
      BY <2>1, FS_Subset, FS_CardinalityType
    <2>5. Cardinality(L(i)) # 0
      BY <2>1, <2>4, FS_EmptySet
    <2>6. \A k \in K : i < k => Cardinality(L(i)) < Cardinality(L(k))
      <3> TAKE k \in K
      <3>1. i < k => Cardinality(L(i)) <= Cardinality(L(k)) /\ Cardinality(L(i)) # Cardinality(L(k))
        BY <2>1, <2>2, <2>4, FS_Subset
      <3> QED BY <2>4, <3>1
    <2> QED BY <1>1, <2>3, <2>4, <2>5, <2>6
  <1>3. f \in [K -> places]
    <2> HIDE DEF places
    <2> QED BY <1>2
  <1>4. \A i, k \in K : f[i] = f[k] => i = k
    <2> TAKE i, k \in K
    <2>1. Rank(i, K) \in Nat /\ Rank(k, K) \in Nat
      BY <1>1, <1>2
    <2>2. i < k => Rank(i, K) < Rank(k, K)
      BY <1>2
    <2>3. k < i => Rank(k, K) < Rank(i, K)
      BY <1>2
    <2> QED BY <2>1, <2>2, <2>3
  <1>5. IsFiniteSet(places) /\ Cardinality(places) = N
    BY <1>1, FS_Interval
  <1>6. f \in Surjection(K, places)
    <2>1. f \in Injection(K, places)
      BY <1>3, <1>4 DEF Injection, IsInjective
    <2> HIDE DEF f, places
    <2> QED BY <1>5, <2>1, FS_Injection DEF N
  <1> QED BY <1>1, <1>6 DEF Surjection

\* What is picked from a sequence comes from it.
LEMMA PickedSome ==
  ASSUME NEW T, NEW s \in Seq(T), NEW K \in SUBSET DOMAIN s
  PROVE  Picked(s, K) \in Seq({s[i] : i \in K})
  <1>1. K \in SUBSET Nat /\ IsFiniteSet(K)
    <2>1. DOMAIN s = 1 .. Len(s) /\ Len(s) \in Nat
      OBVIOUS
    <2>2. IsFiniteSet(DOMAIN s)
      BY <2>1, FS_Interval
    <2> QED BY <2>1, <2>2, FS_Subset
  <1>2. Cardinality(K) \in Nat /\ \A n \in 1 .. Cardinality(K) : \E i \in K : Rank(i, K) = n
    BY <1>1, PositionRank
  <1>3. \A n \in 1 .. Cardinality(K) : s[CHOOSE i \in K : Rank(i, K) = n] \in {s[i] : i \in K}
    BY <1>2
  <1> QED BY <1>2, <1>3 DEF Picked

LEMMA SeqOfFewer ==
  ASSUME NEW S, NEW T, S \subseteq T, NEW s \in Seq(S)
  PROVE  s \in Seq(T)
  <1>1. DOMAIN s = 1 .. Len(s) /\ Len(s) \in Nat /\ \A i \in 1 .. Len(s) : s[i] \in S
    OBVIOUS
  <1>2. s = [i \in 1 .. Len(s) |-> s[i]]
    OBVIOUS
  <1> QED BY <1>1, <1>2

LEMMA InOrderSome ==
  ASSUME Rows, NEW D, \A d \in D : d.row \in logged
  PROVE  InOrder(D) \in Seq(D)
  <1> DEFINE R == {d.row : d \in D}
  <1>1. R \in SUBSET logged
    OBVIOUS
  <1>2. /\ Cardinality(R) \in Nat
        /\ \A n \in 0 .. Cardinality(R) - 1 : \E o \in R : Before(o, R) = n
    <2> HIDE DEF R
    <2> QED BY <1>1, PlacesTaken
  <1>3. \A n \in 1 .. Cardinality(R) : \E d \in D : Before(d.row, R) = n - 1
    <2> TAKE n \in 1 .. Cardinality(R)
    <2>1. n - 1 \in 0 .. Cardinality(R) - 1
      <3> HIDE DEF R
      <3> QED BY <1>2
    <2>2. PICK o \in R : Before(o, R) = n - 1
      BY <1>2, <2>1
    <2>3. PICK d \in D : d.row = o
      OBVIOUS
    <2> QED BY <2>2, <2>3
  <1>4. \A n \in 1 .. Cardinality(R) : (CHOOSE d \in D : Before(d.row, R) = n - 1) \in D
    <2> HIDE DEF R
    <2> QED BY <1>3
  <1> HIDE DEF R
  <1>5. [n \in 1 .. Cardinality(R) |-> CHOOSE d \in D : Before(d.row, R) = n - 1] \in Seq(D)
    BY <1>2, <1>4
  <1> QED BY <1>5 DEF InOrder, R

\* The newest entries are some of them.
LEMMA NewestSome ==
  ASSUME NEW T, NEW s \in Seq(T)
  PROVE  Newest(s) \in Seq(T)
  <1>1. CacheEntries \in Nat /\ Len(s) \in Nat
    BY GatewayAssumption
  <1>2. CASE Len(s) <= CacheEntries
    BY <1>2 DEF Newest
  <1>3. CASE ~(Len(s) <= CacheEntries)
    <2> DEFINE m == Len(s) - CacheEntries + 1
    <2>1. m \in 1 .. Len(s) + 1
      BY <1>1, <1>3
    <2>2. SubSeq(s, m, Len(s)) \in Seq(T)
      <3> HIDE DEF m
      <3>1. \A i \in m .. Len(s) : i \in 1 .. Len(s) /\ s[i] \in T
        BY <1>1, <2>1
      <3> QED BY <1>1, <2>1, <3>1
    <2> QED BY <1>3, <2>2 DEF Newest
  <1> QED BY <1>2, <1>3

\* Nothing comes into the cache but details that may be kept.
LEMMA PutKeeps ==
  ASSUME Rows, NEW cache \in Seq(Retained), NEW D, D \subseteq Detail
  PROVE  Put(cache, D) \in Seq(Retained)
  <1> DEFINE new == {d \in D : Cacheable(d)}
             old == {i \in DOMAIN cache : ~Stale(cache[i]) /\ \A d \in new : d.row # cache[i].row}
  <1>1. new \subseteq Retained /\ \A d \in new : d.row \in logged
    BY DEF Cacheable, Retained, Detail
  <1>2. old \in SUBSET DOMAIN cache
    OBVIOUS
  <1>3. \A i \in DOMAIN cache : cache[i] \in Retained
    OBVIOUS
  <1> HIDE DEF new, old
  <1>4. Picked(cache, old) \in Seq(Retained)
    <2>1. Picked(cache, old) \in Seq({cache[i] : i \in old})
      BY <1>2, PickedSome
    <2> QED BY <1>2, <1>3, <2>1, SeqOfFewer
  <1>5. InOrder(new) \in Seq(Retained)
    <2>1. InOrder(new) \in Seq(new)
      BY <1>1, InOrderSome
    <2> QED BY <1>1, <2>1, SeqOfFewer
  <1>6. Picked(cache, old) \o InOrder(new) \in Seq(Retained)
    BY <1>4, <1>5
  <1>7. Newest(Picked(cache, old) \o InOrder(new)) \in Seq(Retained)
    BY <1>6, NewestSome
  <1> QED BY <1>7 DEF Put, new, old

LEMMA PickedKept ==
  ASSUME NEW cache \in Seq(Retained)
  PROVE  /\ \A t : From(cache, t) \in Seq(Retained)
         /\ \A rows : Without(cache, rows) \in Seq(Retained)
  <1>1. \A K \in SUBSET DOMAIN cache : Picked(cache, K) \in Seq(Retained)
    <2> TAKE K \in SUBSET DOMAIN cache
    <2>1. Picked(cache, K) \in Seq({cache[i] : i \in K})
      BY PickedSome
    <2>2. {cache[i] : i \in K} \subseteq Retained
      OBVIOUS
    <2> QED BY <2>1, <2>2, SeqOfFewer
  <1> QED BY <1>1 DEF From, Without

\* Details that are asked for: what was kept, if it is not stale, or nothing yet.
LEMMA StartedFresh ==
  ASSUME NEW cache \in Seq(Retained), NEW R \in SUBSET logged, NEW d \in Started(cache, R),
         call.began \in Nat, instant \in Nat, call.began <= instant
  PROVE  d \in Detail /\ d.row \in R /\ (d.got => Fresh(d))
  <1>1. PICK r \in R : d = IF KeptFor(cache, r) = {} THEN Awaited(r) ELSE CHOOSE k \in KeptFor(cache, r) : TRUE
    BY DEF Started
  <1>2. CASE KeptFor(cache, r) = {}
    BY <1>1, <1>2 DEF Awaited, Detail
  <1>3. CASE KeptFor(cache, r) # {}
    <2>1. d \in KeptFor(cache, r)
      BY <1>1, <1>3
    <2>2. PICK i \in DOMAIN cache : d = cache[i]
      BY <2>1 DEF KeptFor, ToSet
    <2>3. d \in Retained /\ d.row = r /\ ~Stale(d)
      BY <2>1, <2>2 DEF KeptFor
    <2>4. d \in Detail /\ d.at \in Nat /\ (d.missing => d.row.body = "off") /\ instant - d.at < CacheTTL
      BY <2>3, GatewayAssumption DEF Retained, Detail, Stale
    <2>5. d.at > call.began - CacheTTL
      BY <2>4, GatewayAssumption
    <2>6. ~(d.missing /\ d.row.body = "late")
      BY <2>4
    <2> QED BY <2>3, <2>4, <2>5, <2>6 DEF Fresh
  <1> QED BY <1>2, <1>3

-----------------------------------------------------------------------------
(* Pages and horizons. *)

LEMMA ListRows ==
  ASSUME NEW g, NEW from, NEW to
  PROVE  ListOf(g, from, to) \in SUBSET logged
  BY DEF ListOf

\* A row from a page on is on that page, or on a later one; then the page is not
\* empty, and nothing on it comes after the row.
LEMMA PageCovers ==
  ASSUME Rows, NEW S \in SUBSET logged, NEW n \in Nat, NEW r \in S, n * GatewayPage <= Before(r, S)
  PROVE  \/ r \in PageOf(S, n + 1)
         \/ /\ (n + 1) * GatewayPage <= Before(r, S)
            /\ PageOf(S, n + 1) # {}
            /\ \A o \in PageOf(S, n + 1) : Earlier(o, r)
  <1> DEFINE low == n * GatewayPage
             high == (n + 1) * GatewayPage
  <1>1. GatewayPage \in Nat \ {0}
    BY GatewayAssumption
  <1>2. low \in Nat /\ high \in Nat /\ low < high
    <2>1. high = low + GatewayPage
      BY <1>1
    <2>2. low \in Nat
      BY <1>1
    <2> HIDE DEF low, high
    <2> QED BY <1>1, <2>1, <2>2
  <1>3. Before(r, S) \in Nat
    BY BeforeNat
  <1>4. PageOf(S, n + 1) = {o \in S : low <= Before(o, S) /\ Before(o, S) < high}
    <2>1. (n + 1) - 1 = n
      OBVIOUS
    <2> QED BY <2>1 DEF PageOf
  <1>5. low <= Before(r, S)
    OBVIOUS
  <1> HIDE DEF low, high
  <1>6. CASE Before(r, S) < high
    BY <1>4, <1>5, <1>6
  <1>7. CASE ~(Before(r, S) < high)
    <2>1. high <= Before(r, S)
      BY <1>2, <1>3, <1>7
    <2>2. PICK o \in S : Before(o, S) = low
      BY <1>2, <1>5, PlaceTaken
    <2>3. PageOf(S, n + 1) # {}
      BY <1>2, <1>4, <2>2
    <2>4. \A x \in PageOf(S, n + 1) : Earlier(x, r)
      <3> TAKE x \in PageOf(S, n + 1)
      <3>1. x \in S /\ Before(x, S) < high /\ Before(x, S) \in Nat
        BY <1>4, BeforeNat
      <3>2. x # r
        BY <2>1, <3>1, <1>2, <1>3
      <3>3. ~Earlier(r, x)
        <4>1. Earlier(r, x) => Before(r, S) < Before(x, S)
          BY <3>1, BeforeOrder
        <4> QED BY <4>1, <2>1, <3>1, <1>2, <1>3
      <3> QED BY <3>1, <3>2, <3>3, TotalOrder
    <2> QED BY <2>1, <2>3, <2>4 DEF high
  <1> QED BY <1>6, <1>7

\* The horizon of a list lies in the window, at a whole second, and every row
\* before it that the list had at the start is seen.
LEMMA HorizonRange ==
  ASSUME NEW c, c.from \in Nat, c.to \in Nat, c.from <= c.to, Aligned(c.from), Aligned(c.to),
         NEW p, p.last \in Nat
  PROVE  /\ Horizon(p, c) \in Nat /\ c.from <= Horizon(p, c) /\ Horizon(p, c) <= c.to
         /\ Aligned(Horizon(p, c))
         /\ ~p.done => \A t \in Nat : c.from <= t /\ t < Horizon(p, c) => t < p.last
  <1>1. Truncate(p.last) \in Nat /\ Truncate(p.last) <= p.last /\ Aligned(Truncate(p.last))
    BY TruncateBounds, TruncateAligned
  <1>2. CASE p.done
    BY <1>2 DEF Horizon
  <1>3. CASE ~p.done /\ Truncate(p.last) < c.from
    <2>1. Horizon(p, c) = c.from
      BY <1>3 DEF Horizon, Clamped
    <2> QED BY <2>1
  <1>4. CASE ~p.done /\ ~(Truncate(p.last) < c.from) /\ Truncate(p.last) > c.to
    <2>1. Horizon(p, c) = c.to
      BY <1>4 DEF Horizon, Clamped
    <2> QED BY <1>1, <1>4, <2>1
  <1>5. CASE ~p.done /\ ~(Truncate(p.last) < c.from) /\ ~(Truncate(p.last) > c.to)
    <2>1. Horizon(p, c) = Truncate(p.last)
      BY <1>5 DEF Horizon, Clamped
    <2> QED BY <1>1, <1>5, <2>1
  <1> QED BY <1>2, <1>3, <1>4, <1>5

\* Reading on moves a horizon only forward.
LEMMA HorizonGrows ==
  ASSUME NEW c, c.from \in Nat, c.to \in Nat, c.from <= c.to, Aligned(c.from), Aligned(c.to),
         NEW d, d.from = c.from, d.to = c.to,
         NEW p, p.last \in Nat, NEW q, q.last \in Nat, p.last <= q.last, p.done => q.done
  PROVE  Horizon(p, c) <= Horizon(q, d)
  <1>1. /\ Truncate(p.last) \in Nat /\ Truncate(q.last) \in Nat
        /\ Truncate(p.last) <= Truncate(q.last)
    BY TruncateBounds, TruncateOrder
  <1>2. CASE q.done
    <2>1. Horizon(q, d) = c.to /\ Horizon(p, c) <= c.to
      BY <1>2, HorizonRange DEF Horizon
    <2> QED BY <2>1
  <1>3. CASE ~q.done
    <2>1. Horizon(p, c) = Clamped(Truncate(p.last), c) /\ Horizon(q, d) = Clamped(Truncate(q.last), d)
      BY <1>3 DEF Horizon
    <2> QED BY <1>1, <2>1 DEF Clamped
  <1> QED BY <1>2, <1>3

LEMMA AllHorizonIs ==
  ASSUME WindowInv, PagerInv
  PROVE  /\ AllHorizon(call) \in Nat /\ Aligned(AllHorizon(call))
         /\ call.from <= AllHorizon(call) /\ AllHorizon(call) <= call.to
         /\ \A g \in Gateways : AllHorizon(call) <= Horizon(call.pagers[g], call)
         /\ (\A g \in Gateways : Limit <= Horizon(call.pagers[g], call)) => Limit <= AllHorizon(call)
         /\ Complete(call) => AllHorizon(call) = call.to
  <1> DEFINE T == {Horizon(call.pagers[g], call) : g \in Gateways}
             P(h) == h \in Nat /\ call.from <= h /\ h <= call.to /\ Aligned(h)
  <1>1. \A g \in Gateways : P(Horizon(call.pagers[g], call))
    <2> TAKE g \in Gateways
    <2>1. call.pagers[g].last \in Nat
      BY DEF PagerInv, Pager
    <2>2. call.from \in Nat /\ call.to \in Nat /\ call.from <= call.to /\ Aligned(call.from) /\ Aligned(call.to)
      BY DEF WindowInv
    <2> QED BY <2>1, <2>2, HorizonRange
  <1>2. T \in SUBSET Nat /\ T # {}
    BY <1>1, GatewayAssumption
  <1>3. Min(T) \in T /\ \A y \in T : Min(T) <= y
    <2> HIDE DEF T
    <2> QED BY <1>2, LeastOfSome
  <1>4. AllHorizon(call) = Min(T)
    BY DEF AllHorizon
  <1>5. PICK g \in Gateways : Min(T) = Horizon(call.pagers[g], call)
    BY <1>3
  <1>6. Complete(call) => Horizon(call.pagers[g], call) = call.to
    BY DEF Complete, Horizon
  <1> QED BY <1>1, <1>3, <1>4, <1>5, <1>6

\* What the list had before the horizon of all is seen.
LEMMA SeenBefore ==
  ASSUME WindowInv, PagerInv, Rows, NEW g \in Gateways, NEW r \in Known(g),
         r.at < Horizon(call.pagers[g], call)
  PROVE  r \in call.pagers[g].seen
  <1> DEFINE p == call.pagers[g]
  <1>1. p.last \in Nat
    BY DEF PagerInv, Pager
  <1>2. r.at \in Nat /\ call.from <= r.at /\ r.at < call.to /\ r \in logged
    BY RowFacts DEF Known
  <1>3. call.from \in Nat /\ call.to \in Nat /\ call.from <= call.to /\ Aligned(call.from) /\ Aligned(call.to)
    BY DEF WindowInv
  <1>4. ~p.done => r.at < p.last
    <2>1. r.at < Horizon(p, call)
      OBVIOUS
    <2> HIDE DEF p
    <2> QED BY <1>1, <1>2, <1>3, <2>1, HorizonRange
  <1>5. r \in p.seen \/ (~p.done /\ p.last <= r.at)
    BY DEF PagerInv
  <1> HIDE DEF p
  <1>6. r \in p.seen
    BY <1>1, <1>2, <1>4, <1>5
  <1> QED BY <1>6 DEF p

-----------------------------------------------------------------------------
(* The steps. *)

LEMMA InitInv ==
  ASSUME GatewayInit
  PROVE  GatewayInv
  <1>1. PICK rows \in GatewayWorlds : GatewayStarts(rows)
    BY DEF GatewayInit
  <1>2. call = NoCall /\ call.stage = "none"
    BY <1>1 DEF GatewayStarts, NoCall
  <1>3. Aligned(0)
    <2>1. Aligned(0 * Tenths) /\ Tenths \in Nat
      BY MultipleAligned, GatewayAssumption
    <2>2. 0 * Tenths = 0
      BY <2>1
    <2> QED BY <2>1, <2>2
  <1>4. retained = << >> /\ << >> \in Seq(Retained)
    BY <1>1 DEF GatewayStarts
  <1> QED BY <1>1, <1>2, <1>3, <1>4, GatewayAssumption DEF GatewayStarts, GatewayInv, BaseInv

\* Nothing is left of a call that has ended.
LEMMA EndedInv ==
  ASSUME BaseInv, call' = NoCall, logged' = logged, instant' \in Nat,
         logMark' \in Nat, Aligned(logMark'), retained' \in Seq(Retained)
  PROVE  GatewayInv'
  <1>1. call'.stage = "none"
    BY DEF NoCall
  <1>2. BaseInv'
    BY DEF BaseInv, Aligned, Retained, Detail
  <1> QED BY <1>1, <1>2 DEF GatewayInv

LEMMA BreakStep ==
  ASSUME GatewayInv, Break
  PROVE  GatewayInv'
  <1>1. << >> \in Seq(Retained)
    OBVIOUS
  <1> QED BY <1>1, EndedInv DEF GatewayInv, BaseInv, Break

LEMMA AcceptStep ==
  ASSUME GatewayInv, NEW saved \in BOOLEAN, Accept(saved)
  PROVE  GatewayInv'
  <1>1. call.mark \in Nat /\ Aligned(call.mark)
    BY DEF GatewayInv, GatewaySound, LogsExact, Accept, Aligned
  <1>2. logMark' \in Nat /\ Aligned(logMark')
    BY <1>1 DEF GatewayInv, BaseInv, Accept
  <1> QED BY <1>2, EndedInv DEF GatewayInv, BaseInv, Accept

\* Lists that nothing has been read from meanwhile.
LEMMA PagersKept ==
  ASSUME Rows, PagerInv, logged' = logged, instant \in Nat, instant' \in Nat, instant <= instant',
         call'.from = call.from, call'.to = call.to, call'.began = call.began,
         call'.pagers \in [Gateways -> Pager],
         \A g \in Gateways :
           LET p == call.pagers[g]
               q == call'.pagers[g]
           IN  q.page = p.page /\ q.seen = p.seen /\ q.last = p.last /\ q.done = p.done /\ q.pending \subseteq p.seen
  PROVE  PagerInv'
  <1>1. call'.pagers \in [Gateways -> Pager']
    BY DEF Pager
  <1>2. ASSUME NEW g \in Gateways
        PROVE  LET q == call'.pagers[g]
               IN  /\ q.last <= call'.to /\ q.pending \subseteq q.seen
                   /\ \A r \in q.seen : r.gateway = g /\ InCall(r)'
    BY <1>2 DEF PagerInv, InCall
  <1>3. ASSUME NEW g \in Gateways, NEW r \in Known(g)'
        PROVE  LET q == call'.pagers[g]
               IN  \/ r \in q.seen
                   \/ /\ ~q.done /\ q.last <= r.at
                      /\ q.page * GatewayPage <= Before(r, ListOf(g, call.from, call.to)')
    <2> DEFINE L == ListOf(g, call.from, call.to)
               M == ListOf(g, call.from, call.to)'
               p == call.pagers[g]
               q == call'.pagers[g]
               n == p.page * GatewayPage
    <2>1. r \in Known(g)
      BY <1>3 DEF Known
    <2>2. r \in p.seen \/ (~p.done /\ p.last <= r.at /\ n <= Before(r, L))
      BY <2>1 DEF PagerInv
    <2>3. L \in SUBSET M /\ M \in SUBSET logged
      <3>1. \A o \in logged : o.at + o.delay \in Nat
        BY RowFacts
      <3>2. \A o \in logged : o.at + o.delay <= instant => o.at + o.delay <= instant'
        BY <3>1
      <3> QED BY <3>2 DEF ListOf
    <2>4. Before(r, L) \in Nat /\ Before(r, M) \in Nat /\ Before(r, L) <= Before(r, M)
      <3> HIDE DEF L, M
      <3> QED BY <2>3, BeforeNat, BeforeGrows
    <2>5. n \in Nat
      <3>1. p.page \in Nat /\ GatewayPage \in Nat
        BY GatewayAssumption DEF PagerInv, Pager
      <3> HIDE DEF p
      <3> QED BY <3>1
    <2>6. q.page = p.page /\ q.seen = p.seen /\ q.last = p.last /\ q.done = p.done
      OBVIOUS
    <2>7. q.page * GatewayPage = n
      BY <2>6
    <2> HIDE DEF L, M, p, q, n
    <2>8. r \in q.seen \/ (~q.done /\ q.last <= r.at /\ q.page * GatewayPage <= Before(r, M))
      BY <2>2, <2>4, <2>5, <2>6, <2>7
    <2> QED BY <2>8 DEF M, q
  <1> QED BY <1>1, <1>2, <1>3 DEF PagerInv

\* Time passes, or nothing happens.
LEMMA ElapseStep ==
  ASSUME GatewayInv, Elapse \/ UNCHANGED gateway
  PROVE  GatewayInv'
  <1>1. /\ logged' = logged /\ logMark' = logMark /\ retained' = retained /\ call' = call
        /\ instant \in Nat /\ instant' \in Nat /\ instant <= instant'
    BY DEF Elapse, gateway, GatewayInv, BaseInv
  <1>2. BaseInv' /\ Rows
    BY <1>1 DEF GatewayInv, BaseInv, Aligned, Retained, Detail, Rows
  <1>3. ASSUME call.stage \in {"list", "emit"}
        PROVE  WindowInv' /\ PagerInv' /\ StageInv' /\ EmitInv' /\ FlightInv'
    <2>1. WindowInv'
      BY <1>1, <1>3 DEF GatewayInv, WindowInv, Aligned
    <2>2. PagerInv'
      <3>1. PagerInv
        BY <1>3 DEF GatewayInv
      <3>2. call.pagers \in [Gateways -> Pager]
           /\ \A g \in Gateways : call.pagers[g].pending \subseteq call.pagers[g].seen
        BY <3>1 DEF PagerInv
      <3> QED BY <1>1, <1>2, <3>1, <3>2, PagersKept
    <2>3. StageInv'
      BY <1>1, <1>3 DEF GatewayInv, StageInv, Limit
    <2>4. EmitInv'
      BY <1>1, <1>3 DEF GatewayInv, EmitInv, InCall, Fresh, Ordered, Detail, Limit
    <2>5. FlightInv'
      BY <1>1, <1>3 DEF GatewayInv, FlightInv, Fresh, Detail
    <2> QED BY <2>1, <2>2, <2>3, <2>4, <2>5
  <1>4. ASSUME call.stage = "returned"
        PROVE  GatewaySound' /\ call'.mark \in Nat
    BY <1>1, <1>4 DEF GatewayInv, GatewaySound, LogsExact, DetailsFresh, Out, Due
  <1> QED BY <1>1, <1>2, <1>3, <1>4 DEF GatewayInv

LEMMA BeginStep ==
  ASSUME GatewayInv, NEW to \in 1 .. MaxInstant, to % Tenths = 0, NEW budget, Begin(to, budget)
  PROVE  GatewayInv'
  <1> DEFINE fresh == [page |-> 0, seen |-> {}, pending |-> {}, last |-> 0, done |-> FALSE]
  <1>1. /\ logged' = logged /\ logMark' = logMark /\ instant' = instant
        /\ logMark \in Nat /\ instant \in Nat /\ to \in Nat /\ logMark < to
        /\ Aligned(logMark) /\ Aligned(to) /\ logged \in GatewayWorlds
    BY DEF Begin, GatewayInv, BaseInv, Aligned
  <1>2. /\ DOMAIN call' = CallFields /\ call'.stage = "list"
        /\ call'.from = logMark /\ call'.to = to /\ call'.began = instant /\ call'.pos = logMark
        /\ call'.goal = logMark
        /\ call'.pagers = [g \in Gateways |-> fresh] /\ call'.round = {} /\ call'.queue = {}
        /\ call'.flight = {} /\ call'.group = << >> /\ call'.out = << >> /\ call'.any = FALSE
    BY DEF Begin, CallFields
  <1>3. retained' \in Seq(Retained)
    <2>1. << >> \in Seq(Retained) /\ retained \in Seq(Retained)
      BY DEF GatewayInv, BaseInv
    <2> QED BY <2>1 DEF Begin
  <1>4. BaseInv'
    BY <1>1, <1>2, <1>3 DEF BaseInv, Retained, Detail, Aligned
  <1>5. WindowInv'
    BY <1>1, <1>2 DEF WindowInv, Aligned
  <1>6. PagerInv'
    <2>1. call'.pagers \in [Gateways -> Pager']
      BY <1>2 DEF Pager
    <2>2. ASSUME NEW g \in Gateways
          PROVE  LET q == call'.pagers[g]
                 IN  /\ q.last <= call'.to /\ q.pending \subseteq q.seen
                     /\ \A r \in q.seen : r.gateway = g /\ InCall(r)'
      BY <1>1, <1>2
    <2>3. ASSUME NEW g \in Gateways, NEW r \in Known(g)'
          PROVE  LET q == call'.pagers[g]
                 IN  /\ ~q.done /\ q.last <= r.at
                     /\ q.page * GatewayPage <= Before(r, ListOf(g, call.from, call.to)')
      <3>1. r \in logged /\ Rows
        BY <1>1, <2>3 DEF Known, Rows
      <3>2. r.at \in Nat
        BY <3>1, RowFacts
      <3>3. ListOf(g, call.from, call.to)' \in SUBSET logged
        BY <1>1 DEF ListOf
      <3>4. Before(r, ListOf(g, call.from, call.to)') \in Nat
        BY <3>1, <3>3, BeforeNat
      <3>5. 0 * GatewayPage = 0
        BY GatewayAssumption
      <3> QED BY <1>2, <3>2, <3>4, <3>5
    <2> QED BY <2>1, <2>2, <2>3 DEF PagerInv
  <1>7. StageInv'
    <2>1. Limit' = logMark
      BY <1>2 DEF Limit
    <2>2. \A g \in Gateways : Limit' <= Horizon(fresh, call')
      <3>1. call'.from \in Nat /\ call'.to \in Nat /\ call'.from <= call'.to /\ Aligned(call'.from) /\ Aligned(call'.to)
        BY <1>1, <1>2
      <3>2. fresh.last \in Nat
        OBVIOUS
      <3>3. call'.from <= Horizon(fresh, call')
        <4> HIDE DEF fresh
        <4> QED BY <3>1, <3>2, HorizonRange
      <3> QED BY <1>2, <2>1, <3>3
    <2> QED BY <1>2, <2>2 DEF StageInv
  <1>8. EmitInv'
    <2>1. << >> \in Seq(Detail')
      OBVIOUS
    <2> QED BY <1>2, <2>1 DEF EmitInv, Ordered
  <1>9. FlightInv'
    BY <1>2 DEF FlightInv
  <1> QED BY <1>2, <1>4, <1>5, <1>6, <1>7, <1>8, <1>9 DEF GatewayInv

\* Fields that a step of a call leaves alone.
SameWindow ==
  /\ DOMAIN call' = CallFields /\ logged' = logged /\ logMark' = logMark /\ instant' = instant
  /\ call'.from = call.from /\ call'.to = call.to /\ call'.began = call.began
SameEmitted ==
  /\ call'.out = call.out /\ call'.group = call.group /\ call'.queue = call.queue
  /\ call'.any = call.any /\ call'.pos = call.pos /\ call'.goal = call.goal

LEMMA ListPageStep ==
  ASSUME GatewayInv, NEW g \in Gateways, ListPage(g)
  PROVE  GatewayInv'
  <1> DEFINE p == call.pagers[g]
             L == ListOf(g, call.from, call.to)
             page == PageOf(L, p.page + 1)
             new == {r \in page : r.at < call.to} \ p.seen
             times == {p.last} \cup {r.at : r \in page}
             q == [page |-> p.page + 1, seen |-> p.seen \cup new, pending |-> p.pending \cup new,
                   last |-> Max(times), done |-> page = {} \/ \E r \in page : r.at >= call.to]
  <1>1. /\ call.stage = "list" /\ g \in call.round /\ \A r \in new : r.at >= Horizon(p, call)
        /\ UNCHANGED <<logged, instant, logMark, retained, retainedFrom>>
        /\ call' = [call EXCEPT !.round = @ \ {g}, !.listed = @ + Cardinality(new), !.pagers[g] = q]
    BY DEF ListPage
  <1>2. /\ BaseInv /\ WindowInv /\ PagerInv /\ StageInv /\ EmitInv /\ FlightInv
        /\ DOMAIN call = CallFields /\ Rows
    BY <1>1 DEF GatewayInv, BaseInv, NoCall, Rows
  <1>3. /\ SameWindow /\ SameEmitted /\ call'.stage = "list" /\ call'.round = call.round \ {g}
        /\ call'.pagers = [call.pagers EXCEPT ![g] = q]
    <2> HIDE DEF q, new
    <2> QED BY <1>1, <1>2 DEF SameWindow, SameEmitted, CallFields
  <1>4. /\ p \in Pager /\ ~p.done /\ p.last <= call.to /\ p.pending \subseteq p.seen
        /\ \A r \in p.seen : r.gateway = g /\ InCall(r)
        /\ call.pagers \in [Gateways -> Pager]
    BY <1>1, <1>2 DEF PagerInv, WindowInv
  <1>5. /\ L \in SUBSET logged /\ page \in SUBSET L
        /\ \A r \in L : r.gateway = g /\ call.from <= r.at /\ r.at <= call.to /\ r.at \in Nat
    <2>1. L \in SUBSET logged /\ \A r \in L : r.gateway = g /\ call.from <= r.at /\ r.at <= call.to
      BY DEF ListOf
    <2>2. page \in SUBSET L
      BY DEF PageOf
    <2> QED BY <1>2, <2>1, <2>2, RowFacts
  <1>6. /\ Max(times) \in Nat /\ Max(times) <= call.to /\ p.last <= Max(times)
        /\ \A t \in Nat : p.last <= t /\ (\A r \in page : r.at <= t) => Max(times) <= t
    <2>1. times \in SUBSET Nat /\ times # {} /\ call.to \in Nat /\ \A x \in times : x <= call.to
      BY <1>2, <1>4, <1>5 DEF Pager, WindowInv
    <2>2. Max(times) \in times /\ \A y \in times : y <= Max(times)
      <3> HIDE DEF times
      <3> QED BY <2>1, GreatestOfSome
    <2> QED BY <2>1, <2>2
  <1>7. new \in SUBSET logged /\ \A r \in new : r.gateway = g /\ InCall(r)
    BY <1>5 DEF InCall
  <1>8. q \in Pager
    <2>1. p.seen \cup new \in SUBSET logged /\ p.pending \cup new \in SUBSET logged /\ p.page + 1 \in Nat
      BY <1>4, <1>7 DEF Pager
    <2>2. (page = {} \/ \E r \in page : r.at >= call.to) \in BOOLEAN
      OBVIOUS
    <2> HIDE DEF new, times, page, p
    <2> QED BY <1>6, <2>1, <2>2 DEF Pager
  <1>9. /\ q.page = p.page + 1 /\ q.seen = p.seen \cup new /\ q.pending = p.pending \cup new
        /\ q.last = Max(times) /\ (q.done <=> page = {} \/ \E r \in page : r.at >= call.to)
    OBVIOUS
  <1>10. call'.pagers \in [Gateways -> Pager] /\ call'.pagers[g] = q
         /\ \A h \in Gateways : h # g => call'.pagers[h] = call.pagers[h]
    <2> HIDE DEF q
    <2> QED BY <1>3, <1>4, <1>8
  <1>11. BaseInv'
    BY <1>1, <1>2, <1>3 DEF BaseInv, SameWindow, Aligned, Retained, Detail
  <1>12. WindowInv'
    <2>1. \A h \in call'.round : ~call'.pagers[h].done
      BY <1>2, <1>3, <1>10 DEF WindowInv
    <2>2. call'.round \in SUBSET Gateways
      BY <1>2, <1>3 DEF WindowInv
    <2> QED BY <1>2, <1>3, <2>1, <2>2 DEF WindowInv, SameWindow, SameEmitted, Aligned
  <1>13. PagerInv'
    <2>1. call'.pagers \in [Gateways -> Pager']
      BY <1>3, <1>10 DEF Pager, SameWindow
    <2>2. ASSUME NEW h \in Gateways
          PROVE  LET x == call'.pagers[h]
                 IN  /\ x.last <= call'.to /\ x.pending \subseteq x.seen
                     /\ \A r \in x.seen : r.gateway = h /\ InCall(r)'
      <3>1. CASE h # g
        BY <1>2, <1>3, <1>10, <3>1 DEF PagerInv, InCall, SameWindow
      <3>2. CASE h = g
        <4> HIDE DEF q, new, times, p
        <4> QED BY <1>3, <1>4, <1>6, <1>7, <1>9, <1>10, <3>2 DEF InCall, SameWindow
      <3> QED BY <3>1, <3>2
    <2>3. ASSUME NEW h \in Gateways, NEW r \in Known(h)'
          PROVE  LET x == call'.pagers[h]
                 IN  \/ r \in x.seen
                     \/ /\ ~x.done /\ x.last <= r.at
                        /\ x.page * GatewayPage <= Before(r, ListOf(h, call.from, call.to)')
      <3>1. r \in Known(h)
        BY <1>3, <2>3 DEF Known, SameWindow
      <3>2. ListOf(h, call.from, call.to)' = ListOf(h, call.from, call.to)
        BY <1>3 DEF ListOf, SameWindow
      <3>3. \/ r \in call.pagers[h].seen
            \/ /\ ~call.pagers[h].done /\ call.pagers[h].last <= r.at
               /\ call.pagers[h].page * GatewayPage <= Before(r, ListOf(h, call.from, call.to))
        BY <1>2, <3>1 DEF PagerInv
      <3>4. CASE h # g
        BY <1>10, <3>2, <3>3, <3>4
      <3>5. CASE h = g
        <4>1. r \in L /\ r.at < call.to /\ r.at \in Nat
          <5>1. r \in logged /\ r.gateway = g /\ r.at + r.delay <= call.began /\ call.from <= r.at /\ r.at < call.to
            BY <3>1, <3>5 DEF Known
          <5>2. r.at \in Nat /\ r.delay \in Nat /\ call.began \in Nat /\ instant \in Nat /\ call.began <= instant /\ call.to \in Nat
            BY <1>2, <5>1, RowFacts DEF WindowInv, BaseInv
          <5>3. r.at + r.delay <= instant /\ r.at <= call.to
            BY <5>1, <5>2
          <5> QED BY <5>1, <5>2, <5>3 DEF ListOf
        <4>2. CASE r \in p.seen \/ r \in page
          BY <1>9, <1>10, <3>5, <4>1, <4>2
        <4>3. CASE r \notin p.seen /\ r \notin page
          <5>1. p.last <= r.at /\ p.page * GatewayPage <= Before(r, L)
            BY <3>3, <3>5, <4>3
          <5>2. p.page \in Nat
            BY <1>4 DEF Pager
          <5>3. /\ (p.page + 1) * GatewayPage <= Before(r, L)
                /\ page # {} /\ \A o \in page : Earlier(o, r)
            <6> HIDE DEF p, L
            <6> QED BY <1>2, <1>5, <4>1, <4>3, <5>1, <5>2, PageCovers
          <5>4. \A o \in page : o.at <= r.at
            BY <1>2, <1>5, <4>1, <5>3, TotalOrder
          <5>5. Max(times) <= r.at
            <6> HIDE DEF times, page
            <6> QED BY <1>6, <4>1, <5>1, <5>4
          <5>6. ~\E o \in page : o.at >= call.to
            <6>1. call.to \in Nat
              BY <1>2 DEF WindowInv
            <6> QED BY <1>5, <4>1, <5>4, <6>1
          <5> HIDE DEF q, page, L, p, times
          <5>7. ~q.done /\ q.last <= r.at /\ q.page * GatewayPage <= Before(r, L)
            BY <1>9, <5>3, <5>5, <5>6
          <5> QED BY <1>10, <3>2, <3>5, <5>7 DEF L
        <4> QED BY <4>2, <4>3
      <3> QED BY <3>4, <3>5
    <2> QED BY <2>1, <2>2, <2>3 DEF PagerInv
  <1>14. StageInv'
    <2>1. Limit' = Limit /\ Limit = call.pos
      BY <1>1, <1>3 DEF Limit, SameEmitted
    <2>2. ASSUME NEW h \in Gateways
          PROVE  LET x == call'.pagers[h]
                 IN  /\ Limit <= Horizon(x, call')
                     /\ \A r \in x.pending : Limit <= r.at
                     /\ \A r \in x.seen \ x.pending :
                          r \in RowsOf(call.out) \cup RowsOf(call.group) \cup call.queue
      <3>1. LET x == call.pagers[h]
            IN  /\ Limit <= Horizon(x, call)
                /\ \A r \in x.pending : Limit <= r.at
                /\ \A r \in x.seen \ x.pending :
                     r \in RowsOf(call.out) \cup RowsOf(call.group) \cup call.queue
        BY <1>2 DEF StageInv
      <3>2. /\ call.from \in Nat /\ call.to \in Nat /\ call.from <= call.to
            /\ Aligned(call.from) /\ Aligned(call.to) /\ call'.from = call.from /\ call'.to = call.to
        BY <1>2, <1>3 DEF WindowInv, SameWindow
      <3>3. CASE h # g
        <4>1. Horizon(call.pagers[h], call') = Horizon(call.pagers[h], call)
          BY <3>2 DEF Horizon, Clamped
        <4> QED BY <1>10, <3>1, <3>3, <4>1
      <3>4. CASE h = g
        <4>1. p.last \in Nat /\ q.last \in Nat /\ p.last <= q.last /\ ~p.done
          BY <1>4, <1>6, <1>9 DEF Pager
        <4>2. Limit \in Nat /\ \A r \in new : r.at \in Nat
          BY <1>2, <1>5, <2>1 DEF WindowInv
        <4> HIDE DEF q, p, new
        <4>3. Horizon(p, call) <= Horizon(q, call') /\ Horizon(p, call) \in Nat
          BY <3>2, <4>1, HorizonGrows, HorizonRange
        <4>4. Horizon(q, call') \in Nat
          BY <3>2, <4>1, HorizonRange
        <4>5. Limit <= Horizon(p, call)
          BY <3>1, <3>4 DEF p
        <4>6. Limit <= Horizon(q, call')
          BY <4>2, <4>3, <4>4, <4>5
        <4>7. \A r \in q.pending : Limit <= r.at
          <5>1. \A r \in new : Limit <= r.at
            BY <1>1, <4>2, <4>3, <4>5
          <5>2. \A r \in p.pending : Limit <= r.at
            BY <3>1, <3>4 DEF p
          <5> QED BY <1>9, <5>1, <5>2
        <4>8. q.seen \ q.pending \subseteq p.seen \ p.pending
          BY <1>9
        <4>9. \A r \in p.seen \ p.pending :
                r \in RowsOf(call.out) \cup RowsOf(call.group) \cup call.queue
          BY <3>1, <3>4 DEF p
        <4> QED BY <1>10, <3>4, <4>6, <4>7, <4>8, <4>9
      <3> QED BY <3>3, <3>4
    <2>3. /\ RowsOf(call.out)' = RowsOf(call.out) /\ RowsOf(call.group)' = RowsOf(call.group)
          /\ call'.queue = call.queue
      BY <1>3, SMTT(30) DEF RowsOf, SameEmitted
    <2> QED BY <2>1, <2>2, <2>3 DEF StageInv
  <1>15. EmitInv'
    BY <1>1, <1>2, <1>3 DEF EmitInv, SameWindow, SameEmitted, InCall, Fresh, Ordered, Detail, RowsOf, Limit
  <1>16. FlightInv'
    BY <1>3 DEF FlightInv
  <1> QED BY <1>3, <1>11, <1>12, <1>13, <1>14, <1>15, <1>16 DEF GatewayInv

\* A row a step of emission puts into the cache, or leaves there.
LEMMA EmittingFacts ==
  ASSUME GatewayInv, call.stage = "emit"
  PROVE  /\ BaseInv /\ WindowInv /\ PagerInv /\ StageInv /\ EmitInv /\ FlightInv
         /\ DOMAIN call = CallFields /\ Rows /\ retained \in Seq(Retained)
         /\ call.pagers \in [Gateways -> Pager]
         /\ \A g \in Gateways : call.pagers[g].pending \subseteq call.pagers[g].seen
  BY DEF GatewayInv, BaseInv, NoCall, Rows, PagerInv

\* Steps that emit read nothing from the lists.
LEMMA EmittingKeeps ==
  ASSUME GatewayInv, call.stage = "emit", SameWindow, retained' \in Seq(Retained),
         call'.stage = "emit", call'.pagers = call.pagers, call'.round = call.round,
         call'.pos = call.pos, call'.goal = call.goal
  PROVE  BaseInv' /\ WindowInv' /\ PagerInv' /\ Limit' = Limit
  <1>1. BaseInv /\ WindowInv /\ PagerInv /\ Rows
    BY EmittingFacts
  <1>2. BaseInv'
    BY <1>1 DEF BaseInv, SameWindow, Aligned, Retained, Detail
  <1>3. WindowInv'
    BY <1>1 DEF WindowInv, SameWindow, Aligned
  <1>4. PagerInv'
    <2>1. instant \in Nat /\ instant' = instant
      BY <1>1 DEF BaseInv, SameWindow
    <2> QED BY <1>1, <2>1, EmittingFacts, PagersKept DEF SameWindow
  <1> QED BY <1>2, <1>3, <1>4 DEF Limit

LEMMA LandStep ==
  ASSUME GatewayInv, call.stage = "emit", NEW d \in call.flight, Land(d)
  PROVE  GatewayInv'
  <1>1. /\ UNCHANGED <<logged, instant, logMark, retained, retainedFrom>>
        /\ call' = [call EXCEPT !.flight = (@ \ {d}) \cup {Landed(d)}]
    BY DEF Land
  <1>2. /\ BaseInv /\ WindowInv /\ StageInv /\ EmitInv /\ FlightInv /\ DOMAIN call = CallFields
        /\ retained \in Seq(Retained)
    BY EmittingFacts
  <1>3. /\ SameWindow /\ SameEmitted /\ call'.stage = "emit" /\ call'.round = call.round
        /\ call'.pagers = call.pagers /\ call'.flight = (call.flight \ {d}) \cup {Landed(d)}
    BY <1>1, <1>2 DEF SameWindow, SameEmitted, CallFields
  <1>4. retained' \in Seq(Retained)
    BY <1>1, <1>2
  <1>5. BaseInv' /\ WindowInv' /\ PagerInv' /\ Limit' = Limit
    BY <1>3, <1>4, EmittingKeeps DEF SameEmitted
  <1>6. StageInv'
    BY <1>2, <1>3, <1>5 DEF StageInv, SameWindow, SameEmitted, Horizon, Clamped, RowsOf
  <1>7. EmitInv'
    BY <1>2, <1>3, <1>5 DEF EmitInv, SameWindow, SameEmitted, InCall, Fresh, Ordered, Detail, RowsOf
  <1>8. FlightInv'
    <2>1. d \in Detail /\ instant \in Nat /\ call.began \in Nat /\ call.began <= instant
      BY <1>2 DEF FlightInv, BaseInv, WindowInv
    <2>2. /\ Landed(d) \in Detail /\ Landed(d).at = instant
      BY <2>1 DEF Landed, Detail, Missing
    <2>3. Fresh(Landed(d))
      BY <2>1, <2>2, GatewayAssumption DEF Fresh
    <2>4. \A x \in call'.flight : x \in Detail /\ (x.got => Fresh(x))
      BY <1>2, <1>3, <2>2, <2>3 DEF FlightInv
    <2> QED BY <1>3, <2>4 DEF FlightInv, Fresh, Detail, SameWindow
  <1> QED BY <1>3, <1>5, <1>6, <1>7, <1>8 DEF GatewayInv

LEMMA DecideStep ==
  ASSUME GatewayInv, Decide
  PROVE  GatewayInv'
  <1> DEFINE h == AllHorizon(call)
             waiting == UNION {call.pagers[g].pending : g \in Gateways}
             queue == {r \in waiting : r.at < h}
             ahead == {r \in queue : Before(r, queue) < Ahead}
             pager(g) == [call.pagers[g] EXCEPT !.pending = {r \in @ : r.at >= h}]
             round == {g \in Gateways : ~call.pagers[g].done /\ (call.budget = 0 \/ Horizon(call.pagers[g], call) <= h)}
  <1>1. /\ call.stage = "list" /\ UNCHANGED <<logged, instant, logMark, retainedFrom>>
        /\ IF ListMore(call)
           THEN call' = [call EXCEPT !.round = round] /\ UNCHANGED retained
           ELSE /\ call' = [call EXCEPT !.stage = "emit", !.goal = h, !.queue = queue,
                     !.flight = Started(retained, ahead), !.pagers = [g \in Gateways |-> pager(g)]]
                /\ retained' = Without(retained, ahead)
    BY DEF Decide
  <1>2. /\ BaseInv /\ WindowInv /\ PagerInv /\ StageInv /\ EmitInv /\ FlightInv
        /\ DOMAIN call = CallFields /\ Rows /\ retained \in Seq(Retained) /\ instant \in Nat
    BY <1>1 DEF GatewayInv, BaseInv, NoCall, Rows
  <1>3. /\ call.pagers \in [Gateways -> Pager]
        /\ \A g \in Gateways : call.pagers[g].pending \subseteq call.pagers[g].seen
        /\ Limit = call.pos /\ call.group = << >> /\ call.queue = {}
    BY <1>1, <1>2 DEF PagerInv, Limit, EmitInv
  <1>4. CASE ListMore(call)
    <2>1. /\ SameWindow /\ SameEmitted /\ call'.stage = "list" /\ call'.round = round
          /\ call'.pagers = call.pagers /\ retained' = retained
      <3> HIDE DEF round
      <3> QED BY <1>1, <1>2, <1>4 DEF SameWindow, SameEmitted, CallFields
    <2>2. BaseInv'
      BY <1>2, <2>1 DEF BaseInv, SameWindow, Aligned, Retained, Detail
    <2>3. WindowInv'
      BY <1>2, <2>1 DEF WindowInv, SameWindow, SameEmitted, Aligned
    <2>4. PagerInv'
      <3>1. instant' = instant
        BY <2>1 DEF SameWindow
      <3> QED BY <1>2, <1>3, <2>1, <3>1, PagersKept DEF SameWindow
    <2>5. StageInv'
      BY <1>1, <1>2, <2>1 DEF StageInv, Limit, SameWindow, SameEmitted, Horizon, Clamped, RowsOf
    <2>6. EmitInv'
      BY <1>1, <1>2, <2>1 DEF EmitInv, SameWindow, SameEmitted, InCall, Fresh, Ordered, Detail, RowsOf, Limit
    <2>7. FlightInv'
      BY <2>1 DEF FlightInv
    <2> QED BY <2>1, <2>2, <2>3, <2>4, <2>5, <2>6, <2>7 DEF GatewayInv
  <1>5. CASE ~ListMore(call)
    <2>1. /\ SameWindow /\ call'.stage = "emit" /\ call'.round = call.round
          /\ call'.pagers = [g \in Gateways |-> pager(g)] /\ retained' = Without(retained, ahead)
          /\ call'.goal = h /\ call'.queue = queue /\ call'.flight = Started(retained, ahead)
          /\ call'.pos = call.pos /\ call'.out = call.out /\ call'.group = call.group /\ call'.any = call.any
      <3> DEFINE pagers == [g \in Gateways |-> pager(g)]
      <3>1. /\ UNCHANGED <<logged, instant, logMark, retainedFrom>>
            /\ call' = [call EXCEPT !.stage = "emit", !.goal = h, !.queue = queue,
                     !.flight = Started(retained, ahead), !.pagers = pagers]
            /\ retained' = Without(retained, ahead)
        BY <1>1, <1>5
      <3> HIDE DEF h, queue, ahead, pagers
      <3>2. call'.pagers = pagers
        BY <1>2, <3>1 DEF CallFields
      <3>3. /\ SameWindow /\ call'.stage = "emit" /\ call'.round = call.round
            /\ retained' = Without(retained, ahead)
            /\ call'.goal = h /\ call'.queue = queue /\ call'.flight = Started(retained, ahead)
            /\ call'.pos = call.pos /\ call'.out = call.out /\ call'.group = call.group /\ call'.any = call.any
        BY <1>2, <3>1 DEF SameWindow, CallFields
      <3> QED BY <3>2, <3>3 DEF pagers
    <2>2. /\ h \in Nat /\ Aligned(h) /\ h <= call.to /\ call.pos < h
          /\ \A g \in Gateways : h <= Horizon(call.pagers[g], call)
      <3>1. /\ h \in Nat /\ Aligned(h) /\ h <= call.to
            /\ \A g \in Gateways : h <= Horizon(call.pagers[g], call)
            /\ Complete(call) => h = call.to
        BY <1>2, AllHorizonIs
      <3>2. call.pos \in Nat /\ call.pos < call.to
        BY <1>2 DEF WindowInv
      <3>3. Complete(call) \/ ~(h <= call.pos)
        BY <1>5 DEF ListMore
      <3> HIDE DEF h
      <3> QED BY <3>1, <3>2, <3>3
    <2>3. ASSUME NEW g \in Gateways
          PROVE  /\ pager(g) \in Pager
                 /\ pager(g).page = call.pagers[g].page /\ pager(g).seen = call.pagers[g].seen
                 /\ pager(g).last = call.pagers[g].last /\ pager(g).done = call.pagers[g].done
                 /\ pager(g).pending = {r \in call.pagers[g].pending : r.at >= h}
      <3> DEFINE p == call.pagers[g]
                 waits == {r \in p.pending : r.at >= h}
      <3>1. p \in Pager
        BY <1>3
      <3>2. waits \in SUBSET logged
        BY <3>1 DEF Pager
      <3>3. pager(g) = [p EXCEPT !.pending = waits]
        OBVIOUS
      <3> HIDE DEF p, waits
      <3>4. /\ [p EXCEPT !.pending = waits] \in Pager
            /\ [p EXCEPT !.pending = waits].page = p.page /\ [p EXCEPT !.pending = waits].seen = p.seen
            /\ [p EXCEPT !.pending = waits].last = p.last /\ [p EXCEPT !.pending = waits].done = p.done
            /\ [p EXCEPT !.pending = waits].pending = waits
        BY <3>1, <3>2 DEF Pager
      <3> QED BY <3>3, <3>4 DEF p, waits
    <2> HIDE DEF pager, h
    <2>4. /\ queue \in SUBSET logged /\ ahead \in SUBSET logged
          /\ \A r \in queue : InCall(r) /\ call.pos <= r.at /\ r.at < h
      <3>1. ASSUME NEW r \in queue
            PROVE  r \in logged /\ InCall(r) /\ call.pos <= r.at /\ r.at < h
        <4>1. PICK g \in Gateways : r \in call.pagers[g].pending
          BY <3>1
        <4>2. r \in call.pagers[g].seen /\ call.pos <= r.at
          BY <1>2, <1>3, <4>1 DEF StageInv
        <4>3. InCall(r)
          BY <1>2, <4>2 DEF PagerInv
        <4> QED BY <3>1, <4>2, <4>3 DEF InCall
      <3> QED BY <3>1
    <2> HIDE DEF ahead
    <2>5. BaseInv'
      <3>1. retained' \in Seq(Retained)
        BY <1>2, <2>1, PickedKept
      <3> QED BY <1>2, <2>1, <3>1 DEF BaseInv, SameWindow, Aligned, Retained, Detail
    <2>6. WindowInv'
      <3>1. \A g \in call'.round : ~call'.pagers[g].done
        BY <1>2, <2>1, <2>3 DEF WindowInv
      <3> QED BY <1>2, <2>1, <2>2, <3>1 DEF WindowInv, SameWindow, Aligned
    <2>7. PagerInv'
      <3>1. call'.pagers \in [Gateways -> Pager]
        BY <2>1, <2>3
      <3>2. \A g \in Gateways :
              LET p == call.pagers[g]
                  q == call'.pagers[g]
              IN  q.page = p.page /\ q.seen = p.seen /\ q.last = p.last /\ q.done = p.done /\ q.pending \subseteq p.seen
        BY <1>3, <2>1, <2>3
      <3>3. instant' = instant
        BY <2>1 DEF SameWindow
      <3> QED BY <1>2, <2>1, <3>1, <3>2, <3>3, PagersKept DEF SameWindow
    <2>8. StageInv'
      <3>1. Limit' = h
        BY <2>1 DEF Limit
      <3>2. ASSUME NEW g \in Gateways
            PROVE  LET q == call'.pagers[g]
                   IN  /\ h <= Horizon(q, call')
                       /\ \A r \in q.pending : h <= r.at
                       /\ \A r \in q.seen \ q.pending : r \in RowsOf(call.out) \cup RowsOf(call.group) \cup queue
        <4>1. Horizon(call'.pagers[g], call') = Horizon(call.pagers[g], call)
          BY <2>1, <2>3 DEF Horizon, Clamped, SameWindow
        <4>2. \A r \in call'.pagers[g].pending : h <= r.at
          <5>1. \A r \in call.pagers[g].pending : r.at \in Nat
            BY <1>2, <1>3, RowFacts DEF Pager
          <5> QED BY <2>1, <2>2, <2>3, <5>1
        <4>3. \A r \in call'.pagers[g].seen \ call'.pagers[g].pending :
                r \in RowsOf(call.out) \cup RowsOf(call.group) \cup queue
          <5> TAKE r \in call'.pagers[g].seen \ call'.pagers[g].pending
          <5>1. r \in call.pagers[g].seen /\ (r \in call.pagers[g].pending => ~(r.at >= h))
            BY <2>1, <2>3
          <5>2. r.at \in Nat
            BY <1>2, <1>3, <5>1, RowFacts DEF Pager
          <5>3. CASE r \in call.pagers[g].pending
            BY <2>2, <5>1, <5>2, <5>3
          <5>4. CASE r \notin call.pagers[g].pending
            BY <1>2, <1>3, <5>1, <5>4 DEF StageInv
          <5> QED BY <5>3, <5>4
        <4> QED BY <2>2, <4>1, <4>2, <4>3
      <3>3. /\ RowsOf(call.out)' = RowsOf(call.out) /\ RowsOf(call.group)' = RowsOf(call.group)
            /\ call'.queue = queue
        BY <2>1 DEF RowsOf
      <3> HIDE DEF queue
      <3> QED BY <3>1, <3>2, <3>3 DEF StageInv
    <2>9. EmitInv'
      <3> HIDE DEF queue
      <3>1. /\ call'.out = call.out /\ call'.group = << >> /\ call'.queue = queue /\ call'.any = call.any
            /\ call'.stage = "emit" /\ Limit' = h
            /\ call'.pos = call.pos /\ call'.goal = h
        BY <1>3, <2>1 DEF Limit
      <3>2. \A i \in DOMAIN call.out :
              InCall(call.out[i].row) /\ call.out[i].row.at < call.pos /\ Fresh(call.out[i])
        BY <1>2, <1>3 DEF EmitInv
      <3>3. \A i \in DOMAIN call.out :
              InCall(call.out[i].row)' /\ call.out[i].row.at < h /\ Fresh(call.out[i])'
        <4> TAKE i \in DOMAIN call.out
        <4>1. call.out[i].row.at \in Nat /\ call.pos \in Nat
          BY <1>2, <3>2, RowFacts DEF InCall, WindowInv
        <4> QED BY <2>1, <2>2, <3>1, <3>2, <4>1 DEF InCall, Fresh, SameWindow
      <3>4. call'.out \in Seq(Detail') /\ call'.group \in Seq(Detail')
        BY <1>2, <2>1, <3>1 DEF EmitInv, Detail, SameWindow
      <3>5. Ordered(call.out)' /\ Ordered(call.group)' /\ (call'.any => call'.out # << >>)
        BY <1>2, <1>3, <3>1 DEF EmitInv, Ordered
      <3>6. RowsOf(call.group)' = {} /\ RowsOf(call.out)' = RowsOf(call.out)
        BY <3>1 DEF RowsOf
      <3>7. \A r \in queue : InCall(r)' /\ call'.pos <= r.at /\ r.at < h
        BY <2>1, <2>4, <3>1 DEF InCall, SameWindow
      <3>8. \A o \in RowsOf(call.out), r \in queue : Truncate(o.at) < Truncate(r.at)
        <4> TAKE o \in RowsOf(call.out), r \in queue
        <4>1. o.at < call.pos /\ call.pos <= r.at /\ o \in logged /\ r \in logged
          BY <2>4, <3>2 DEF RowsOf, InCall
        <4>2. o.at \in Nat /\ r.at \in Nat /\ call.pos \in Nat /\ Aligned(call.pos) /\ Tenths \in Nat \ {0}
          BY <1>2, <4>1, RowFacts, GatewayAssumption DEF WindowInv
        <4>3. Truncate(o.at) + Tenths <= call.pos /\ call.pos <= Truncate(r.at)
          BY <4>1, <4>2, TruncateOrder
        <4>4. Truncate(o.at) \in Nat /\ Truncate(r.at) \in Nat
          BY <4>2, TruncateBounds
        <4> QED BY <4>2, <4>3, <4>4
      <3> QED BY <3>1, <3>3, <3>4, <3>5, <3>6, <3>7, <3>8 DEF EmitInv
    <2>10. FlightInv'
      <3>1. call.began \in Nat /\ call.began <= instant
        BY <1>2 DEF WindowInv
      <3>2. \A d \in Started(retained, ahead) : d \in Detail /\ (d.got => Fresh(d))
        BY <1>2, <2>4, <3>1, StartedFresh
      <3> QED BY <2>1, <3>2 DEF FlightInv, Fresh, Detail, SameWindow
    <2> QED BY <2>1, <2>5, <2>6, <2>7, <2>8, <2>9, <2>10 DEF GatewayInv
  <1> QED BY <1>4, <1>5

\* One after the other: the members and the positions.
LEMMA JoinedSeq ==
  ASSUME NEW T, NEW s \in Seq(T), NEW t \in Seq(T)
  PROVE  /\ s \o t \in Seq(T)
         /\ \A i \in DOMAIN s : i \in DOMAIN (s \o t) /\ (s \o t)[i] = s[i]
         /\ \A i \in DOMAIN (s \o t) :
              \/ i \in DOMAIN s /\ (s \o t)[i] = s[i]
              \/ /\ i - Len(s) \in DOMAIN t /\ i > Len(s) /\ (s \o t)[i] = t[i - Len(s)]
         /\ \A i \in DOMAIN t : i + Len(s) \in DOMAIN (s \o t) /\ (s \o t)[i + Len(s)] = t[i]
         /\ \A i \in DOMAIN (s \o t) : i \in Nat
         /\ \A i \in DOMAIN s : i \in Nat /\ i <= Len(s)
         /\ Len(s) \in Nat
  <1>1. /\ Len(s) \in Nat /\ Len(t) \in Nat /\ DOMAIN s = 1 .. Len(s) /\ DOMAIN t = 1 .. Len(t)
        /\ s \o t \in Seq(T) /\ Len(s \o t) = Len(s) + Len(t) /\ DOMAIN (s \o t) = 1 .. Len(s) + Len(t)
    OBVIOUS
  <1>2. \A i \in 1 .. Len(s) + Len(t) : (s \o t)[i] = IF i <= Len(s) THEN s[i] ELSE t[i - Len(s)]
    OBVIOUS
  <1>3. \A i \in 1 .. Len(t) : i + Len(s) \in 1 .. Len(s) + Len(t) /\ ~(i + Len(s) <= Len(s)) /\ (i + Len(s)) - Len(s) = i
    BY <1>1
  <1> QED BY <1>1, <1>2, <1>3

LEMMA JoinedMembers ==
  ASSUME NEW T, NEW s \in Seq(T), NEW t \in Seq(T), NEW u, u = s \o t
  PROVE  /\ u \in Seq(T)
         /\ \A i \in DOMAIN u : (\E k \in DOMAIN s : u[i] = s[k]) \/ (\E k \in DOMAIN t : u[i] = t[k])
  <1>1. u \in Seq(T)
    BY JoinedSeq
  <1>2. ASSUME NEW i \in DOMAIN u
        PROVE  (\E k \in DOMAIN s : u[i] = s[k]) \/ (\E k \in DOMAIN t : u[i] = t[k])
    <2>1. \/ i \in DOMAIN s /\ (s \o t)[i] = s[i]
          \/ i - Len(s) \in DOMAIN t /\ (s \o t)[i] = t[i - Len(s)]
      BY <1>2, JoinedSeq
    <2> QED BY <2>1
  <1> QED BY <1>1, <1>2

LEMMA RowsOfJoined ==
  ASSUME NEW T, NEW s \in Seq(T), NEW t \in Seq(T)
  PROVE  RowsOf(s \o t) = RowsOf(s) \cup RowsOf(t)
  <1>1. \A i \in DOMAIN (s \o t) : (s \o t)[i].row \in RowsOf(s) \cup RowsOf(t)
    BY JoinedSeq DEF RowsOf
  <1>2. \A i \in DOMAIN s : s[i].row \in RowsOf(s \o t)
    BY JoinedSeq DEF RowsOf
  <1>3. \A i \in DOMAIN t : t[i].row \in RowsOf(s \o t)
    <2> TAKE i \in DOMAIN t
    <2>1. i + Len(s) \in DOMAIN (s \o t) /\ (s \o t)[i + Len(s)] = t[i]
      BY JoinedSeq
    <2> QED BY <2>1 DEF RowsOf
  <1> QED BY <1>1, <1>2, <1>3 DEF RowsOf

LEMMA OrderedJoined ==
  ASSUME NEW T, NEW s \in Seq(T), NEW t \in Seq(T), Ordered(s), Ordered(t),
         \A r \in RowsOf(s), o \in RowsOf(t) : Earlier(r, o)
  PROVE  Ordered(s \o t)
  <1> SUFFICES ASSUME NEW i \in DOMAIN (s \o t), NEW j \in DOMAIN (s \o t), i < j
               PROVE  Earlier((s \o t)[i].row, (s \o t)[j].row)
    BY DEF Ordered
  <1>1. i \in Nat /\ j \in Nat /\ Len(s) \in Nat
    BY JoinedSeq
  <1>2. CASE i \in DOMAIN s /\ (s \o t)[i] = s[i] /\ j \in DOMAIN s /\ (s \o t)[j] = s[j]
    BY <1>2 DEF Ordered
  <1>3. CASE i \in DOMAIN s /\ (s \o t)[i] = s[i] /\ j - Len(s) \in DOMAIN t /\ (s \o t)[j] = t[j - Len(s)]
    <2>1. (s \o t)[i].row \in RowsOf(s) /\ (s \o t)[j].row \in RowsOf(t)
      BY <1>3 DEF RowsOf
    <2> QED BY <2>1
  <1>4. CASE /\ i - Len(s) \in DOMAIN t /\ (s \o t)[i] = t[i - Len(s)]
             /\ j - Len(s) \in DOMAIN t /\ (s \o t)[j] = t[j - Len(s)]
    <2>1. i - Len(s) < j - Len(s)
      BY <1>1
    <2> QED BY <1>4, <2>1 DEF Ordered
  <1>5. ~(i > Len(s) /\ j \in DOMAIN s)
    BY <1>1, JoinedSeq
  <1> QED BY <1>2, <1>3, <1>4, <1>5, JoinedSeq

LEMMA ReadDetailStep ==
  ASSUME GatewayInv, call.stage = "emit", NEW d \in call.flight, ReadDetail(d)
  PROVE  GatewayInv'
  <1> DEFINE cache == Put(retained, {d})
             more == {r \in call.queue : Before(r, call.queue) = Ahead}
  <1>1. /\ ~GroupEnds(call) /\ d.got /\ d.row \in call.queue /\ \A r \in call.queue : ~Earlier(r, d.row)
        /\ UNCHANGED <<logged, instant, logMark, retainedFrom>>
        /\ call' = [call EXCEPT !.queue = @ \ {d.row}, !.group = Append(@, d),
                       !.flight = (@ \ {d}) \cup Started(cache, more)]
        /\ retained' = Without(cache, more)
    BY DEF ReadDetail
  <1>2. /\ BaseInv /\ WindowInv /\ StageInv /\ EmitInv /\ FlightInv /\ DOMAIN call = CallFields
        /\ Rows /\ retained \in Seq(Retained)
    BY EmittingFacts
  <1>3. /\ d \in Detail /\ Fresh(d)
    BY <1>1, <1>2 DEF FlightInv
  <1>4. cache \in Seq(Retained)
    <2>1. {d} \subseteq Detail
      BY <1>3
    <2> QED BY <1>2, <2>1, PutKeeps
  <1>5. \A r \in call.queue : r \in logged
    BY <1>2 DEF EmitInv, InCall
  <1>6. more \in SUBSET logged
    BY <1>5
  <1> HIDE DEF cache, more
  <1>7. /\ SameWindow /\ call'.stage = "emit" /\ call'.round = call.round
        /\ call'.pagers = call.pagers /\ call'.pos = call.pos /\ call'.goal = call.goal
        /\ call'.out = call.out /\ call'.any = call.any
        /\ call'.queue = call.queue \ {d.row} /\ call'.group = Append(call.group, d)
        /\ call'.flight = (call.flight \ {d}) \cup Started(cache, more)
    BY <1>1, <1>2 DEF SameWindow, CallFields
  <1>8. retained' \in Seq(Retained)
    BY <1>1, <1>4, PickedKept
  <1>9. BaseInv' /\ WindowInv' /\ PagerInv' /\ Limit' = Limit
    BY <1>7, <1>8, EmittingKeeps
  <1>10. /\ call.group \in Seq(Detail) /\ <<d>> \in Seq(Detail)
         /\ Append(call.group, d) = call.group \o <<d>>
    BY <1>2, <1>3 DEF EmitInv
  <1>11. RowsOf(<<d>>) = {d.row} /\ Ordered(<<d>>)
    BY DEF RowsOf, Ordered
  <1>12. RowsOf(call.group)' = RowsOf(call.group) \cup {d.row}
    <2> DEFINE one == <<d>>
    <2>1. call.group \in Seq(Detail) /\ one \in Seq(Detail) /\ RowsOf(one) = {d.row} /\ call'.group = call.group \o one
      BY <1>7, <1>10, <1>11
    <2> HIDE DEF one
    <2>2. RowsOf(call.group \o one) = RowsOf(call.group) \cup RowsOf(one)
      BY <2>1, RowsOfJoined
    <2>3. RowsOf(call'.group) = RowsOf(call.group) \cup {d.row}
      BY <2>1, <2>2
    <2> QED BY <2>3 DEF RowsOf
  <1>13. RowsOf(call.out)' = RowsOf(call.out)
    BY <1>7 DEF RowsOf
  <1>14. RowsOf(call.group)' \cup call'.queue = RowsOf(call.group) \cup call.queue
    BY <1>1, <1>7, <1>12
  <1>15. StageInv'
    <2>1. \A g \in Gateways : Horizon(call'.pagers[g], call') = Horizon(call.pagers[g], call)
      BY <1>7 DEF Horizon, Clamped, SameWindow
    <2> QED BY <1>2, <1>7, <1>9, <1>13, <1>14, <2>1 DEF StageInv
  <1>16. EmitInv'
    <2>1. call'.out \in Seq(Detail') /\ call'.group \in Seq(Detail')
      BY <1>2, <1>3, <1>7 DEF EmitInv, Detail, SameWindow
    <2>2. Ordered(call.out)' /\ Ordered(call.group)'
      <3>1. \A r \in RowsOf(call.group), o \in RowsOf(<<d>>) : Earlier(r, o)
        BY <1>1, <1>2, <1>11, EmittingFacts DEF EmitInv
      <3>2. Ordered(call.group) /\ Ordered(call.out)
        BY <1>2 DEF EmitInv
      <3>3. Ordered(call.group \o <<d>>)
        BY <1>10, <1>11, <3>1, <3>2, OrderedJoined
      <3> QED BY <1>7, <1>10, <3>2, <3>3 DEF Ordered
    <2>3. \A i \in DOMAIN call'.out :
            InCall(call.out[i].row)' /\ call'.out[i].row.at < Limit' /\ Fresh(call.out[i])'
      BY <1>2, <1>7, <1>9 DEF EmitInv, InCall, Fresh, SameWindow
    <2>4. \A i \in DOMAIN call'.group : Fresh(call.group[i])'
      <3>1. \A i \in DOMAIN call'.group : call'.group[i] = d \/ (i \in DOMAIN call.group /\ call'.group[i] = call.group[i])
        BY <1>7, <1>10
      <3>2. \A i \in DOMAIN call'.group : Fresh(call'.group[i])
        BY <1>2, <1>3, <3>1 DEF EmitInv
      <3> QED BY <1>7, <3>2 DEF Fresh, SameWindow
    <2>5. \A r \in RowsOf(call.group)' \cup call'.queue : InCall(r)' /\ call'.pos <= r.at /\ r.at < call'.goal
      <3>1. \A r \in RowsOf(call.group) \cup call.queue : InCall(r) /\ call.pos <= r.at /\ r.at < call.goal
        BY <1>2, EmittingFacts DEF EmitInv
      <3> QED BY <1>7, <1>14, <3>1 DEF InCall, SameWindow
    <2>6. \A o \in RowsOf(call.out)', r \in RowsOf(call.group)' \cup call'.queue : Truncate(o.at) < Truncate(r.at)
      BY <1>2, <1>13, <1>14, EmittingFacts DEF EmitInv
    <2>7. \A i \in DOMAIN call'.group : Truncate(call'.group[i].row.at) = Truncate(call'.group[1].row.at)
      <3>1. CASE call.group = << >>
        BY <1>7, <3>1
      <3>2. CASE call.group # << >>
        <4>1. PICK r \in call.queue : Truncate(r.at) = Truncate(call.group[1].row.at)
          BY <1>1, <3>2 DEF GroupEnds
        <4>2. /\ 1 \in DOMAIN call.group /\ call.group[1].row \in RowsOf(call.group)
              /\ call'.group[1] = call.group[1]
              /\ \A i \in DOMAIN call'.group :
                   call'.group[i] = d \/ (i \in DOMAIN call.group /\ call'.group[i] = call.group[i])
          BY <1>7, <1>10, <3>2 DEF RowsOf
        <4>3. Earlier(call.group[1].row, d.row) /\ call.group[1].row \in logged /\ d.row \in logged /\ r \in logged
          BY <1>1, <1>2, <1>5, <4>1, <4>2, EmittingFacts DEF EmitInv, InCall
        <4>4. call.group[1].row.at <= d.row.at /\ d.row.at <= r.at
          <5>1. ~Earlier(r, d.row)
            BY <1>1, <4>1
          <5> QED BY <1>2, <4>3, <5>1, TotalOrder, RowFacts
        <4>5. call.group[1].row.at \in Nat /\ d.row.at \in Nat /\ r.at \in Nat
          BY <1>2, <4>3, RowFacts
        <4>6. /\ Truncate(call.group[1].row.at) <= Truncate(d.row.at) /\ Truncate(d.row.at) <= Truncate(r.at)
              /\ Truncate(call.group[1].row.at) \in Nat /\ Truncate(d.row.at) \in Nat
          BY <4>4, <4>5, TruncateOrder, TruncateBounds
        <4>7. Truncate(d.row.at) = Truncate(call.group[1].row.at)
          BY <4>1, <4>6
        <4> QED BY <1>2, <4>2, <4>7, EmittingFacts DEF EmitInv
      <3> QED BY <3>1, <3>2
    <2>8. \A r \in RowsOf(call.group)', o \in call'.queue : Earlier(r, o)
      <3>1. \A r \in RowsOf(call.group), o \in call.queue : Earlier(r, o)
        BY <1>2, EmittingFacts DEF EmitInv
      <3>2. \A o \in call.queue \ {d.row} : Earlier(d.row, o)
        BY <1>1, <1>2, <1>5, TotalOrder
      <3> QED BY <1>7, <1>12, <3>1, <3>2
    <2>9. call'.any => call'.out # << >>
      BY <1>2, <1>7 DEF EmitInv
    <2> QED BY <1>7, <2>1, <2>2, <2>3, <2>4, <2>5, <2>6, <2>7, <2>8, <2>9 DEF EmitInv
  <1>17. FlightInv'
    <2>1. instant \in Nat /\ call.began \in Nat /\ call.began <= instant
      BY <1>2 DEF BaseInv, WindowInv
    <2>2. \A x \in Started(cache, more) : x \in Detail /\ (x.got => Fresh(x))
      BY <1>4, <1>6, <2>1, StartedFresh
    <2>3. \A x \in call'.flight : x \in Detail /\ (x.got => Fresh(x))
      BY <1>2, <1>7, <2>2, EmittingFacts DEF FlightInv
    <2> QED BY <1>7, <2>3 DEF FlightInv, Fresh, Detail, SameWindow
  <1> QED BY <1>7, <1>9, <1>15, <1>16, <1>17 DEF GatewayInv

\* The group that ends is one second, before all that is still in the queue.
LEMMA GroupFacts ==
  ASSUME GatewayInv, call.stage = "emit", GroupEnds(call)
  PROVE  LET second == Truncate(call.group[1].row.at)
         IN  /\ second \in Nat /\ Aligned(second) /\ second <= call.group[1].row.at
             /\ 1 \in DOMAIN call.group /\ call.group[1].row \in RowsOf(call.group)
             /\ call.group[1].row.at \in Nat
             /\ \A r \in RowsOf(call.group) : r.at \in Nat /\ Truncate(r.at) = second /\ second <= r.at
             /\ \A r \in call.queue : r.at \in Nat /\ second < Truncate(r.at) /\ second <= r.at
             /\ \A r \in RowsOf(call.out) : r.at \in Nat /\ Truncate(r.at) < second /\ r.at < second
  <1> DEFINE second == Truncate(call.group[1].row.at)
  <1>1. BaseInv /\ EmitInv /\ Rows
    BY EmittingFacts
  <1>2. 1 \in DOMAIN call.group /\ call.group[1].row \in RowsOf(call.group)
    BY <1>1 DEF EmitInv, GroupEnds, RowsOf
  <1>3. /\ \A r \in RowsOf(call.group) \cup call.queue : r \in logged /\ r.at \in Nat
        /\ \A r \in RowsOf(call.out) : r \in logged /\ r.at \in Nat
    <2>1. \A r \in RowsOf(call.group) \cup call.queue : r \in logged
      BY <1>1 DEF EmitInv, InCall
    <2>2. \A r \in RowsOf(call.out) : r \in logged
      BY <1>1 DEF EmitInv, InCall, RowsOf
    <2> QED BY <1>1, <2>1, <2>2, RowFacts
  <1>4. second \in Nat /\ Aligned(second) /\ second <= call.group[1].row.at
    BY <1>2, <1>3, TruncateBounds, TruncateAligned
  <1>5. \A r \in RowsOf(call.group) : Truncate(r.at) = second
    BY <1>1 DEF EmitInv, RowsOf
  <1>6. \A r \in RowsOf(call.group) : second <= r.at
    BY <1>3, <1>5, TruncateBounds
  <1>7. \A r \in call.queue : second < Truncate(r.at) /\ second <= r.at
    <2> TAKE r \in call.queue
    <2>1. Earlier(call.group[1].row, r)
      BY <1>1, <1>2 DEF EmitInv
    <2>2. call.group[1].row.at <= r.at
      BY <1>1, <1>2, <1>3, <2>1, TotalOrder
    <2>3. second <= Truncate(r.at) /\ Truncate(r.at) \in Nat /\ Truncate(r.at) <= r.at
      BY <1>2, <1>3, <2>2, TruncateOrder, TruncateBounds
    <2>4. Truncate(r.at) # second
      BY DEF GroupEnds
    <2> QED BY <1>3, <1>4, <2>3, <2>4
  <1>8. \A r \in RowsOf(call.out) : Truncate(r.at) < second /\ r.at < second
    <2> TAKE r \in RowsOf(call.out)
    <2>1. Truncate(r.at) < second
      BY <1>1, <1>2 DEF EmitInv
    <2> QED BY <1>2, <1>3, <2>1, TruncateOrder
  <1> QED BY <1>2, <1>3, <1>4, <1>5, <1>6, <1>7, <1>8

LEMMA EmitSecondStep ==
  ASSUME GatewayInv, EmitSecond
  PROVE  GatewayInv'
  <1>1. /\ call.stage = "emit" /\ GroupEnds(call)
        /\ UNCHANGED <<logged, instant, logMark, retainedFrom>>
        /\ call' = [call EXCEPT !.group = << >>, !.buffered = @ + SizeOf(call.group), !.any = TRUE,
                                 !.out = @ \o call.group]
        /\ retained' = From(retained, Truncate(call.group[1].row.at) + Tenths)
    BY DEF EmitSecond
  <1>2. /\ BaseInv /\ WindowInv /\ StageInv /\ EmitInv /\ FlightInv /\ DOMAIN call = CallFields
        /\ Rows /\ retained \in Seq(Retained)
    BY <1>1, EmittingFacts
  <1>3. /\ SameWindow /\ call'.stage = "emit" /\ call'.round = call.round
        /\ call'.pagers = call.pagers /\ call'.pos = call.pos /\ call'.goal = call.goal
        /\ call'.queue = call.queue /\ call'.flight = call.flight
        /\ call'.group = << >> /\ call'.out = call.out \o call.group
    BY <1>1, <1>2 DEF SameWindow, CallFields
  <1>4. retained' \in Seq(Retained)
    BY <1>1, <1>2, PickedKept
  <1>5. BaseInv' /\ WindowInv' /\ PagerInv' /\ Limit' = Limit
    BY <1>1, <1>3, <1>4, EmittingKeeps
  <1>6. /\ call.out \in Seq(Detail) /\ call.group \in Seq(Detail) /\ Ordered(call.out) /\ Ordered(call.group)
        /\ call.group # << >> /\ Limit = call.goal
    BY <1>1, <1>2 DEF EmitInv, GroupEnds, Limit
  <1> DEFINE out == call.out \o call.group
  <1>7. RowsOf(out) = RowsOf(call.out) \cup RowsOf(call.group)
    BY <1>6, RowsOfJoined
  <1>8. \A r \in RowsOf(call.out), o \in RowsOf(call.group) : Earlier(r, o)
    <2> TAKE r \in RowsOf(call.out), o \in RowsOf(call.group)
    <2>1. r.at < o.at
      BY <1>1, GroupFacts
    <2>2. r \in logged /\ o \in logged
      BY <1>1, <1>2 DEF EmitInv, InCall, RowsOf
    <2> QED BY <1>2, <2>1, <2>2, TotalOrder
  <1>9. Ordered(out)
    BY <1>6, <1>8, OrderedJoined
  <1>10. /\ out \in Seq(Detail) /\ out # << >>
         /\ \A i \in DOMAIN out : (\E k \in DOMAIN call.out : out[i] = call.out[k])
                                \/ (\E k \in DOMAIN call.group : out[i] = call.group[k])
    <2>1. out # << >>
      BY <1>6
    <2> DEFINE written == call.out
               group == call.group
               D       == Detail
    <2>2. written \in Seq(D) /\ group \in Seq(D) /\ out = written \o group
      BY <1>6
    <2> HIDE DEF out, written, group, D
    <2>3. out \in Seq(D)
      BY <2>2
    <2>4. ASSUME NEW i \in DOMAIN out
          PROVE  (\E k \in DOMAIN written : out[i] = written[k]) \/ (\E k \in DOMAIN group : out[i] = group[k])
      <3>1. i \in DOMAIN (written \o group)
        BY <2>2
      <3>2. \/ i \in DOMAIN written /\ (written \o group)[i] = written[i]
            \/ /\ i - Len(written) \in DOMAIN group
               /\ (written \o group)[i] = group[i - Len(written)]
        BY <2>2, <3>1, JoinedSeq
      <3> QED BY <2>2, <3>2
    <2> QED BY <2>1, <2>3, <2>4 DEF written, group, D
  <1>11. \A i \in DOMAIN out : InCall(out[i].row) /\ out[i].row.at < Limit /\ Fresh(out[i])
    <2> TAKE i \in DOMAIN out
    <2>1. ASSUME NEW k \in DOMAIN call.out, out[i] = call.out[k]
          PROVE  InCall(out[i].row) /\ out[i].row.at < Limit /\ Fresh(out[i])
      BY <1>2, <2>1 DEF EmitInv
    <2>2. ASSUME NEW k \in DOMAIN call.group, out[i] = call.group[k]
          PROVE  InCall(out[i].row) /\ out[i].row.at < Limit /\ Fresh(out[i])
      <3>1. call.group[k].row \in RowsOf(call.group)
        BY DEF RowsOf
      <3> HIDE DEF out
      <3> QED BY <1>1, <1>2, <1>6, <2>2, <3>1 DEF EmitInv
    <2> HIDE DEF out
    <2> QED BY <1>10, <2>1, <2>2
  <1>12. call'.out = out /\ RowsOf(call.out)' = RowsOf(out) /\ RowsOf(call.group)' = {}
    <2>1. call'.out = out /\ call'.group = << >>
      BY <1>3
    <2> HIDE DEF out
    <2> QED BY <2>1 DEF RowsOf
  <1> HIDE DEF out
  <1>13. StageInv'
    <2>1. \A g \in Gateways : Horizon(call'.pagers[g], call') = Horizon(call.pagers[g], call)
      BY <1>3 DEF Horizon, Clamped, SameWindow
    <2>2. RowsOf(call.out)' \cup RowsOf(call.group)' \cup call'.queue
          = RowsOf(call.out) \cup RowsOf(call.group) \cup call.queue
      BY <1>3, <1>7, <1>12
    <2> QED BY <1>2, <1>3, <1>5, <2>1, <2>2 DEF StageInv
  <1>14. EmitInv'
    <2>1. call'.out \in Seq(Detail') /\ call'.group \in Seq(Detail')
      BY <1>3, <1>10, <1>12 DEF Detail, SameWindow
    <2>2. Ordered(call.out)' /\ Ordered(call.group)'
      BY <1>3, <1>9, <1>12 DEF Ordered
    <2>3. \A i \in DOMAIN call'.out :
            InCall(call.out[i].row)' /\ call'.out[i].row.at < Limit' /\ Fresh(call.out[i])'
      BY <1>3, <1>5, <1>11, <1>12 DEF InCall, Fresh, SameWindow
    <2>4. \A r \in call'.queue : InCall(r)' /\ call'.pos <= r.at /\ r.at < call'.goal
      BY <1>1, <1>2, <1>3 DEF EmitInv, InCall, SameWindow
    <2>5. \A o \in RowsOf(call.out)', r \in call'.queue : Truncate(o.at) < Truncate(r.at)
      <3>1. \A o \in RowsOf(call.out), r \in call.queue : Truncate(o.at) < Truncate(r.at)
        BY <1>1, <1>2 DEF EmitInv
      <3>2. \A o \in RowsOf(call.group), r \in call.queue : Truncate(o.at) < Truncate(r.at)
        BY <1>1, GroupFacts
      <3> QED BY <1>3, <1>7, <1>12, <3>1, <3>2
    <2> QED BY <1>3, <1>10, <1>12, <2>1, <2>2, <2>3, <2>4, <2>5 DEF EmitInv
  <1>15. FlightInv'
    BY <1>1, <1>2, <1>3 DEF FlightInv, Fresh, Detail, SameWindow
  <1> QED BY <1>3, <1>5, <1>13, <1>14, <1>15 DEF GatewayInv

\* A call that emitted everything before a mark, and nothing from it on, may return it.
LEMMA ReturnSound ==
  ASSUME GatewayInv, call.stage = "emit", SameWindow, call'.stage = "returned", call'.out = call.out,
         NEW m \in Nat, call'.mark = m, Aligned(m), call.from < m, m <= call.goal,
         \A r \in RowsOf(call.out) : r.at < m,
         \A r \in RowsOf(call.group) \cup call.queue : m <= r.at
  PROVE  GatewaySound' /\ call'.mark \in Nat
  <1>1. WindowInv /\ PagerInv /\ StageInv /\ EmitInv /\ Rows /\ Limit = call.goal
    BY EmittingFacts DEF Limit
  <1>2. Out' = RowsOf(call.out)
    BY DEF Out, RowsOf
  <1>3. call'.from < call'.mark /\ call'.mark <= call'.to /\ call'.mark % Tenths = 0
    <2>1. call.goal <= call.to /\ call.goal \in Nat /\ call.to \in Nat
      BY <1>1 DEF WindowInv
    <2> QED BY <2>1 DEF SameWindow, Aligned
  <1>4. ASSUME NEW r \in logged, call.from <= r.at, r.at < m, r.at + r.delay <= call.began
        PROVE  r \in RowsOf(call.out)
    <2> DEFINE g == r.gateway
               h == Horizon(call.pagers[g], call)
    <2>1. g \in Gateways /\ r.at \in Nat
      BY <1>1, RowFacts
    <2>2. call.goal <= h /\ h \in Nat /\ call.goal \in Nat /\ call.goal <= call.to /\ call.to \in Nat
      <3>1. call.goal <= h
        BY <1>1, <2>1 DEF StageInv
      <3>2. call.pagers[g].last \in Nat
        BY <1>1, <2>1 DEF PagerInv, Pager
      <3>3. h \in Nat
        BY <1>1, <3>2, HorizonRange DEF WindowInv
      <3> QED BY <1>1, <3>1, <3>3 DEF WindowInv
    <2>3. r.at < h /\ r.at < call.to
      <3> HIDE DEF h
      <3> QED BY <1>4, <2>1, <2>2
    <2>4. r \in Known(g)
      BY <1>4, <2>3 DEF Known
    <2>5. r \in call.pagers[g].seen
      BY <1>1, <2>1, <2>3, <2>4, SeenBefore
    <2>6. r \notin call.pagers[g].pending
      <3>1. r.at < call.goal
        BY <1>4, <2>1, <2>2
      <3>2. \A x \in call.pagers[g].pending : call.goal <= x.at
        BY <1>1, <2>1 DEF StageInv
      <3> QED BY <2>1, <2>2, <3>1, <3>2
    <2>7. r \in RowsOf(call.out) \cup RowsOf(call.group) \cup call.queue
      BY <1>1, <2>1, <2>5, <2>6 DEF StageInv
    <2> QED BY <1>4, <2>1, <2>7
  <1>5. {r \in logged' : Due(r)' /\ r.at + r.delay <= call'.began} \subseteq Out'
    BY <1>2, <1>4 DEF Due, SameWindow
  <1>6. \A r \in Out' : Due(r)'
    <2>1. \A r \in RowsOf(call.out) : call.from <= r.at
      BY <1>1 DEF EmitInv, InCall, RowsOf
    <2> QED BY <1>2, <2>1 DEF Due, SameWindow
  <1>7. \A i, j \in DOMAIN call'.out : i < j => Earlier(call'.out[i].row, call'.out[j].row)
    BY <1>1 DEF EmitInv, Ordered
  <1>8. LogsExact'
    BY <1>3, <1>5, <1>6, <1>7 DEF LogsExact
  <1>9. DetailsFresh'
    BY <1>1 DEF DetailsFresh, EmitInv, Fresh, SameWindow
  <1> QED BY <1>8, <1>9 DEF GatewaySound

LEMMA CutOffStep ==
  ASSUME GatewayInv, CutOff
  PROVE  GatewayInv'
  <1> DEFINE second == Truncate(call.group[1].row.at)
  <1>1. PICK landed \in SUBSET {d \in call.flight : ~d.got} :
          retained' = From(Put(retained, (call.flight \ landed) \cup {Landed(d) : d \in landed}), second)
    BY DEF CutOff
  <1>2. /\ call.stage = "emit" /\ GroupEnds(call) /\ Overflows(call)
        /\ call' = [call EXCEPT !.stage = "returned", !.mark = second]
        /\ UNCHANGED <<logged, instant, logMark>>
    BY DEF CutOff
  <1>3. /\ BaseInv /\ WindowInv /\ EmitInv /\ FlightInv /\ DOMAIN call = CallFields
        /\ Rows /\ retained \in Seq(Retained)
    BY <1>2, EmittingFacts
  <1>4. /\ SameWindow /\ call'.stage = "returned" /\ call'.out = call.out /\ call'.mark = second
    <2> HIDE DEF second
    <2> QED BY <1>2, <1>3 DEF SameWindow, CallFields
  <1>5. retained' \in Seq(Retained)
    <2> DEFINE D == (call.flight \ landed) \cup {Landed(d) : d \in landed}
    <2>1. \A d \in call.flight : d \in Detail
      BY <1>2, <1>3 DEF FlightInv
    <2>2. \A d \in landed : Landed(d) \in Detail
      <3> TAKE d \in landed
      <3>1. d \in Detail /\ instant \in Nat
        BY <1>3, <2>1 DEF BaseInv
      <3> QED BY <3>1 DEF Landed, Detail, Missing
    <2>3. D \subseteq Detail
      BY <2>1, <2>2
    <2> HIDE DEF D
    <2>4. Put(retained, D) \in Seq(Retained)
      BY <1>3, <2>3, PutKeeps
    <2>5. retained' = From(Put(retained, D), second)
      BY <1>1 DEF D
    <2> HIDE DEF second
    <2> QED BY <2>4, <2>5, PickedKept
  <1>6. BaseInv'
    BY <1>3, <1>4, <1>5 DEF BaseInv, SameWindow, Aligned, Retained, Detail
  <1>7. /\ second \in Nat /\ Aligned(second)
        /\ \A r \in RowsOf(call.out) : r.at < second
        /\ \A r \in RowsOf(call.group) \cup call.queue : second <= r.at
    BY <1>2, GroupFacts
  <1>8. second <= call.goal
    <2>1. /\ second <= call.group[1].row.at /\ call.group[1].row.at \in Nat
          /\ call.group[1].row \in RowsOf(call.group)
      BY <1>2, GroupFacts
    <2>2. call.group[1].row.at < call.goal /\ call.goal \in Nat
      BY <1>2, <1>3, <2>1 DEF EmitInv, WindowInv
    <2> HIDE DEF second
    <2> QED BY <1>7, <2>1, <2>2
  <1>9. call.from < second
    <2>1. call.out # << >> /\ call.out \in Seq(Detail)
      BY <1>2, <1>3 DEF Overflows, EmitInv
    <2>2. 1 \in DOMAIN call.out
      BY <2>1
    <2>3. call.out[1].row \in RowsOf(call.out) /\ InCall(call.out[1].row)
      BY <1>3, <2>2 DEF EmitInv, RowsOf
    <2>4. call.from <= call.out[1].row.at /\ call.out[1].row.at \in Nat /\ call.from \in Nat
      BY <1>3, <2>3, RowFacts DEF InCall, WindowInv
    <2> HIDE DEF second
    <2> QED BY <1>7, <2>3, <2>4
  <1>10. GatewaySound' /\ call'.mark \in Nat
    <2> HIDE DEF second
    <2> QED BY <1>2, <1>4, <1>7, <1>8, <1>9, ReturnSound
  <1> QED BY <1>4, <1>6, <1>10 DEF GatewayInv

LEMMA ReachedStep ==
  ASSUME GatewayInv, Reached
  PROVE  GatewayInv'
  <1>1. /\ call.stage = "emit" /\ call.queue = {} /\ call.group = << >>
        /\ UNCHANGED <<logged, instant, logMark, retainedFrom>> /\ retained' = << >>
    BY DEF Reached
  <1>2. /\ BaseInv /\ WindowInv /\ PagerInv /\ StageInv /\ EmitInv /\ FlightInv /\ DOMAIN call = CallFields
        /\ Rows /\ call.pagers \in [Gateways -> Pager]
        /\ \A g \in Gateways : call.pagers[g].pending \subseteq call.pagers[g].seen
    BY <1>1, EmittingFacts
  <1>3. /\ Limit = call.goal /\ call.goal \in Nat /\ call.from \in Nat /\ call.pos \in Nat
        /\ call.from <= call.pos /\ call.pos < call.goal /\ call.goal <= call.to /\ Aligned(call.goal)
    BY <1>1, <1>2 DEF Limit, WindowInv
  <1>4. RowsOf(call.group) = {} /\ \A r \in RowsOf(call.out) : r.at < call.goal
    BY <1>1, <1>2, <1>3 DEF RowsOf, EmitInv
  <1>5. << >> \in Seq(Retained')
    OBVIOUS
  <1>6. CASE call.goal >= call.to \/ call.listed >= ListRowCap
    <2>1. call' = [call EXCEPT !.stage = "returned", !.mark = call.goal]
      BY <1>6 DEF Reached
    <2>2. /\ SameWindow /\ call'.stage = "returned" /\ call'.out = call.out /\ call'.mark = call.goal
      BY <1>1, <1>2, <2>1 DEF SameWindow, CallFields
    <2>3. BaseInv'
      BY <1>1, <1>2, <1>5, <2>2 DEF BaseInv, SameWindow, Aligned
    <2>4. call.from < call.goal /\ call.goal <= call.goal
      BY <1>3
    <2>5. GatewaySound' /\ call'.mark \in Nat
      BY <1>1, <1>3, <1>4, <2>2, <2>4, ReturnSound
    <2> QED BY <2>2, <2>3, <2>5 DEF GatewayInv
  <1>7. CASE ~(call.goal >= call.to \/ call.listed >= ListRowCap)
    <2>1. call' = [call EXCEPT !.stage = "list", !.pos = call.goal]
      BY <1>7 DEF Reached
    <2>2. /\ SameWindow /\ call'.stage = "list" /\ call'.out = call.out /\ call'.pos = call.goal
          /\ call'.goal = call.goal /\ call'.round = call.round /\ call'.pagers = call.pagers
          /\ call'.queue = {} /\ call'.group = << >> /\ call'.any = call.any
      BY <1>1, <1>2, <2>1 DEF SameWindow, CallFields
    <2>3. BaseInv'
      BY <1>1, <1>2, <1>5, <2>2 DEF BaseInv, SameWindow, Aligned
    <2>4. WindowInv'
      <3>1. call.goal < call.to /\ call.from <= call.goal
        BY <1>2, <1>3, <1>7 DEF WindowInv
      <3> QED BY <1>2, <1>3, <2>2, <3>1 DEF WindowInv, SameWindow, Aligned
    <2>5. PagerInv'
      <3>1. instant \in Nat /\ instant' = instant
        BY <1>2, <2>2 DEF BaseInv, SameWindow
      <3> QED BY <1>2, <2>2, <3>1, PagersKept DEF SameWindow
    <2>6. Limit' = Limit
      BY <1>3, <2>2 DEF Limit
    <2>7. StageInv'
      <3>1. \A g \in Gateways : Horizon(call'.pagers[g], call') = Horizon(call.pagers[g], call)
        BY <2>2 DEF Horizon, Clamped, SameWindow
      <3>2. RowsOf(call.out)' \cup RowsOf(call.group)' \cup call'.queue
            = RowsOf(call.out) \cup RowsOf(call.group) \cup call.queue
        BY <1>1, <2>2 DEF RowsOf
      <3> QED BY <1>2, <2>2, <2>6, <3>1, <3>2 DEF StageInv
    <2>8. EmitInv'
      <3>1. /\ call.out \in Seq(Detail) /\ Ordered(call.out) /\ (call.any => call.out # << >>)
            /\ \A i \in DOMAIN call.out : InCall(call.out[i].row) /\ call.out[i].row.at < Limit /\ Fresh(call.out[i])
        BY <1>2 DEF EmitInv
      <3>2. call'.out \in Seq(Detail') /\ call'.group \in Seq(Detail')
        BY <2>2, <3>1 DEF Detail, SameWindow
      <3>3. Ordered(call.out)' /\ Ordered(call.group)'
        BY <2>2, <3>1 DEF Ordered
      <3>4. \A i \in DOMAIN call'.out :
              InCall(call.out[i].row)' /\ call'.out[i].row.at < Limit' /\ Fresh(call.out[i])'
        BY <2>2, <2>6, <3>1 DEF InCall, Fresh, SameWindow
      <3> QED BY <2>2, <3>1, <3>2, <3>3, <3>4 DEF EmitInv
    <2>9. FlightInv'
      BY <2>2 DEF FlightInv
    <2> QED BY <2>2, <2>3, <2>4, <2>5, <2>7, <2>8, <2>9 DEF GatewayInv
  <1> QED BY <1>6, <1>7

\* A call that returns a mark has emitted each row before it that was listed
\* when the call began, once and in order, none after it, and no detail that is
\* out of date (CollectWindowBudget, horizon, takeBefore, emitSeconds, detailCache).
THEOREM GatewayAlwaysSound == GatewaySpec => []GatewaySound
<1>1. GatewayInit => GatewayInv
  BY InitInv
<1>2. GatewayInv /\ [GatewayNext]_gateway => GatewayInv'
  <2> SUFFICES ASSUME GatewayInv, [GatewayNext]_gateway
               PROVE  GatewayInv'
    OBVIOUS
  <2>1. ASSUME NEW to \in 1 .. MaxInstant, NEW budget \in Budgets, to % Tenths = 0, Begin(to, budget)
        PROVE  GatewayInv'
    BY <2>1, BeginStep
  <2>2. ASSUME Break PROVE GatewayInv'
    BY <2>2, BreakStep
  <2>3. ASSUME Decide PROVE GatewayInv'
    BY <2>3, DecideStep
  <2>4. ASSUME EmitSecond PROVE GatewayInv'
    BY <2>4, EmitSecondStep
  <2>5. ASSUME CutOff PROVE GatewayInv'
    BY <2>5, CutOffStep
  <2>6. ASSUME Reached PROVE GatewayInv'
    BY <2>6, ReachedStep
  <2>7. ASSUME Elapse PROVE GatewayInv'
    BY <2>7, ElapseStep
  <2>8. ASSUME NEW g \in Gateways, ListPage(g) PROVE GatewayInv'
    BY <2>8, ListPageStep
  <2>9. ASSUME call.stage = "emit", NEW d \in call.flight, Land(d) \/ ReadDetail(d) PROVE GatewayInv'
    BY <2>9, LandStep, ReadDetailStep
  <2>10. ASSUME NEW saved \in BOOLEAN, Accept(saved) PROVE GatewayInv'
    BY <2>10, AcceptStep
  <2>11. ASSUME UNCHANGED gateway PROVE GatewayInv'
    BY <2>11, ElapseStep
  <2> QED BY <2>1, <2>2, <2>3, <2>4, <2>5, <2>6, <2>7, <2>8, <2>9, <2>10, <2>11 DEF GatewayNext
<1>3. GatewayInv => GatewaySound
  BY DEF GatewayInv, GatewaySound, LogsExact, DetailsFresh, EmitInv, Fresh
<1> QED BY <1>1, <1>2, <1>3, PTL DEF GatewaySpec

-----------------------------------------------------------------------------
(* SettingsCache, for all numbers of queries and datasets and every backoff. *)

\* The read of a dataset is on the table from Lead to Close.
OnTable == \A c \in Callers :
  pc[c] \in {"reading", "answered", "stored", "failed"} => settingsPending[key[c]] = c

\* While the backoff of a denial lasts, the cache holds that denial.
Remembered == \A k \in Keys :
  barred[k] > 0 => k \in ZoneKeys /\ value[k] = "disabled" /\ left[k] = barred[k]

USE DEF query, entries, Goto, Forget

\* settingsFor and queryWithSettings: every step leaves the cache and the queries well typed.
THEOREM CacheTypeCorrect == Spec => []TypeOK
<1>1. Init => TypeOK
  BY DEF Init, TypeOK, Settings
<1>2. TypeOK /\ [Next]_vars => TypeOK'
  <2> SUFFICES ASSUME TypeOK, [Next]_vars PROVE TypeOK'
    OBVIOUS
  <2>1. ASSUME NEW c \in Callers, NEW k \in Keys, Call(c, k) PROVE TypeOK'
    BY <2>1 DEF TypeOK, Call, Settings
  <2>2. ASSUME NEW c \in Callers, NEW ttl \in TTLs \cup {Backoff}, Store(c, ttl)
        PROVE TypeOK'
    BY <2>2, CacheAssumption DEF TypeOK, Store, Settings
  <2>3. ASSUME NEW c \in Callers, Close(c) PROVE TypeOK'
    <3>1. pc' \in [Callers -> {"idle", "look", "waiting", "reading", "answered", "stored",
                               "failed", "query"}]
      BY <2>3 DEF TypeOK, Close
    <3>2. settingsPending' \in [Keys -> Callers \cup {None}]
      BY <2>3 DEF TypeOK, Close, Released
    <3>3. /\ key' \in [Callers -> Keys] /\ renegotiated' \in [Callers -> BOOLEAN]
          /\ answer' \in [Callers -> Settings]
      <4>1. CASE pc[c] = "stored"
        BY <2>3, <4>1 DEF TypeOK, Close
      <4>2. CASE pc[c] # "stored"
        BY <2>3, <4>2 DEF TypeOK, Close, Settings
      <4> QED BY <4>1, <4>2
    <3> QED BY <2>3, <3>1, <3>2, <3>3 DEF TypeOK, Close
  <2>4. ASSUME NEW c \in Callers, Hit(c) \/ Join(c) \/ Lead(c) PROVE TypeOK'
    BY <2>4 DEF TypeOK, Hit, Join, Lead
  <2>5. ASSUME NEW c \in Callers, Answered(c) \/ ReadFailed(c) \/ FieldDenied(c)
        PROVE TypeOK'
    BY <2>5 DEF TypeOK, Answered, ReadFailed, FieldDenied
  <2>6. ASSUME NEW c \in Callers, ContextEnds(c) \/ Finished(c) \/ FieldDeniedAgain(c)
        PROVE TypeOK'
    BY <2>6 DEF TypeOK, ContextEnds, Finished, FieldDeniedAgain, Settings
  <2>7. ASSUME NEW k \in Keys, Change(k) PROVE TypeOK'
    BY <2>7 DEF TypeOK, Change
  <2>8. CASE TimePasses
    <3>1. \A n \in Nat : Sooner(n) \in Nat
      BY DEF Sooner
    <3> QED BY <2>8, <3>1 DEF TypeOK, TimePasses
  <2>9. CASE UNCHANGED vars
    BY <2>9 DEF TypeOK, vars
  <2> QED BY <2>1, <2>2, <2>3, <2>4, <2>5, <2>6, <2>7, <2>8, <2>9 DEF Next, Step
<1> QED BY <1>1, <1>2, PTL DEF Spec

-----------------------------------------------------------------------------

\* One step keeps the reads on the table.
LEMMA TableKept == ASSUME TypeOK, OnTable, [Next]_vars PROVE OnTable'
<1>1. ASSUME NEW c \in Callers, NEW k \in Keys, Call(c, k) PROVE OnTable'
  BY <1>1 DEF TypeOK, OnTable, Call
<1>2. ASSUME NEW c \in Callers, NEW ttl \in TTLs \cup {Backoff}, Store(c, ttl)
      PROVE OnTable'
  BY <1>2 DEF TypeOK, OnTable, Store
<1>3. ASSUME NEW c \in Callers, Close(c) PROVE OnTable'
  <2> SUFFICES ASSUME NEW d \in Callers,
                      pc'[d] \in {"reading", "answered", "stored", "failed"}
               PROVE  settingsPending'[key[d]] = d
    BY <1>3 DEF OnTable, Close
  <2>1. d # c /\ pc[d] = pc'[d]
    BY <1>3 DEF TypeOK, Close
  <2>2. settingsPending[key[d]] = d /\ settingsPending[key[c]] = c
    BY <1>3, <2>1 DEF OnTable, Close
  <2>3. key[d] # key[c]
    BY <2>1, <2>2
  <2> QED BY <1>3, <2>2, <2>3 DEF TypeOK, Close, Released
<1>4. ASSUME NEW c \in Callers, Lead(c) PROVE OnTable'
  <2> SUFFICES ASSUME NEW d \in Callers,
                      pc'[d] \in {"reading", "answered", "stored", "failed"}
               PROVE  settingsPending'[key[d]] = d
    BY <1>4 DEF OnTable, Lead
  <2>1. CASE d = c
    BY <1>4, <2>1 DEF TypeOK, Lead
  <2>2. CASE d # c
    <3>1. settingsPending[key[d]] = d /\ settingsPending[key[c]] = None
      BY <1>4, <2>2 DEF TypeOK, OnTable, Lead, Quiet
    <3>2. key[d] # key[c]
      BY <3>1, CacheAssumption
    <3> QED BY <1>4, <3>1, <3>2 DEF TypeOK, Lead
  <2> QED BY <2>1, <2>2
<1>5. ASSUME NEW c \in Callers, Hit(c) \/ Join(c) \/ FieldDeniedAgain(c) PROVE OnTable'
  BY <1>5 DEF TypeOK, OnTable, Hit, Join, FieldDeniedAgain, Finished
<1>6. ASSUME NEW c \in Callers, Answered(c) \/ ReadFailed(c) \/ ContextEnds(c)
                                  \/ Finished(c) \/ FieldDenied(c)
      PROVE OnTable'
  BY <1>6 DEF TypeOK, OnTable, Answered, ReadFailed, ContextEnds, Finished, FieldDenied
<1>7. ASSUME NEW k \in Keys, Change(k) PROVE OnTable'
  BY <1>7 DEF OnTable, Change
<1>8. CASE TimePasses
  BY <1>8 DEF OnTable, TimePasses
<1>9. CASE UNCHANGED vars
  BY <1>9 DEF OnTable, vars
<1> QED BY <1>1, <1>2, <1>3, <1>4, <1>5, <1>6, <1>7, <1>8, <1>9 DEF Next, Step

\* settingsFor: concurrent queries of one dataset share a single read of its settings.
THEOREM Shared == Spec => []SingleRead
<1>1. Init => OnTable
  BY DEF Init, OnTable
<1>2. OnTable => SingleRead
  BY DEF OnTable, SingleRead
<1> QED BY <1>1, <1>2, CacheTypeCorrect, TableKept, PTL DEF Spec

-----------------------------------------------------------------------------

\* One step keeps the denial in the cache for as long as its backoff lasts.
LEMMA DenialKept == ASSUME TypeOK, Remembered, [Next]_vars PROVE Remembered'
<1>1. ASSUME UNCHANGED entries PROVE Remembered'
  BY <1>1 DEF Remembered
<1>2. ASSUME NEW c \in Callers, NEW ttl \in TTLs \cup {Backoff}, Store(c, ttl)
      PROVE Remembered'
  <2> SUFFICES ASSUME NEW k \in Keys, barred'[k] > 0
               PROVE  k \in ZoneKeys /\ value'[k] = "disabled" /\ left'[k] = barred'[k]
    BY DEF Remembered
  <2>1. CASE k = key[c]
    BY <1>2, <2>1 DEF TypeOK, Store, Lifetimes
  <2>2. CASE k # key[c]
    BY <1>2, <2>2 DEF TypeOK, Store, Remembered
  <2> QED BY <2>1, <2>2
<1>3. CASE TimePasses
  <2> SUFFICES ASSUME NEW k \in Keys, barred'[k] > 0
               PROVE  k \in ZoneKeys /\ value'[k] = "disabled" /\ left'[k] = barred'[k]
    BY DEF Remembered
  <2>1. barred'[k] = Sooner(barred[k]) /\ left'[k] = Sooner(left[k]) /\ value' = value
    BY <1>3 DEF TimePasses
  <2>2. barred[k] > 0
    BY <2>1 DEF TypeOK, Sooner
  <2> QED BY <2>1, <2>2 DEF Remembered
<1>4. CASE Next /\ ~TimePasses
  <2>1. ASSUME NEW c \in Callers, NEW k \in Keys, Call(c, k) PROVE Remembered'
    BY <1>1, <2>1 DEF Call
  <2>2. ASSUME NEW c \in Callers, Hit(c) \/ Join(c) \/ Lead(c) \/ Close(c)
                                  \/ FieldDeniedAgain(c)
        PROVE Remembered'
    BY <1>1, <2>2 DEF Hit, Join, Lead, Close, FieldDeniedAgain, Finished
  <2>3. ASSUME NEW c \in Callers, Answered(c) \/ ReadFailed(c) \/ ContextEnds(c)
                                  \/ Finished(c) \/ FieldDenied(c)
        PROVE Remembered'
    BY <1>1, <2>3 DEF Answered, ReadFailed, ContextEnds, Finished, FieldDenied
  <2>4. ASSUME NEW k \in Keys, Change(k) PROVE Remembered'
    BY <1>1, <2>4 DEF Change
  <2> QED BY <1>2, <1>4, <2>1, <2>2, <2>3, <2>4 DEF Next, Step
<1>5. CASE UNCHANGED vars
  BY <1>1, <1>5 DEF vars
<1> QED BY <1>3, <1>4, <1>5

\* The denial in the cache keeps a query, refreshing or not, from reading.
LEMMA NoReadWhileBarred ==
  ASSUME TypeOK, Remembered, [Next]_vars,
         NEW c \in Callers, pc[c] # "reading", pc'[c] = "reading"
  PROVE  barred[key[c]] = 0
<1>1. Lead(c)
  <2>1. ASSUME NEW d \in Callers, NEW k \in Keys, Call(d, k) PROVE FALSE
    BY <2>1 DEF Call, TypeOK
  <2>2. ASSUME NEW d \in Callers, NEW ttl \in TTLs \cup {Backoff}, Store(d, ttl) PROVE FALSE
    BY <2>2 DEF Store, TypeOK
  <2>3. ASSUME NEW d \in Callers, Close(d) PROVE FALSE
    BY <2>3 DEF Close, TypeOK
  <2>4. ASSUME NEW d \in Callers, Hit(d) \/ Join(d) \/ FieldDeniedAgain(d) PROVE FALSE
    BY <2>4 DEF Hit, Join, FieldDeniedAgain, Finished, TypeOK
  <2>5. ASSUME NEW d \in Callers, Answered(d) \/ ReadFailed(d) \/ ContextEnds(d)
                                  \/ Finished(d) \/ FieldDenied(d)
        PROVE FALSE
    BY <2>5 DEF Answered, ReadFailed, ContextEnds, Finished, FieldDenied, TypeOK
  <2>6. ASSUME (\E k \in Keys : Change(k)) \/ TimePasses \/ UNCHANGED vars PROVE FALSE
    BY <2>6 DEF Change, TimePasses, vars
  <2>7. ASSUME NEW d \in Callers, Lead(d) PROVE d = c
    BY <2>7 DEF Lead, TypeOK
  <2> QED BY <2>1, <2>2, <2>3, <2>4, <2>5, <2>6, <2>7 DEF Next, Step
<1>2. ~Usable(c)
  BY <1>1 DEF Lead
<1>3. barred[key[c]] \in Nat /\ key[c] \in Keys
  BY DEF TypeOK
<1>4. ASSUME barred[key[c]] > 0 PROVE FALSE
  BY <1>2, <1>3, <1>4 DEF Remembered, Usable, Denied
<1> QED BY <1>3, <1>4

\* settingsFor: no read of a zone dataset starts while the backoff of a denial lasts.
THEOREM DenialHonoured == Spec => BackoffHonoured
<1>1. Init => Remembered
  BY DEF Init, Remembered
<1>2. TypeOK /\ Remembered /\ [Next]_vars
      => [\A c \in Callers : pc[c] # "reading" /\ pc'[c] = "reading"
                             => barred[key[c]] = 0]_vars
  BY NoReadWhileBarred
<1> QED BY <1>1, <1>2, CacheTypeCorrect, DenialKept, PTL DEF Spec, BackoffHonoured
=============================================================================
