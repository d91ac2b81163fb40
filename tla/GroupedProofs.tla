---------------------------- MODULE GroupedProofs ----------------------------
(***************************************************************************)
(* The properties of GroupedCollectors, for every dataset, limit, clock    *)
(* and collector.  The argument goes through the promise of one window:    *)
(* either it refuses and leaves the cursor, or it ends where it was asked  *)
(* to and its points add up to the events that are due between the two     *)
(* cursors.  A query answers a span of the rows there are (GroupsAre), a   *)
(* bisected or sliced one too or it fails (BisectHolds, SlicedHolds), the  *)
(* lag has let every event of a whole bucket show up (AllLanded), and      *)
(* series, names and caps only regroup what the rows add up to (SumsSplit, *)
(* ClassRows).  Each collector keeps the promise in its own way            *)
(* (D1Promise to VitalsPromise), and consecutive windows join without gap  *)
(* or overlap (DueJoined).                                                 *)
(***************************************************************************)
EXTENDS GroupedCollectors, NumberProofs

-----------------------------------------------------------------------------
(* Sums of rows. *)

NOf(rows) == [r \in rows |-> r.n]
Tallied(rows) == IsFiniteSet(rows) /\ \A r \in rows : r.n \in Nat

LEMMA SumFacts ==
  ASSUME NEW rows, Tallied(rows)
  PROVE  /\ SumN(rows) \in Nat
         /\ Counts(rows, NOf(rows))
         /\ \A T \in SUBSET rows : /\ Tallied(T) /\ SumN(T) \in Nat /\ SumN(T) = Total(T, NOf(rows))
                                   /\ SumN(T) <= SumN(rows)
  <1>1. Counts(rows, NOf(rows)) /\ IsFiniteSet(rows)
    BY DEF Counts, NOf, Tallied
  <1>2. SumN(rows) = Total(rows, NOf(rows))
    BY DEF SumN, NOf
  <1>3. ASSUME NEW T \in SUBSET rows
        PROVE  /\ Tallied(T) /\ SumN(T) \in Nat /\ SumN(T) = Total(T, NOf(rows))
               /\ SumN(T) <= SumN(rows)
    <2>1. Tallied(T)
      BY FS_Subset DEF Tallied
    <2>2. Counts(T, NOf(T)) /\ \A x \in T : NOf(T)[x] = NOf(rows)[x]
      BY <2>1 DEF Counts, NOf, Tallied
    <2>3. Total(T, NOf(T)) = Total(T, NOf(rows))
      BY <2>1, <2>2, TotalSame DEF Tallied
    <2>4. SumN(T) = Total(T, NOf(T))
      BY DEF SumN, NOf
    <2>5. Total(T, NOf(rows)) \in Nat /\ Total(rows \ T, NOf(rows)) \in Nat
          /\ Total(rows, NOf(rows)) = Total(T, NOf(rows)) + Total(rows \ T, NOf(rows))
      BY <1>1, TotalPart
    <2> QED BY <1>2, <2>1, <2>3, <2>4, <2>5
  <1>4. SumN(rows) \in Nat
    BY <1>1, <1>2, TotalRemove
  <1> QED BY <1>1, <1>3, <1>4

\* The classes of a set by a function.
ClassBy(S, c) == [k \in {c[x] : x \in S} |-> {x \in S : c[x] = k}]

LEMMA ClassesBy ==
  ASSUME NEW S, IsFiniteSet(S), NEW c
  PROVE  /\ Classes(S, {c[x] : x \in S}, ClassBy(S, c))
         /\ \A k \in {c[x] : x \in S} : ClassBy(S, c)[k] = {x \in S : c[x] = k}
  <1> DEFINE K == {c[x] : x \in S}
             class == ClassBy(S, c)
  <1>1. IsFiniteSet(K)
    BY FiniteValues
  <1>2. \A k \in K : class[k] = {x \in S : c[x] = k}
    BY DEF ClassBy
  <1>3. \A x \in S : c[x] \in K
    OBVIOUS
  <1> HIDE DEF K, class
  <1>4. Classes(S, K, class)
    BY <1>1, <1>2, <1>3 DEF Classes
  <1> QED BY <1>2, <1>4 DEF K, class

\* One row for each class, with the sum of its rows, adds up to all of them.
LEMMA ClassRows ==
  ASSUME NEW S, Tallied(S), NEW K, NEW class, Classes(S, K, class), NEW h,
         \A j, k \in K : h[j] = h[k] => j = k,
         \A k \in K : h[k].n = SumN(class[k])
  PROVE  /\ Tallied({h[k] : k \in K}) /\ SumN({h[k] : k \in K}) = SumN(S)
  <1> DEFINE image == {h[k] : k \in K}
             f == NOf(S)
             v == NOf(image)
  <1>1. \A k \in K : h[k] \in image /\ v[h[k]] = h[k].n
    BY DEF NOf
  <1>2. \A k \in K : class[k] \in SUBSET S
    BY DEF Classes
  <1>3. \A k \in K : v[h[k]] = Total(class[k], f)
    <2> HIDE DEF v, f, image
    <2> TAKE k \in K
    <2>1. SumN(class[k]) = Total(class[k], NOf(S))
      BY <1>2, SumFacts
    <2> QED BY <1>1, <2>1 DEF f
  <1>4. Counts(S, f) /\ IsFiniteSet(S) /\ SumN(S) = Total(S, f)
    BY SumFacts DEF Tallied, SumN, NOf
  <1> HIDE DEF v, f
  <1>5. /\ IsFiniteSet({h[k] : k \in K}) /\ Counts({h[k] : k \in K}, v)
        /\ Total({h[k] : k \in K}, v) = Total(S, f)
    BY ONLY <1>3, <1>4, Classes(S, K, class), \A j, k \in K : h[j] = h[k] => j = k, TotalGrouped, SMTT(30)
  <1> HIDE DEF image
  <1>6. IsFiniteSet(image) /\ Counts(image, v) /\ Total(image, v) = Total(S, f)
    BY <1>5 DEF image
  <1>7. SumN(image) = Total(image, v)
    BY DEF SumN, NOf, v
  <1>8. \A r \in image : r.n \in Nat
    BY <1>6 DEF Counts, v, NOf
  <1> QED BY <1>4, <1>6, <1>7, <1>8 DEF Tallied, image

-----------------------------------------------------------------------------
(* The dataset. *)

Data == world \in Worlds /\ now \in Nat

LEMMA WorldFacts ==
  ASSUME Data
  PROVE  /\ Tallied(world) /\ Tallied(Visible) /\ Visible \in SUBSET world /\ Holdback \in Nat
         /\ \A r \in world : /\ r.at \in Nat /\ r.id \in Nat /\ r.n \in Nat /\ r.level \in Nat
                             /\ r.delay \in Nat /\ r.delay <= Holdback
  <1>1. /\ IsFiniteSet(world) /\ Holdback \in Nat
        /\ \A r \in world : /\ r.at \in Nat /\ r.id \in Nat /\ r.n \in Nat /\ r.level \in Nat
                            /\ r.delay \in 0 .. Holdback
    BY WorldAssumption, LimitAssumption DEF Data
  <1>2. Visible \in SUBSET world
    BY DEF Visible
  <1>3. Tallied(world)
    BY <1>1 DEF Tallied
  <1> QED BY <1>1, <1>2, <1>3, SumFacts

\* The two ways of grouping.
LEMMA KeyFacts ==
  ASSUME Data, NEW key \in {ById, ByNone}
  PROVE  \A r \in world : key[r.id] \in Nat
  BY WorldFacts DEF ById, ByNone, Ids, Blank

LEMMA KeyedFacts ==
  ASSUME NEW wanted
  PROVE  Keyed(wanted) \in {ById, ByNone}
  BY DEF Keyed

Bin(r, key) == <<FloorBucket(r.at), key[r.id]>>
Of(k, key) == {r \in Visible : Bin(r, key) = k}
RowOf(k, key) == [at |-> k[1], id |-> k[2], n |-> SumN(Of(k, key)), level |-> TopLevel(Of(k, key)),
                  valid |-> TRUE]
AllRows(key) == {RowOf(k, key) : k \in {Bin(r, key) : r \in Visible}}
Span(rows, a, b) == {g \in rows : a <= g.at /\ g.at < b}

\* What a query answers is a span of all the rows there are.
LEMMA GroupsAre ==
  ASSUME NEW a, NEW b, NEW key
  PROVE  Groups(a, b, key) = Span(AllRows(key), a, b)
  <1> DEFINE within == {r \in Visible : a <= FloorBucket(r.at) /\ FloorBucket(r.at) < b}
             group(k) == {r \in within : <<FloorBucket(r.at), key[r.id]>> = k}
             row(k) == [at |-> k[1], id |-> k[2], n |-> SumN(group(k)), level |-> TopLevel(group(k)),
                        valid |-> TRUE]
             keys == {<<FloorBucket(r.at), key[r.id]>> : r \in within}
  <1>1. Groups(a, b, key) = {row(k) : k \in keys}
    BY DEF Groups
  <1>2. ASSUME NEW k \in keys PROVE row(k) = RowOf(k, key) /\ a <= k[1] /\ k[1] < b /\ k \in {Bin(r, key) : r \in Visible}
    <2>1. PICK r \in within : k = <<FloorBucket(r.at), key[r.id]>>
      OBVIOUS
    <2>2. group(k) = Of(k, key)
      BY <2>1 DEF Of, Bin
    <2>3. row(k) = RowOf(k, key)
      <3> HIDE DEF group
      <3> QED BY <2>2 DEF RowOf
    <2> QED BY <2>1, <2>3 DEF Bin
  <1>3. ASSUME NEW k \in {Bin(r, key) : r \in Visible}, a <= k[1], k[1] < b PROVE k \in keys
    BY <1>3 DEF Bin
  <1>4. \A k : RowOf(k, key).at = k[1]
    BY DEF RowOf
  <1> HIDE DEF row, keys
  <1> QED BY <1>1, <1>2, <1>3, <1>4 DEF Span, AllRows

\* The rows of all the events that have shown up.
LEMMA RowFacts ==
  ASSUME Data, NEW key \in {ById, ByNone}
  PROVE  /\ \A g \in AllRows(key) :
              /\ g.at \in Nat /\ Aligned(g.at) /\ g.id \in Nat /\ g.valid
              /\ \E r \in Visible : Bin(r, key) = <<g.at, g.id>> /\ g.level = r.level
         /\ \A r \in Visible : \E g \in AllRows(key) : Bin(r, key) = <<g.at, g.id>>
         /\ \A g, h \in AllRows(key) : g.at = h.at /\ g.id = h.id => g = h
  <1>1. ASSUME NEW r \in Visible
        PROVE  /\ Bin(r, key)[1] \in Nat /\ Aligned(Bin(r, key)[1]) /\ Bin(r, key)[2] \in Nat
               /\ Bin(r, key) = <<Bin(r, key)[1], Bin(r, key)[2]>>
    <2>1. r.at \in Nat /\ key[r.id] \in Nat
      BY WorldFacts, KeyFacts
    <2>2. FloorBucket(r.at) \in Nat /\ Aligned(FloorBucket(r.at))
      BY <2>1, BucketFacts
    <2> QED BY <2>1, <2>2 DEF Bin
  <1>2. ASSUME NEW k \in {Bin(r, key) : r \in Visible}
        PROVE  /\ RowOf(k, key).at = k[1] /\ RowOf(k, key).id = k[2] /\ RowOf(k, key).valid
               /\ \E r \in Of(k, key) : RowOf(k, key).level = r.level
    <2> DEFINE rows == Of(k, key)
               levels == {r.level : r \in rows}
    <2>1. rows # {} /\ rows \in SUBSET Visible
      BY DEF Of
    <2>2. levels # {} /\ levels \in SUBSET Nat
      BY <2>1, WorldFacts
    <2>3. IsFiniteSet(levels)
      <3> DEFINE level == [r \in rows |-> r.level]
      <3>1. IsFiniteSet(rows)
        BY <2>1, WorldFacts, FS_Subset DEF Tallied
      <3>2. levels = {level[r] : r \in rows}
        OBVIOUS
      <3> HIDE DEF level, rows, levels
      <3> QED BY <3>1, <3>2, FiniteValues
    <2>4. Max(levels) \in levels
      <3> HIDE DEF levels
      <3>1. \E x \in levels : \A y \in levels : y <= x
        BY <2>2, <2>3, GreatestNumber
      <3> QED BY <2>2, <3>1, GreatestFloor
    <2>5. RowOf(k, key).level = Max(levels)
      BY DEF RowOf, TopLevel
    <2> QED BY <2>4, <2>5 DEF RowOf
  <1>3. ASSUME NEW g \in AllRows(key)
        PROVE  \E k \in {Bin(r, key) : r \in Visible} : g = RowOf(k, key) /\ k = <<g.at, g.id>>
    BY <1>1, <1>2 DEF AllRows
  <1>4. ASSUME NEW g \in AllRows(key)
        PROVE  /\ g.at \in Nat /\ Aligned(g.at) /\ g.id \in Nat /\ g.valid
               /\ \E r \in Visible : Bin(r, key) = <<g.at, g.id>> /\ g.level = r.level
    <2>1. PICK k \in {Bin(r, key) : r \in Visible} : g = RowOf(k, key) /\ k = <<g.at, g.id>>
      BY <1>3
    <2>2. g.valid /\ \E r \in Of(k, key) : g.level = r.level
      BY <1>2, <2>1
    <2>3. g.at \in Nat /\ Aligned(g.at) /\ g.id \in Nat
      BY <1>1, <2>1
    <2> QED BY <2>1, <2>2, <2>3 DEF Of
  <1>5. ASSUME NEW r \in Visible PROVE \E g \in AllRows(key) : Bin(r, key) = <<g.at, g.id>>
    BY <1>1, <1>2 DEF AllRows
  <1>6. ASSUME NEW g \in AllRows(key), NEW h \in AllRows(key), g.at = h.at, g.id = h.id PROVE g = h
    BY <1>3, <1>6
  <1> QED BY <1>4, <1>5, <1>6

Landed(a, b) == {r \in Visible : a <= FloorBucket(r.at) /\ FloorBucket(r.at) < b}

\* Grouped or not, the rows of a span add up to what has landed in it.
LEMMA SpanSum ==
  ASSUME Data, NEW key \in {ById, ByNone}, NEW a, NEW b
  PROVE  /\ Tallied(Span(AllRows(key), a, b))
         /\ SumN(Span(AllRows(key), a, b)) = SumN(Landed(a, b))
         /\ Cardinality(Span(AllRows(key), a, b)) <= Cardinality(world)
  <1> DEFINE S == Landed(a, b)
             c == [r \in S |-> Bin(r, key)]
             K == {c[r] : r \in S}
             h == [k \in K |-> RowOf(k, key)]
             class == ClassBy(S, c)
             rows == {h[k] : k \in K}
  <1>1. Tallied(S) /\ S \in SUBSET world
    <2>1. S \in SUBSET Visible
      BY DEF Landed
    <2> HIDE DEF S
    <2> QED BY <2>1, WorldFacts, SumFacts
  <1>2. \A r \in S : c[r] = Bin(r, key) /\ a <= Bin(r, key)[1] /\ Bin(r, key)[1] < b
    BY DEF Landed, Bin
  <1>3. \A k \in K : h[k] = RowOf(k, key) /\ RowOf(k, key).at = k[1] /\ RowOf(k, key).id = k[2]
    BY DEF RowOf
  <1>4. rows = Span(AllRows(key), a, b)
    <2>1. \A r \in Visible : a <= Bin(r, key)[1] /\ Bin(r, key)[1] < b => r \in S
      BY DEF Landed, Bin
    <2>2. S \in SUBSET Visible
      BY DEF Landed
    <2>3. \A k : RowOf(k, key).at = k[1]
      BY DEF RowOf
    <2>4. ASSUME NEW r \in Visible, a <= Bin(r, key)[1], Bin(r, key)[1] < b PROVE Bin(r, key) \in K
      BY <1>2, <2>1, <2>4
    <2>5. \A k \in K : \E r \in Visible : k = Bin(r, key) /\ a <= Bin(r, key)[1] /\ Bin(r, key)[1] < b
      BY <1>2, <2>2
    <2> HIDE DEF S, c, K
    <2> QED BY <2>3, <2>4, <2>5 DEF Span, AllRows
  <1>5. \A j, k \in K : h[j] = h[k] => j = k
    <2>1. \A k \in K : k = <<k[1], k[2]>>
      BY <1>2 DEF Bin
    <2> QED BY <1>3, <2>1, ZenonT(60)
  <1>6. Classes(S, K, class) /\ \A k \in K : class[k] = {r \in S : c[r] = k}
    <2> HIDE DEF S, c
    <2> QED BY <1>1, ClassesBy DEF Tallied
  <1>7. ASSUME NEW k \in K PROVE h[k].n = SumN(class[k])
    <2>1. {r \in S : c[r] = k} = Of(k, key)
      <3>1. \A r \in Visible : Bin(r, key) = k => r \in S
        BY <1>2 DEF Landed, Bin
      <3>2. S \in SUBSET Visible
        BY DEF Landed
      <3> QED BY <1>2, <3>1, <3>2 DEF Of
    <2>2. class[k] = Of(k, key)
      BY <1>6, <2>1
    <2>3. h[k].n = SumN(Of(k, key))
      BY <1>3 DEF RowOf
    <2> QED BY <2>2, <2>3
  <1>8. IsFiniteSet(K) /\ Cardinality(K) <= Cardinality(S) /\ Cardinality(rows) <= Cardinality(K)
    <2>1. IsFiniteSet(K) /\ Cardinality(K) <= Cardinality(S)
      <3> HIDE DEF S, c
      <3> QED BY <1>1, FiniteValues DEF Tallied
    <2> HIDE DEF K, h
    <2> QED BY <2>1, FiniteValues
  <1> HIDE DEF S, c, K, h, class
  <1>9. Tallied(rows) /\ SumN(rows) = SumN(S)
    BY <1>1, <1>5, <1>6, <1>7, ClassRows
  <1>10. Cardinality(rows) <= Cardinality(world)
    <2>1. IsFiniteSet(world) /\ Cardinality(S) <= Cardinality(world)
      BY <1>1, WorldFacts, FS_Subset DEF Tallied
    <2>2. /\ Cardinality(world) \in Nat /\ Cardinality(S) \in Nat /\ Cardinality(K) \in Nat
          /\ Cardinality(rows) \in Nat
      <3> HIDE DEF rows
      <3> QED BY <1>1, <1>8, <1>9, <2>1, FS_CardinalityType DEF Tallied
    <2> QED BY <1>8, <2>1, <2>2
  <1> HIDE DEF rows
  <1> QED BY <1>4, <1>9, <1>10 DEF S

-----------------------------------------------------------------------------
(* Answers: the rows of a span, and what else there may be in one.           *)

Odd(lo, hi, q) == Oddities(lo, hi, lo, hi, q)
Wrong(lo, hi, q) == {g \in Odd(lo, hi, q) : ~g.valid}

Holds(answer, full, odd, a, b) ==
  answer.ok => /\ Span(full, a, b) \subseteq answer.rows
               /\ answer.rows \subseteq Span(full, a, b) \cup odd

LEMMA OddFacts ==
  ASSUME NEW lo \in Nat, NEW hi \in Nat, NEW q
  PROVE  /\ \A g \in Odd(lo, hi, q) :
              /\ g.n \in Nat /\ g.level \in Nat /\ g.id = Blank /\ g.at \in Nat
              /\ g.at = hi \/ (g.at = lo /\ ~g.valid)
         /\ IsFiniteSet(Odd(lo, hi, q))
         /\ \A a, b : Oddities(a, b, lo, hi, q) \subseteq Odd(lo, hi, q)
         /\ ~q.stray /\ ~q.bad => Odd(lo, hi, q) = {}
  <1> DEFINE stray == [at |-> hi, id |-> Blank, n |-> 1, level |-> 9, valid |-> TRUE]
             bad == [at |-> lo, id |-> Blank, n |-> 0, level |-> 0, valid |-> FALSE]
  <1>1. Odd(lo, hi, q) = (IF q.stray THEN {stray} ELSE {}) \cup (IF q.bad THEN {bad} ELSE {})
    BY DEF Odd, Oddities
  <1>2. Odd(lo, hi, q) \in SUBSET {stray, bad}
    BY <1>1
  <1>3. IsFiniteSet({stray, bad})
    <2> HIDE DEF stray, bad
    <2>1. IsFiniteSet({stray}) /\ IsFiniteSet({bad}) /\ {stray, bad} = {stray} \cup {bad}
      BY FS_Singleton
    <2>2. IsFiniteSet({stray} \cup {bad})
      BY <2>1, FS_Union
    <2> QED BY <2>1, <2>2
  <1>4. IsFiniteSet(Odd(lo, hi, q))
    BY <1>2, <1>3, FS_Subset
  <1>5. \A a, b : Oddities(a, b, lo, hi, q) \subseteq Odd(lo, hi, q)
    BY <1>1 DEF Oddities
  <1>6. \A g \in {stray, bad} :
              /\ g.n \in Nat /\ g.level \in Nat /\ g.id = Blank /\ g.at \in Nat
              /\ g.at = hi \/ (g.at = lo /\ ~g.valid)
    OBVIOUS
  <1>7. ~q.stray /\ ~q.bad => Odd(lo, hi, q) = {}
    BY <1>1
  <1> HIDE DEF stray, bad
  <1> QED BY <1>2, <1>4, <1>5, <1>6, <1>7

\* The answers to one query.
LEMMA PagedHolds ==
  ASSUME NEW lo \in Nat, NEW hi \in Nat, NEW q, NEW key, NEW a, NEW b, NEW page
  PROVE  Holds(Paged(Answer(a, b, lo, hi, q, key), page), AllRows(key), Odd(lo, hi, q), a, b)
  <1>1. Oddities(a, b, lo, hi, q) \subseteq Odd(lo, hi, q)
    BY OddFacts
  <1>2. Answer(a, b, lo, hi, q, key) = Span(AllRows(key), a, b) \cup Oddities(a, b, lo, hi, q)
    BY GroupsAre DEF Answer
  <1> QED BY <1>1, <1>2 DEF Holds, Paged, Rows, Saturated

LEMMA StrictHolds ==
  ASSUME NEW lo \in Nat, NEW hi \in Nat, NEW q, NEW key, NEW a, NEW b \in Nat, b <= hi, NEW page
  PROVE  Holds(Strict(Answer(a, b, lo, hi, q, key), a, b, page), AllRows(key), Wrong(lo, hi, q), a, b)
  <1> DEFINE rows == Answer(a, b, lo, hi, q, key)
  <1>1. /\ Oddities(a, b, lo, hi, q) \subseteq Odd(lo, hi, q)
        /\ \A g \in Odd(lo, hi, q) : g.at \in Nat /\ (g.at = hi \/ ~g.valid)
    BY OddFacts
  <1>2. rows = Span(AllRows(key), a, b) \cup Oddities(a, b, lo, hi, q)
    BY GroupsAre DEF Answer
  <1>3. Bucket \in Nat \ {0}
    BY BucketAssumption
  <1>4. \A g \in Odd(lo, hi, q) : CompleteBucket(g.at, a, b) => ~g.valid
    BY <1>1, <1>3 DEF CompleteBucket
  <1> HIDE DEF rows
  <1>5. CASE Cardinality(rows) >= page
    <2>1. Strict(rows, a, b, page) = Saturated
      BY <1>5 DEF Strict
    <2> QED BY <2>1 DEF Saturated, Holds, rows
  <1>6. CASE ~(Cardinality(rows) >= page) /\ \A r \in rows : CompleteBucket(r.at, a, b)
    <2>1. rows \subseteq Span(AllRows(key), a, b) \cup Wrong(lo, hi, q)
      BY <1>1, <1>2, <1>4, <1>6 DEF Wrong
    <2>2. Strict(rows, a, b, page) = Rows(rows)
      BY <1>6 DEF Strict
    <2> QED BY <1>2, <2>1, <2>2 DEF Holds, Rows, rows
  <1>7. CASE ~(Cardinality(rows) >= page) /\ ~ \A r \in rows : CompleteBucket(r.at, a, b)
    <2>1. Strict(rows, a, b, page) = QueryFailed
      BY <1>7 DEF Strict
    <2> QED BY <2>1 DEF QueryFailed, Holds, rows
  <1> QED BY <1>5, <1>6, <1>7

LEMMA BisectHolds ==
  ASSUME NEW full, \A g \in full : g.at \in Nat, NEW odd, NEW from \in Nat, NEW to \in Nat, from <= to,
         NEW step \in Nat \ {0}, NEW minimum \in Nat, NEW query,
         \A w \in Parts(from, to) : Holds(query[w], full, odd, w[1], w[2])
  PROVE  Holds(Bisect(from, to, step, minimum, query), full, odd, from, to)
  <1>1. PICK f : /\ Bisect(from, to, step, minimum, query) = f[<<from, to>>]
                 /\ \A w \in Parts(from, to) : f[w] = Value(f, w, step, minimum, query)
    BY BisectSolved
  <1>2. ASSUME NEW w \in Parts(from, to),
               \A v \in Parts(from, to) : Width(v) < Width(w) => Holds(f[v], full, odd, v[1], v[2])
        PROVE  Holds(f[w], full, odd, w[1], w[2])
    <2> DEFINE mid == SplitWindow(w[1], w[2], step, minimum)
               left == f[<<w[1], mid>>]
               right == f[<<mid, w[2]>>]
    <2>1. f[w] = IF ~query[w].saturated THEN query[w]
                 ELSE IF mid = None THEN QueryFailed
                 ELSE IF ~left.ok THEN left
                 ELSE IF ~right.ok THEN right
                 ELSE Rows(left.rows \cup right.rows)
      BY <1>1 DEF Value
    <2>2. CASE mid = None
      BY <2>1, <2>2 DEF Holds, QueryFailed
    <2>3. CASE mid # None
      <3>1. /\ mid \in Nat /\ w[1] < mid /\ mid < w[2] /\ w[1] \in Nat /\ w[2] \in Nat
            /\ <<w[1], mid>> \in Parts(from, to) /\ Width(<<w[1], mid>>) < Width(w)
            /\ <<mid, w[2]>> \in Parts(from, to) /\ Width(<<mid, w[2]>>) < Width(w)
        BY <2>3, Halves
      <3> HIDE DEF mid
      <3>2. Holds(left, full, odd, w[1], mid) /\ Holds(right, full, odd, mid, w[2])
        <4> DEFINE u == <<w[1], mid>>
                   v == <<mid, w[2]>>
        <4>1. u[1] = w[1] /\ u[2] = mid /\ v[1] = mid /\ v[2] = w[2]
          OBVIOUS
        <4>2. u \in Parts(from, to) /\ v \in Parts(from, to) /\ Width(u) < Width(w) /\ Width(v) < Width(w)
          BY <3>1
        <4>3. left = f[u] /\ right = f[v]
          OBVIOUS
        <4> HIDE DEF u, v, left, right
        <4> QED BY <1>2, <4>1, <4>2, <4>3
      <3>3. Span(full, w[1], w[2]) = Span(full, w[1], mid) \cup Span(full, mid, w[2])
        BY <3>1 DEF Span
      <3> HIDE DEF left, right
      <3>4. left.ok /\ right.ok => Holds(Rows(left.rows \cup right.rows), full, odd, w[1], w[2])
        BY <3>2, <3>3 DEF Holds, Rows
      <3>5. /\ ~left.ok => Holds(left, full, odd, w[1], w[2])
            /\ ~right.ok => Holds(right, full, odd, w[1], w[2])
        BY DEF Holds
      <3> QED BY <2>1, <2>3, <3>4, <3>5
    <2> QED BY <2>2, <2>3
  <1> DEFINE Bad == {n \in Nat : \E w \in Parts(from, to) : Width(w) = n /\ ~Holds(f[w], full, odd, w[1], w[2])}
  <1>3. Bad = {}
    <2> SUFFICES ASSUME Bad # {} PROVE FALSE
      OBVIOUS
    <2>1. PICK n \in Bad : \A m \in Bad : n <= m
      <3>1. Bad \in SUBSET Nat
        OBVIOUS
      <3> HIDE DEF Bad
      <3> QED BY <3>1, LeastNumber
    <2>2. PICK w \in Parts(from, to) : Width(w) = n /\ ~Holds(f[w], full, odd, w[1], w[2])
      OBVIOUS
    <2>3. ASSUME NEW v \in Parts(from, to), Width(v) < Width(w) PROVE Holds(f[v], full, odd, v[1], v[2])
      <3>1. Width(v) \in Nat
        BY DEF Parts, Width
      <3> QED BY <2>1, <2>2, <2>3, <3>1
    <2> QED BY <1>2, <2>2, <2>3
  <1>4. <<from, to>> \in Parts(from, to) /\ Width(<<from, to>>) \in Nat
    BY DEF Parts, Width
  <1> QED BY <1>1, <1>3, <1>4

LEMMA SlicedHolds ==
  ASSUME NEW full, \A g \in full : g.at \in Nat, NEW odd, NEW from \in Nat, NEW to \in Nat,
         NEW span \in Nat \ {0}, NEW query,
         \A w \in Parts(from, to) : w[1] < w[2] => Holds(query[w], full, odd, w[1], w[2])
  PROVE  Holds(Sliced(from, to, span, query), full, odd, from, to)
  <1> DEFINE starts == {a \in from .. to - 1 : (a - from) % span = 0}
             end(a) == Least(a + span, to)
             rows == UNION {query[<<a, end(a)>>].rows : a \in starts}
  <1>1. \A a \in starts : /\ a \in Nat /\ from <= a /\ a < to /\ end(a) \in Nat
                          /\ a < end(a) /\ end(a) <= to /\ (end(a) = a + span \/ end(a) = to)
                          /\ <<a, end(a)>> \in Parts(from, to)
    BY DEF Least, Parts
  <1>2. ASSUME \A a \in starts : query[<<a, end(a)>>].ok
        PROVE  Span(full, from, to) \subseteq rows /\ rows \subseteq Span(full, from, to) \cup odd
    <2>1. \A a \in starts : /\ Span(full, a, end(a)) \subseteq query[<<a, end(a)>>].rows
                            /\ query[<<a, end(a)>>].rows \subseteq Span(full, a, end(a)) \cup odd
      <3> HIDE DEF starts, end
      <3>1. ASSUME NEW a \in starts PROVE Holds(query[<<a, end(a)>>], full, odd, a, end(a))
        <4> DEFINE w == <<a, end(a)>>
        <4>1. w \in Parts(from, to) /\ w[1] = a /\ w[2] = end(a) /\ w[1] < w[2]
          BY <1>1
        <4>2. query[<<a, end(a)>>] = query[w]
          OBVIOUS
        <4> HIDE DEF w
        <4> QED BY <4>1, <4>2
      <3> QED BY <1>2, <3>1 DEF Holds
    <2>2. ASSUME NEW r \in rows PROVE r \in Span(full, from, to) \cup odd
      <3>1. PICK a \in starts : r \in query[<<a, end(a)>>].rows
        BY <2>2
      <3>2. CASE r \in Span(full, a, end(a))
        <4>1. r \in full /\ a <= r.at /\ r.at < end(a) /\ r.at \in Nat
          BY <3>2 DEF Span
        <4> HIDE DEF starts, end
        <4>2. from <= r.at /\ r.at < to
          BY <1>1, <3>1, <4>1
        <4> QED BY <4>1, <4>2 DEF Span
      <3> HIDE DEF starts, end
      <3> QED BY <2>1, <3>1, <3>2
    <2>3. ASSUME NEW r \in Span(full, from, to) PROVE r \in rows
      <3>1. r \in full /\ from <= r.at /\ r.at < to /\ r.at \in Nat
        BY DEF Span
      <3> DEFINE d == r.at - from
                 low == d - (d % span)
                 a == from + low
      <3>2. d \in Nat
        BY <3>1
      <3>3. low \in Nat /\ low <= d /\ d < low + span /\ low % span = 0
        <4> HIDE DEF d
        <4> QED BY <3>2, Rounded
      <3>4. a \in from .. to - 1 /\ a <= r.at /\ r.at < a + span /\ a - from = low /\ a \in Nat
        <4>1. d = r.at - from
          OBVIOUS
        <4> HIDE DEF low, d
        <4> QED BY <3>1, <3>2, <3>3, <4>1
      <3> HIDE DEF low, d, a
      <3>5. a \in starts
        BY <3>3, <3>4
      <3>6. r.at < end(a)
        BY <1>1, <3>1, <3>4, <3>5
      <3>7. r \in query[<<a, end(a)>>].rows
        BY <2>1, <3>1, <3>4, <3>5, <3>6 DEF Span
      <3> HIDE DEF starts, end
      <3> QED BY <3>5, <3>7
    <2> QED BY <2>2, <2>3
  <1>3. Sliced(from, to, span, query) =
          IF \A a \in starts : query[<<a, end(a)>>].ok THEN Rows(rows) ELSE QueryFailed
    BY DEF Sliced
  <1> HIDE DEF starts, end, rows
  <1> QED BY <1>2, <1>3 DEF Holds, Rows, QueryFailed

-----------------------------------------------------------------------------
(* A window and the whole buckets in it.                                     *)

Ready(from, to, q) ==
  /\ Data /\ from \in Nat /\ to \in Nat /\ from < to /\ to + Holdback <= now
  /\ q \in Requests
  /\ admitted \in SUBSET Nat /\ IsFiniteSet(admitted) /\ Cardinality(admitted) <= MaxNames

Delivered(from, hi) == {r \in world : CompleteBucket(FloorBucket(r.at), from, hi)}

LEMMA Bounds ==
  ASSUME NEW from, NEW to, NEW q, Ready(from, to, q), ~Empty(from, to)
  PROVE  /\ Lo(from) \in Nat /\ Hi(to) \in Nat /\ Aligned(Lo(from)) /\ Aligned(Hi(to))
         /\ from <= Lo(from) /\ Lo(from) < from + Bucket /\ Lo(from) + Bucket <= Hi(to) /\ Hi(to) <= to
         /\ Lo(from) < Hi(to) /\ from < Hi(to) /\ Hi(to) + Holdback <= now
         /\ \A t \in Nat : Aligned(t) => /\ CompleteBucket(t, from, Hi(to)) <=> Lo(from) <= t /\ t < Hi(to)
                                         /\ CompleteBucket(t, Lo(from), Hi(to)) <=> Lo(from) <= t /\ t < Hi(to)
  <1> DEFINE lo == Lo(from)
             hi == Hi(to)
  <1>1. from \in Nat /\ to \in Nat /\ now \in Nat /\ Holdback \in Nat /\ Bucket \in Nat \ {0} /\ to + Holdback <= now
    BY LimitAssumption, BucketAssumption DEF Ready, Data
  <1>2. lo \in Nat /\ Aligned(lo) /\ from <= lo /\ lo < from + Bucket
        /\ \A r \in Nat : from <= FloorBucket(r) <=> lo <= r
    BY <1>1, CeilFacts DEF Lo
  <1>3. hi \in Nat /\ Aligned(hi) /\ hi <= to
    BY <1>1, BucketFacts DEF Hi
  <1>4. lo < hi
    BY <1>1, <1>2, <1>3 DEF Empty
  <1> HIDE DEF lo, hi
  <1>5. lo + Bucket <= hi
    <2>1. FloorBucket(lo) = lo
      BY <1>2, BucketFacts
    <2> QED BY <1>2, <1>3, <1>4, <2>1, BucketOrder
  <1>6. ASSUME NEW t \in Nat, Aligned(t)
        PROVE  /\ CompleteBucket(t, from, hi) <=> lo <= t /\ t < hi
               /\ CompleteBucket(t, lo, hi) <=> lo <= t /\ t < hi
    <2>1. FloorBucket(t) = t
      BY <1>6, BucketFacts
    <2>2. from <= t <=> lo <= t
      BY <1>2, <2>1
    <2>3. t < hi => t + Bucket <= hi
      BY <1>3, <2>1, BucketOrder
    <2>4. t + Bucket <= hi <=> t < hi
      BY <1>1, <1>3, <2>3
    <2> QED BY <2>2, <2>4 DEF CompleteBucket
  <1> QED BY <1>1, <1>2, <1>3, <1>4, <1>5, <1>6 DEF lo, hi

\* All that has happened in the whole buckets of a window has shown up.
LEMMA AllLanded ==
  ASSUME NEW from, NEW to, NEW q, Ready(from, to, q), ~Empty(from, to)
  PROVE  Landed(Lo(from), Hi(to)) = Delivered(from, Hi(to))
  <1> DEFINE lo == Lo(from)
             hi == Hi(to)
  <1>1. /\ lo \in Nat /\ hi \in Nat /\ hi + Holdback <= now /\ now \in Nat
        /\ \A t \in Nat : Aligned(t) => (CompleteBucket(t, from, hi) <=> lo <= t /\ t < hi)
    BY Bounds DEF Ready, Data
  <1>2. Bucket \in Nat \ {0}
    BY BucketAssumption
  <1> HIDE DEF lo, hi
  <1>3. ASSUME NEW r \in world
        PROVE  /\ CompleteBucket(FloorBucket(r.at), from, hi) => r \in Visible
               /\ CompleteBucket(FloorBucket(r.at), from, hi) <=> lo <= FloorBucket(r.at) /\ FloorBucket(r.at) < hi
    <2>1. r.at \in Nat /\ r.delay \in Nat /\ r.delay <= Holdback /\ Holdback \in Nat
      BY WorldFacts DEF Ready
    <2>2. FloorBucket(r.at) \in Nat /\ r.at < FloorBucket(r.at) + Bucket /\ Aligned(FloorBucket(r.at))
      BY <2>1, BucketFacts
    <2>3. CompleteBucket(FloorBucket(r.at), from, hi) => FloorBucket(r.at) + Bucket <= hi
      BY DEF CompleteBucket
    <2> DEFINE f == FloorBucket(r.at)
    <2>4. CompleteBucket(f, from, hi) => r.at + r.delay <= now
      <3> HIDE DEF f
      <3> QED BY <1>1, <1>2, <2>1, <2>2, <2>3 DEF f
    <2> QED BY <1>1, <2>2, <2>4 DEF Visible
  <1>4. Visible \in SUBSET world
    BY WorldFacts DEF Ready
  <1> QED BY <1>3, <1>4 DEF Landed, Delivered, lo, hi

LEMMA WholeExact ==
  ASSUME NEW from, NEW to, NEW q, Ready(from, to, q), ~Empty(from, to), NEW key \in {ById, ByNone},
         NEW answer, answer.ok, Holds(answer, AllRows(key), Odd(Lo(from), Hi(to), q), Lo(from), Hi(to)),
         NEW f \in {from, Lo(from)}, Sound(Whole(answer.rows, f, Hi(to)))
  PROVE  Whole(answer.rows, f, Hi(to)) = Span(AllRows(key), Lo(from), Hi(to))
  <1> DEFINE lo == Lo(from)
             hi == Hi(to)
             whole == Whole(answer.rows, f, hi)
  <1>1. /\ lo \in Nat /\ hi \in Nat /\ Aligned(lo) /\ Aligned(hi) /\ Bucket \in Nat \ {0}
        /\ \A t \in Nat : Aligned(t) => (CompleteBucket(t, f, hi) <=> lo <= t /\ t < hi)
    BY Bounds, BucketAssumption
  <1>2. \A g \in AllRows(key) : g.at \in Nat /\ Aligned(g.at)
    BY RowFacts DEF Ready
  <1>3. \A g \in Odd(lo, hi, q) : g.at \in Nat /\ (g.at = hi \/ ~g.valid)
    BY <1>1, OddFacts
  <1>4. \A g \in Odd(lo, hi, q) : CompleteBucket(g.at, f, hi) => ~g.valid
    BY <1>1, <1>3 DEF CompleteBucket
  <1>5. \A g \in whole : g \in answer.rows /\ CompleteBucket(g.at, f, hi) /\ g.valid
    BY DEF Sound, Whole
  <1>6. \A g \in answer.rows : CompleteBucket(g.at, f, hi) => g \in whole
    BY DEF Whole
  <1>7. /\ Span(AllRows(key), lo, hi) \subseteq answer.rows
        /\ answer.rows \subseteq Span(AllRows(key), lo, hi) \cup Odd(lo, hi, q)
    BY DEF Holds
  <1>8. \A g \in Span(AllRows(key), lo, hi) : CompleteBucket(g.at, f, hi)
    BY <1>1, <1>2 DEF Span
  <1> HIDE DEF lo, hi, whole
  <1>9. whole = Span(AllRows(key), lo, hi)
    BY <1>4, <1>5, <1>6, <1>7, <1>8
  <1> QED BY <1>9 DEF lo, hi, whole

LEMMA StrictExact ==
  ASSUME NEW lo, NEW hi, NEW q, NEW key, NEW answer, answer.ok,
         Holds(answer, AllRows(key), Wrong(lo, hi, q), lo, hi)
  PROVE  /\ Sound(answer.rows) => answer.rows = Span(AllRows(key), lo, hi)
         /\ Holds(answer, AllRows(key), Odd(lo, hi, q), lo, hi)
  BY DEF Holds, Wrong, Sound

-----------------------------------------------------------------------------
(* Points. *)

Countable(points) ==
  /\ IsFiniteSet(points)
  /\ \A p \in points : ~p.gauge => p.value \in Nat
  /\ \A p, r \in points : ~p.gauge /\ ~r.gauge /\ p.metric = r.metric /\ p.name = r.name => p = r

Tally(points, m) == {p \in points : ~p.gauge /\ p.metric = m}
Values(points) == [p \in points |-> p.value]

LEMMA SumsOfValues ==
  ASSUME NEW points, Countable(points), NEW m
  PROVE  /\ IsFiniteSet(Tally(points, m)) /\ Counts(Tally(points, m), Values(points))
         /\ Sums(points, m) = Total(Tally(points, m), Values(points)) /\ Sums(points, m) \in Nat
  <1> DEFINE S == Tally(points, m)
             h == [p \in S |-> [name |-> p.name, n |-> p.value]]
             image == {h[p] : p \in S}
             f == NOf(image)
             g == Values(points)
  <1>1. IsFiniteSet(S) /\ S \in SUBSET points
    <2>1. S \in SUBSET points
      BY DEF Tally
    <2> HIDE DEF S
    <2> QED BY <2>1, FS_Subset DEF Countable
  <1>2. \A p \in S : p.value \in Nat /\ g[p] = p.value
    BY DEF Tally, Values, Countable
  <1>3. \A p, r \in S : h[p] = h[r] => p = r
    <2>1. \A p, r \in S : p.name = r.name => p = r
      BY DEF Tally, Countable
    <2>2. \A p \in S : h[p].name = p.name
      OBVIOUS
    <2> HIDE DEF h, S
    <2> QED BY <2>1, <2>2
  <1>4. \A p \in S : f[h[p]] = g[p]
    <2>1. \A p \in S : h[p] \in image /\ h[p].n = p.value
      OBVIOUS
    <2> HIDE DEF h, S, image, g
    <2> QED BY <1>2, <2>1 DEF NOf
  <1>5. Sums(points, m) = SumN(image)
    <2>1. image = {[name |-> p.name, n |-> p.value] : p \in S}
      OBVIOUS
    <2>2. S = {p \in points : ~p.gauge /\ p.metric = m}
      BY DEF Tally
    <2> HIDE DEF image, S
    <2>3. Sums(points, m) = SumN({[name |-> p.name, n |-> p.value] : p \in S})
      BY <2>2 DEF Sums
    <2> QED BY <2>1, <2>3
  <1>6. SumN(image) = Total(image, f)
    BY DEF SumN, NOf
  <1>7. Counts(S, g)
    BY <1>2 DEF Counts
  <1> HIDE DEF S, h, f, g
  <1>8. Total(image, f) = Total(S, g)
    BY <1>1, <1>3, <1>4, <1>7, TotalImage
  <1>9. Total(S, g) \in Nat
    BY <1>1, <1>7, TotalRemove
  <1> QED BY <1>1, <1>5, <1>6, <1>7, <1>8, <1>9 DEF S, g

LEMMA SumsSplit ==
  ASSUME NEW points, Countable(points), NEW kept \in SUBSET points, NEW m
  PROVE  /\ Sums(kept, m) \in Nat /\ Sums(points \ kept, m) \in Nat
         /\ Sums(kept, m) + Sums(points \ kept, m) = Sums(points, m)
  <1> DEFINE cut == points \ kept
             all == Tally(points, m)
             v == Values(points)
  <1>1. Countable(kept) /\ Countable(cut)
    BY FS_Subset DEF Countable
  <1>2. Tally(kept, m) \in SUBSET all /\ Tally(cut, m) = all \ Tally(kept, m)
    BY DEF Tally
  <1> HIDE DEF cut
  <1>3. ASSUME NEW T \in SUBSET points, Countable(T) PROVE Sums(T, m) \in Nat /\ Sums(T, m) = Total(Tally(T, m), v)
    <2>1. /\ IsFiniteSet(Tally(T, m)) /\ Counts(Tally(T, m), Values(T)) /\ Sums(T, m) \in Nat
          /\ Sums(T, m) = Total(Tally(T, m), Values(T))
      BY <1>3, SumsOfValues
    <2>2. \A p \in Tally(T, m) : Values(T)[p] = v[p]
      BY DEF Tally, Values
    <2> HIDE DEF v
    <2>3. Total(Tally(T, m), Values(T)) = Total(Tally(T, m), v)
      BY <2>1, <2>2, TotalSame
    <2> QED BY <2>1, <2>3
  <1>4. IsFiniteSet(all) /\ Counts(all, v)
    BY SumsOfValues
  <1> HIDE DEF all, v
  <1>5. /\ Total(Tally(kept, m), v) \in Nat /\ Total(all \ Tally(kept, m), v) \in Nat
        /\ Total(all, v) = Total(Tally(kept, m), v) + Total(all \ Tally(kept, m), v)
    BY <1>2, <1>4, TotalPart
  <1>6. Sums(kept, m) = Total(Tally(kept, m), v) /\ Sums(points, m) = Total(all, v)
    BY <1>1, <1>3 DEF all
  <1>7. Sums(cut, m) = Total(all \ Tally(kept, m), v)
    <2>1. cut \in SUBSET points
      BY DEF cut
    <2>2. Sums(cut, m) = Total(Tally(cut, m), v)
      BY <1>1, <1>3, <2>1
    <2> QED BY <1>2, <2>2
  <1> QED BY <1>5, <1>6, <1>7 DEF cut

LEMMA CountersFacts ==
  ASSUME NEW rows, Tallied(rows), NEW metric, NEW series
  PROVE  /\ IsFiniteSet(Counters(rows, metric, series))
         /\ \A p \in Counters(rows, metric, series) :
              /\ p.metric = metric /\ ~p.gauge /\ p.value \in Nat
              /\ \E r \in rows : p.name = series[r]
         /\ \A p, r \in Counters(rows, metric, series) : p.name = r.name => p = r
         /\ Total(Counters(rows, metric, series), Values(Counters(rows, metric, series))) = SumN(rows)
  <1> DEFINE K == {series[r] : r \in rows}
             class == ClassBy(rows, series)
             h == [s \in K |-> Point(metric, s, FALSE, SumN({r \in rows : series[r] = s}), 0)]
             C == {h[s] : s \in K}
             v == Values(C)
             f == NOf(rows)
  <1>1. C = Counters(rows, metric, series)
    BY DEF Counters
  <1>2. Classes(rows, K, class) /\ \A s \in K : class[s] = {r \in rows : series[r] = s}
    BY ClassesBy DEF Tallied
  <1>3. \A s \in K : /\ h[s].metric = metric /\ h[s].name = s /\ h[s].gauge = FALSE
                     /\ h[s].value = SumN({r \in rows : series[r] = s})
    BY DEF Point
  <1>4. \A s \in K : class[s] \in SUBSET rows
    BY <1>2 DEF Classes
  <1>5. \A s \in K : h[s].value = SumN(class[s])
    BY <1>2, <1>3
  <1>6. \A s \in K : \E r \in rows : s = series[r]
    OBVIOUS
  <1>7. \A s \in K : h[s] \in C
    OBVIOUS
  <1>8. \A p \in C : \E s \in K : p = h[s]
    OBVIOUS
  <1>9. Counts(rows, f) /\ IsFiniteSet(rows) /\ SumN(rows) = Total(rows, f)
    BY SumFacts DEF Tallied, SumN, NOf
  <1>10. \A s \in K : v[h[s]] = h[s].value
    BY <1>7 DEF Values
  <1> HIDE DEF K, class, h, v, f
  <1>11. \A s \in K : h[s].value \in Nat /\ h[s].value = Total(class[s], f)
    BY <1>4, <1>5, SumFacts DEF f
  <1>12. \A j, k \in K : h[j] = h[k] => j = k
    BY <1>3
  <1>13. \A s \in K : v[h[s]] = Total(class[s], f)
    BY <1>10, <1>11
  <1>14. IsFiniteSet(C) /\ Total(C, v) = Total(rows, f)
    <2>2. /\ IsFiniteSet({h[s] : s \in K}) /\ Counts({h[s] : s \in K}, v)
          /\ Total({h[s] : s \in K}, v) = Total(rows, f)
      BY ONLY <1>2, <1>9, <1>12, <1>13, TotalGrouped
    <2> QED BY <2>2
  <1> HIDE DEF C
  <1>15. \A p \in C : p.metric = metric /\ ~p.gauge /\ p.value \in Nat /\ \E r \in rows : p.name = series[r]
    <2> SUFFICES ASSUME NEW p \in C
                 PROVE  p.metric = metric /\ ~p.gauge /\ p.value \in Nat /\ \E r \in rows : p.name = series[r]
      OBVIOUS
    <2>1. PICK s \in K : p = h[s]
      BY <1>8
    <2> QED BY <1>3, <1>6, <1>11, <2>1
  <1>16. \A p, r \in C : p.name = r.name => p = r
    <2> SUFFICES ASSUME NEW p \in C, NEW r \in C, p.name = r.name PROVE p = r
      OBVIOUS
    <2>1. PICK s \in K : p = h[s]
      BY <1>8
    <2>2. PICK t \in K : r = h[t]
      BY <1>8
    <2>3. s = t
      BY <1>3, <2>1, <2>2
    <2> QED BY <2>1, <2>2, <2>3
  <1> QED BY <1>1, <1>9, <1>14, <1>15, <1>16 DEF v

\* What the counters of a metric add up to.
LEMMA SumsCounters ==
  ASSUME NEW points, Countable(points), NEW m
  PROVE  /\ \A rows, series : Tallied(rows) /\ Tally(points, m) = Counters(rows, m, series) => Sums(points, m) = SumN(rows)
         /\ Tally(points, m) = {} => Sums(points, m) = 0
  <1> DEFINE C == Tally(points, m)
             v == Values(points)
  <1>1. /\ IsFiniteSet(C) /\ Counts(C, v) /\ Sums(points, m) = Total(C, v)
    BY SumsOfValues
  <1>2. ASSUME NEW rows, NEW series, Tallied(rows), C = Counters(rows, m, series)
        PROVE  Sums(points, m) = SumN(rows)
    <2>1. Total(C, Values(C)) = SumN(rows)
      BY <1>2, CountersFacts
    <2>2. \A p \in C : v[p] = Values(C)[p]
      BY DEF Tally, Values
    <2> HIDE DEF C, v
    <2>3. Total(C, v) = Total(C, Values(C))
      BY <1>1, <2>2, TotalSame
    <2> QED BY <1>1, <2>1, <2>3
  <1>3. Tally(points, m) = {} => Sums(points, m) = 0
    BY <1>1, TotalEmpty
  <1> QED BY <1>2, <1>3

\* A gauge shows the level of a row that is the newest of its series.
LEMMA GaugesFacts ==
  ASSUME NEW rows, IsFiniteSet(rows), \A r \in rows : r.at \in Nat /\ r.level \in Nat, NEW metric, NEW series
  PROVE  /\ IsFiniteSet(Gauges(rows, metric, series))
         /\ \A p \in Gauges(rows, metric, series) :
              /\ p.metric = metric /\ p.gauge
              /\ \E r \in rows : /\ p.name = series[r] /\ p.value = r.level
                                 /\ \A o \in rows : series[o] = series[r] => o.at <= r.at
         /\ \A p, r \in Gauges(rows, metric, series) : p.name = r.name => p = r
  <1> DEFINE K == {series[r] : r \in rows}
             newest(s) == NewestOf({r \in rows : series[r] = s})
             h == [s \in K |-> Point(metric, s, TRUE, TopLevel(newest(s)), Max({r.at : r \in newest(s)}))]
             C == {h[s] : s \in K}
  <1>1. C = Gauges(rows, metric, series)
    BY DEF Gauges
  <1>2. IsFiniteSet(K)
    BY FiniteValues
  <1>3. \A s \in K : h[s].metric = metric /\ h[s].name = s /\ h[s].gauge = TRUE /\ h[s].value = TopLevel(newest(s))
    BY DEF Point
  <1>4. ASSUME NEW s \in K
        PROVE  \E r \in rows : /\ s = series[r] /\ TopLevel(newest(s)) = r.level
                               /\ \A o \in rows : series[o] = series[r] => o.at <= r.at
    <2> DEFINE same == {r \in rows : series[r] = s}
               ats == [r \in same |-> r.at]
               times == {ats[r] : r \in same}
               levels == [r \in newest(s) |-> r.level]
               values == {levels[r] : r \in newest(s)}
    <2>1. same # {} /\ same \in SUBSET rows /\ IsFiniteSet(same)
      <3>1. same # {} /\ same \in SUBSET rows
        OBVIOUS
      <3> HIDE DEF same
      <3> QED BY <3>1, FS_Subset
    <2>2. times \in SUBSET Nat /\ times # {} /\ IsFiniteSet(times)
      <3>1. times \in SUBSET Nat /\ times # {}
        BY <2>1
      <3> HIDE DEF same, ats
      <3> QED BY <2>1, <3>1, FiniteValues
    <2>3. \E t \in times : \A u \in times : u <= t
      <3> HIDE DEF times
      <3> QED BY <2>2, GreatestNumber
    <2>4. newest(s) # {} /\ newest(s) \in SUBSET same
      BY <2>3 DEF NewestOf
    <2>5. values \in SUBSET Nat /\ values # {} /\ IsFiniteSet(values)
      <3>1. values \in SUBSET Nat /\ values # {}
        BY <2>1, <2>4
      <3>2. IsFiniteSet(newest(s))
        BY <2>1, <2>4, FS_Subset
      <3> HIDE DEF newest, levels
      <3> QED BY <3>1, <3>2, FiniteValues
    <2>6. Max(values) \in values
      <3> HIDE DEF values
      <3>1. \E x \in values : \A y \in values : y <= x
        BY <2>5, GreatestNumber
      <3> QED BY <2>5, <3>1, GreatestFloor
    <2>7. TopLevel(newest(s)) = Max(values)
      <3>1. values = {r.level : r \in newest(s)}
        OBVIOUS
      <3> HIDE DEF values, newest
      <3> QED BY <3>1 DEF TopLevel
    <2>8. PICK r \in newest(s) : r.level = TopLevel(newest(s))
      BY <2>6, <2>7
    <2>9. r \in same /\ \A o \in same : o.at <= r.at
      BY <2>8 DEF NewestOf
    <2> QED BY <2>8, <2>9
  <1>5. \A p \in C : \E s \in K : p = h[s]
    OBVIOUS
  <1>6. IsFiniteSet(C)
    <2> HIDE DEF K, h
    <2> QED BY <1>2, FiniteValues
  <1> HIDE DEF K, h, newest
  <1>7. \A p \in C : /\ p.metric = metric /\ p.gauge
                     /\ \E r \in rows : /\ p.name = series[r] /\ p.value = r.level
                                        /\ \A o \in rows : series[o] = series[r] => o.at <= r.at
    <2> SUFFICES ASSUME NEW p \in C
                 PROVE  /\ p.metric = metric /\ p.gauge
                        /\ \E r \in rows : /\ p.name = series[r] /\ p.value = r.level
                                           /\ \A o \in rows : series[o] = series[r] => o.at <= r.at
      OBVIOUS
    <2>1. PICK s \in K : p = h[s]
      BY <1>5
    <2> QED BY <1>3, <1>4, <2>1
  <1>8. \A p, r \in C : p.name = r.name => p = r
    BY <1>3, <1>5
  <1> HIDE DEF C
  <1> QED BY <1>1, <1>6, <1>7, <1>8

-----------------------------------------------------------------------------
(* What a window must deliver.                                               *)

EndOf(to) == IF kind \in Raw THEN to ELSE Hi(to)
Due(from, to) == IF kind \in Raw THEN {r \in world : from <= r.at /\ r.at < to} ELSE Delivered(from, to)

NamedKinds ==
  {"d1.analytics", "d1.storage", "kv.operations", "kv.storage", "queues.message_operations",
   "queues.backlog", "durableobjects.invocations", "durableobjects.sql_storage",
   "r2.operations", "r2.storage"}

Gauged(points, from, to) ==
  kind \notin Raw => \A p \in points : p.gauge => \E r \in world : Recent(r, from, to) /\ r.level = p.value
Named(points, names) == \A p \in points : p.metric = Main => p.name = Other \/ p.name \in names
Few(names) == names \in SUBSET Nat /\ IsFiniteSet(names) /\ Cardinality(names) <= MaxNames /\ admitted \subseteq names

Fulfilled(w, from, to) ==
  /\ w.mark = EndOf(to) /\ from < w.mark
  /\ \A m \in Metrics : Sums(w.points, m) \in Nat /\ Sums(w.cut, m) \in Nat
  /\ Counted => Sums(w.points, Main) + Sums(w.cut, Main) = SumN(Due(from, w.mark))
  /\ Sums(w.points, Depth) + Sums(w.cut, Depth) <= SumN(Due(from, w.mark))
  /\ Gauged(w.points, from, w.mark)
  /\ kind \in NamedKinds => Named(w.points, w.admitted)

Promise(w, from, to) == Few(w.admitted) /\ (w.mark # from => Fulfilled(w, from, to))

MainPoints(points, from, hi) ==
  /\ Countable(points) /\ Gauged(points, from, hi) /\ \A p \in points : p.metric = Main
  /\ Counted => Sums(points, Main) = SumN(Due(from, hi))
DepthPoints(points, from, hi) ==
  /\ Countable(points) /\ Gauged(points, from, hi) /\ \A p \in points : p.metric \in {Depth, DepthLevel}
  /\ Sums(points, Depth) <= SumN(Due(from, hi))

LEMMA DueSum ==
  ASSUME Data, NEW from, NEW to
  PROVE  Tallied(Due(from, to)) /\ SumN(Due(from, to)) \in Nat
  <1>1. Due(from, to) \in SUBSET world
    BY DEF Due, Delivered
  <1> QED BY <1>1, WorldFacts, SumFacts

LEMMA RefusePromise ==
  ASSUME NEW w, NEW from, NEW to, w.mark = from, Few(w.admitted)
  PROVE  Promise(w, from, to)
  BY DEF Promise

LEMMA FewAdmitted ==
  ASSUME NEW from, NEW to, NEW q, Ready(from, to, q)
  PROVE  Few(admitted)
  BY DEF Ready, Few

\* A metric's sum depends on its own counters only.
LEMMA SumsByTally ==
  ASSUME NEW A, NEW B, NEW m, Tally(A, m) = Tally(B, m)
  PROVE  Sums(A, m) = Sums(B, m)
  <1>1. {p \in A : ~p.gauge /\ p.metric = m} = {p \in B : ~p.gauge /\ p.metric = m}
    BY DEF Tally
  <1> QED BY <1>1 DEF Sums

LEMMA DeliverPromise ==
  ASSUME Data, NEW from, NEW to, NEW hi, hi = EndOf(to), from < hi,
         NEW A, MainPoints(A, from, hi), NEW B, DepthPoints(B, from, hi),
         NEW kept \in SUBSET (A \cup B), NEW names, Few(names), kind \in NamedKinds => Named(A, names)
  PROVE  Promise(Deliver(hi, kept, (A \cup B) \ kept, names), from, to)
  <1> DEFINE all == A \cup B
             cut == all \ kept
             w == Deliver(hi, kept, cut, names)
  <1>1. Countable(A) /\ Countable(B) /\ Main # Depth /\ Main # DepthLevel
    BY DEF MainPoints, DepthPoints, Main, Depth, DepthLevel
  <1>2. Countable(all)
    <2>1. IsFiniteSet(all)
      BY <1>1, FS_Union DEF Countable
    <2>2. \A p \in all : (p \in A /\ p.metric = Main) \/ (p \in B /\ p.metric # Main)
      BY <1>1 DEF MainPoints, DepthPoints
    <2> HIDE DEF all
    <2> QED BY <1>1, <2>1, <2>2 DEF Countable
  <1>3. Sums(all, Main) = Sums(A, Main) /\ Sums(all, Depth) = Sums(B, Depth)
    <2>1. Tally(all, Main) = Tally(A, Main)
      BY <1>1 DEF Tally, MainPoints, DepthPoints
    <2>2. Tally(all, Depth) = Tally(B, Depth)
      BY <1>1 DEF Tally, MainPoints, DepthPoints
    <2> HIDE DEF all
    <2> QED BY <2>1, <2>2, SumsByTally
  <1>4. \A m \in Metrics : Sums(kept, m) \in Nat /\ Sums(cut, m) \in Nat /\ Sums(kept, m) + Sums(cut, m) = Sums(all, m)
    <2>1. kept \in SUBSET all
      OBVIOUS
    <2> HIDE DEF all
    <2> QED BY <1>2, <2>1, SumsSplit
  <1>5. w.mark = hi /\ w.points = kept /\ w.cut = cut /\ w.admitted = names
    BY DEF Deliver
  <1>6. Gauged(kept, from, hi)
    BY DEF Gauged, MainPoints, DepthPoints
  <1>7. kind \in NamedKinds => Named(kept, names)
    BY <1>1 DEF Named, DepthPoints
  <1> HIDE DEF all, cut, w
  <1>8. Fulfilled(w, from, to)
    <2>1. Main \in Metrics /\ Depth \in Metrics
      BY DEF Metrics
    <2>2. Counted => Sums(kept, Main) + Sums(cut, Main) = SumN(Due(from, hi))
      BY <1>3, <1>4, <2>1 DEF MainPoints
    <2>3. Sums(kept, Depth) + Sums(cut, Depth) <= SumN(Due(from, hi))
      BY <1>3, <1>4, <2>1 DEF DepthPoints
    <2> QED BY <1>4, <1>5, <1>6, <1>7, <2>2, <2>3 DEF Fulfilled
  <1>9. Promise(w, from, to)
    BY <1>5, <1>8 DEF Promise
  <1> QED BY <1>9 DEF w, cut, all

\* The counters and gauges of the rows of a window.
LEMMA MainCounters ==
  ASSUME Data, NEW rows, Tallied(rows), NEW series, NEW from, NEW hi,
         Counted => SumN(rows) = SumN(Due(from, hi))
  PROVE  MainPoints(Counters(rows, Main, series), from, hi)
  <1> DEFINE C == Counters(rows, Main, series)
  <1>1. /\ IsFiniteSet(C) /\ \A p \in C : p.metric = Main /\ ~p.gauge /\ p.value \in Nat
        /\ \A p, r \in C : p.name = r.name => p = r
    BY CountersFacts
  <1>2. Tally(C, Main) = C
    <2> HIDE DEF C
    <2> QED BY <1>1 DEF Tally
  <1>3. Countable(C) /\ Gauged(C, from, hi)
    <2> HIDE DEF C
    <2> QED BY <1>1 DEF Countable, Gauged
  <1>4. Sums(C, Main) = SumN(rows)
    BY <1>2, <1>3, SumsCounters
  <1> HIDE DEF C
  <1>5. MainPoints(C, from, hi)
    BY <1>1, <1>3, <1>4 DEF MainPoints
  <1> QED BY <1>5 DEF C

LEMMA MainGauges ==
  ASSUME NEW points, IsFiniteSet(points), \A p \in points : p.gauge /\ p.metric = Main, ~Counted,
         NEW from, NEW hi, Gauged(points, from, hi)
  PROVE  MainPoints(points, from, hi)
  BY DEF MainPoints, Countable

LEMMA DepthJoined ==
  ASSUME Data, NEW rows, Tallied(rows), NEW series, NEW from, NEW hi, SumN(rows) <= SumN(Due(from, hi)),
         NEW levels, IsFiniteSet(levels), \A p \in levels : p.gauge /\ p.metric = DepthLevel,
         Gauged(levels, from, hi)
  PROVE  DepthPoints(Counters(rows, Depth, series) \cup levels, from, hi)
  <1> DEFINE C == Counters(rows, Depth, series)
             all == C \cup levels
  <1>1. /\ IsFiniteSet(C) /\ \A p \in C : p.metric = Depth /\ ~p.gauge /\ p.value \in Nat
        /\ \A p, r \in C : p.name = r.name => p = r
    BY CountersFacts
  <1>2. IsFiniteSet(all)
    <2> HIDE DEF C
    <2> QED BY <1>1, FS_Union
  <1>3. Tally(all, Depth) = C
    <2> HIDE DEF C
    <2> QED BY <1>1 DEF Tally
  <1>4. Countable(all) /\ Gauged(all, from, hi) /\ \A p \in all : p.metric \in {Depth, DepthLevel}
    <2> HIDE DEF C
    <2> QED BY <1>1, <1>2 DEF Countable, Gauged
  <1>5. Sums(all, Depth) = SumN(rows)
    <2> HIDE DEF all
    <2> QED BY <1>3, <1>4, SumsCounters DEF C
  <1> HIDE DEF all
  <1>6. DepthPoints(all, from, hi)
    BY <1>4, <1>5 DEF DepthPoints
  <1> QED BY <1>6 DEF all

LEMMA DepthLevels ==
  ASSUME Data, NEW from, NEW hi,
         NEW levels, IsFiniteSet(levels), \A p \in levels : p.gauge /\ p.metric = DepthLevel,
         Gauged(levels, from, hi)
  PROVE  DepthPoints(levels, from, hi)
  <1>1. Countable(levels)
    BY DEF Countable
  <1>2. Tally(levels, Depth) = {}
    BY DEF Tally
  <1>3. Sums(levels, Depth) = 0
    BY <1>1, <1>2, SumsCounters
  <1> QED BY <1>1, <1>3, DueSum DEF DepthPoints

LEMMA NoDepth ==
  ASSUME Data, NEW from, NEW hi
  PROVE  DepthPoints({}, from, hi)
  <1> DEFINE none == {}
  <1>1. IsFiniteSet(none) /\ (\A p \in none : p.gauge /\ p.metric = DepthLevel) /\ Gauged(none, from, hi)
    BY FS_EmptySet DEF Gauged
  <1> HIDE DEF none
  <1>2. DepthPoints(none, from, hi)
    BY <1>1, DepthLevels
  <1> QED BY <1>2 DEF none

\* A gauge shows a recent value, when no newer row of its resource is left out.
LEMMA RecentGauges ==
  ASSUME NEW from, NEW to, NEW q, Ready(from, to, q), ~Empty(from, to), NEW key \in {ById, ByNone},
         NEW X \in SUBSET Span(AllRows(key), Lo(from), Hi(to)),
         \A g \in X : \A h \in Span(AllRows(key), Lo(from), Hi(to)) : h.id = g.id /\ g.at <= h.at => h \in X,
         NEW series, \A g, h \in X : g.id = h.id => series[g] = series[h], NEW metric
  PROVE  Gauged(Gauges(X, metric, series), from, Hi(to))
  <1> DEFINE lo == Lo(from)
             hi == Hi(to)
             full == AllRows(key)
  <1>0. Data
    BY DEF Ready
  <1>1. /\ lo \in Nat /\ hi \in Nat
        /\ \A t \in Nat : Aligned(t) => (CompleteBucket(t, from, hi) <=> lo <= t /\ t < hi)
    BY Bounds
  <1>2. /\ \A g \in full : /\ g.at \in Nat /\ Aligned(g.at) /\ g.id \in Nat
                           /\ \E r \in Visible : Bin(r, key) = <<g.at, g.id>> /\ g.level = r.level
        /\ \A r \in Visible : \E g \in full : Bin(r, key) = <<g.at, g.id>>
    BY <1>0, RowFacts
  <1>3. Visible \in SUBSET world /\ \A r \in world : r.at \in Nat /\ r.level \in Nat
    BY <1>0, WorldFacts
  <1>4. \A r \in Visible : Bin(r, key) = <<FloorBucket(r.at), key[r.id]>>
    BY DEF Bin
  <1>5. IsFiniteSet(X)
    BY <1>0, SpanSum, FS_Subset DEF Tallied
  <1>6. \A g \in X : g \in full /\ lo <= g.at /\ g.at < hi
    BY DEF Span
  <1>7. \A g \in full : lo <= g.at /\ g.at < hi => g \in Span(full, lo, hi)
    BY DEF Span
  <1>8. \A r \in world : CompleteBucket(FloorBucket(r.at), from, hi) => r \in Visible
    BY AllLanded DEF Landed, Delivered
  <1>9. \A g \in X : \A h \in Span(full, lo, hi) : h.id = g.id /\ g.at <= h.at => h \in X
    OBVIOUS
  <1> HIDE DEF lo, hi, full
  <1>10. ASSUME NEW p \in Gauges(X, metric, series)
         PROVE  \E r \in world : Recent(r, from, hi) /\ r.level = p.value
    <2>1. \A r \in X : r.at \in Nat /\ r.level \in Nat
      BY <1>2, <1>3, <1>6
    <2>2. PICK g \in X : g.level = p.value /\ \A o \in X : series[o] = series[g] => o.at <= g.at
      BY <1>5, <2>1, GaugesFacts
    <2>3. PICK r \in Visible : Bin(r, key) = <<g.at, g.id>> /\ g.level = r.level
      BY <1>2, <1>6, <2>2
    <2>4. FloorBucket(r.at) = g.at /\ key[r.id] = g.id /\ g.at \in Nat /\ Aligned(g.at) /\ r \in world
      BY <1>2, <1>3, <1>4, <1>6, <2>2, <2>3
    <2>5. CompleteBucket(FloorBucket(r.at), from, hi)
      BY <1>1, <1>6, <2>2, <2>4
    <2>6. ASSUME NEW other \in world, other.id = r.id, CompleteBucket(FloorBucket(other.at), from, hi)
          PROVE  FloorBucket(other.at) <= FloorBucket(r.at)
      <3>1. other \in Visible
        BY <1>8, <2>6
      <3>2. PICK h \in full : Bin(other, key) = <<h.at, h.id>>
        BY <1>2, <3>1
      <3>3. FloorBucket(other.at) = h.at /\ h.id = g.id /\ h.at \in Nat /\ Aligned(h.at)
        BY <1>2, <1>4, <2>4, <2>6, <3>1, <3>2
      <3>4. h \in Span(full, lo, hi)
        BY <1>1, <1>7, <2>6, <3>2, <3>3
      <3>5. g.at <= h.at => h \in X /\ series[h] = series[g]
        BY <1>9, <2>2, <3>3, <3>4
      <3>6. g.at <= h.at => h.at <= g.at
        BY <2>2, <3>5
      <3> QED BY <2>4, <3>3, <3>6
    <2> QED BY <2>2, <2>3, <2>4, <2>5, <2>6 DEF Recent
  <1> QED BY <1>10 DEF Gauged, hi

-----------------------------------------------------------------------------
(* Names. *)

LEMMA AdmitFacts ==
  ASSUME NEW from, NEW to, NEW q, Ready(from, to, q), NEW names \in SUBSET Nat, IsFiniteSet(names)
  PROVE  Few(Admit(names))
  <1> DEFINE fresh == names \ (admitted \cup {Other})
             room == MaxNames - Cardinality(admitted)
             new == {n \in fresh : Cardinality({m \in fresh : m < n}) < room}
  <1>1. admitted \in SUBSET Nat /\ IsFiniteSet(admitted) /\ Cardinality(admitted) <= MaxNames /\ MaxNames \in Nat
    BY LimitAssumption DEF Ready
  <1>2. fresh \in SUBSET Nat /\ IsFiniteSet(fresh)
    <2>1. fresh \in SUBSET names
      OBVIOUS
    <2> HIDE DEF fresh
    <2> QED BY <2>1, FS_Subset
  <1>3. Cardinality(admitted) \in Nat
    BY <1>1, FS_CardinalityType
  <1> HIDE DEF fresh
  <1>4. new \in SUBSET fresh
    OBVIOUS
  <1>5. \A k \in new : Cardinality({m \in fresh : m < k}) + Cardinality(admitted) < MaxNames
    <2> TAKE k \in new
    <2> DEFINE below == {m \in fresh : m < k}
    <2>1. IsFiniteSet(below)
      <3>1. below \in SUBSET fresh
        OBVIOUS
      <3> HIDE DEF below
      <3> QED BY <1>2, <3>1, FS_Subset
    <2>2. Cardinality(below) < room
      OBVIOUS
    <2> HIDE DEF below
    <2>3. Cardinality(below) \in Nat
      BY <2>1, FS_CardinalityType
    <2>4. Cardinality(below) + Cardinality(admitted) < MaxNames
      BY <1>1, <1>3, <2>2, <2>3
    <2> QED BY <2>4 DEF below
  <1> HIDE DEF new, room
  <1>6. IsFiniteSet(admitted \cup new) /\ Cardinality(admitted \cup new) <= MaxNames
    BY <1>1, <1>2, <1>4, <1>5, Admission
  <1>7. Admit(names) = admitted \cup new
    BY DEF Admit, new, room, fresh
  <1> QED BY <1>1, <1>2, <1>4, <1>6, <1>7 DEF Few

LEMMA NameFacts ==
  ASSUME NEW q \in Requests, NEW id
  PROVE  NameOf(q, id) \in Nat
  <1>1. q.names = <<>> \/ q.names = Directory
    BY DEF Requests, Lists
  <1> QED BY <1>1, DirectoryAssumption DEF NameOf, Other

\* The named series of a window that is sound.
LEMMA NamedPoints ==
  ASSUME NEW from, NEW to, NEW q, Ready(from, to, q), ~Empty(from, to), kind \notin Raw,
         NEW key \in {ById, ByNone}, NEW answer, answer.ok,
         Holds(answer, AllRows(key), Odd(Lo(from), Hi(to), q), Lo(from), Hi(to)),
         Sound(Whole(answer.rows, Lo(from), Hi(to))), NEW isGauge \in BOOLEAN, Counted => ~isGauge,
         NEW used, used = NamedRows(answer.rows, Lo(from), Hi(to), isGauge),
         NEW names, names = NamesOf(used, q)
  PROVE  /\ Few(names)
         /\ MainPoints(Aggregate(used, Lo(from), Hi(to), isGauge, SeriesOf(used, names, q)).points, from, Hi(to))
         /\ Named(Aggregate(used, Lo(from), Hi(to), isGauge, SeriesOf(used, names, q)).points, names)
  <1> DEFINE lo == Lo(from)
             hi == Hi(to)
             rows == Span(AllRows(key), lo, hi)
             series == SeriesOf(used, names, q)
             points == Aggregate(used, lo, hi, isGauge, series).points
  <1>0. Data /\ q \in Requests
    BY DEF Ready
  <1>1. Whole(answer.rows, lo, hi) = rows
    BY WholeExact
  <1>2. used \in SUBSET rows /\ (~isGauge => used = rows) /\ (isGauge => used = NewestOf(rows))
    BY <1>1 DEF NamedRows, NewestOf
  <1>3. Tallied(rows) /\ SumN(rows) = SumN(Landed(lo, hi)) /\ \A g \in rows : g.at \in Nat /\ g.level \in Nat /\ Aligned(g.at)
    <2>1. \A g \in AllRows(key) : g.at \in Nat /\ Aligned(g.at) /\ \E r \in Visible : g.level = r.level
      BY <1>0, RowFacts
    <2>2. \A g \in rows : g \in AllRows(key)
      BY DEF Span
    <2>3. \A r \in Visible : r.level \in Nat
      BY <1>0, WorldFacts
    <2> HIDE DEF rows, lo, hi
    <2>4. \A g \in rows : g.at \in Nat /\ g.level \in Nat /\ Aligned(g.at)
      BY <2>1, <2>2, <2>3
    <2> QED BY <1>0, <2>4, SpanSum DEF rows
  <1>4. Landed(lo, hi) = Due(from, hi)
    BY AllLanded DEF Due
  <1>5. Whole(used, lo, hi) = used
    <2>1. \A t \in Nat : Aligned(t) => (CompleteBucket(t, lo, hi) <=> lo <= t /\ t < hi)
      BY Bounds
    <2>2. \A g \in rows : lo <= g.at /\ g.at < hi
      BY DEF Span
    <2> HIDE DEF rows, lo, hi
    <2>3. \A g \in used : CompleteBucket(g.at, lo, hi)
      BY <1>2, <1>3, <2>1, <2>2
    <2> QED BY <2>3 DEF Whole
  <1>6. Few(names)
    <2> DEFINE name == [r \in used |-> NameOf(q, r.id)]
               found == {name[r] : r \in used}
    <2>1. IsFiniteSet(used)
      BY <1>2, <1>3, FS_Subset DEF Tallied
    <2>2. found \in SUBSET Nat
      BY <1>0, NameFacts
    <2>3. found = {NameOf(q, r.id) : r \in used}
      OBVIOUS
    <2>4. IsFiniteSet(found)
      <3> HIDE DEF name
      <3> QED BY <2>1, FiniteValues
    <2> HIDE DEF found
    <2>5. names = Admit(found)
      BY <2>3 DEF NamesOf
    <2> QED BY <2>2, <2>4, <2>5, AdmitFacts
  <1>7. \A r \in used : series[r] = Other \/ series[r] \in names
    BY DEF SeriesOf
  <1>8. \A g, h \in used : g.id = h.id => series[g] = series[h]
    BY DEF SeriesOf
  <1>9. Tallied(used)
    BY <1>2, <1>3, SumFacts
  <1> HIDE DEF series
  <1>10. CASE ~isGauge
    <2>1. points = Counters(used, Main, series)
      BY <1>5, <1>10 DEF Aggregate
    <2>2. SumN(used) = SumN(Due(from, hi))
      BY <1>2, <1>3, <1>4, <1>10
    <2>3. MainPoints(points, from, hi)
      BY <1>0, <1>9, <2>1, <2>2, MainCounters
    <2>4. Named(points, names)
      BY <1>7, <1>9, <2>1, CountersFacts DEF Named
    <2> QED BY <1>6, <2>3, <2>4 DEF series
  <1>11. CASE isGauge
    <2>1. points = Gauges(used, Main, series)
      BY <1>5, <1>11 DEF Aggregate
    <2>2. \A g \in used : \A h \in rows : h.id = g.id /\ g.at <= h.at => h \in used
      <3>1. used = NewestOf(rows)
        BY <1>2, <1>11
      <3> HIDE DEF rows
      <3>2. ASSUME NEW g \in used, NEW h \in rows, g.at <= h.at, NEW o \in rows PROVE o.at <= h.at
        <4>1. o.at <= g.at /\ g \in rows
          BY <3>1 DEF NewestOf
        <4>2. o.at \in Nat /\ g.at \in Nat /\ h.at \in Nat
          BY <1>3, <4>1
        <4> QED BY <3>2, <4>1, <4>2
      <3> QED BY <3>1, <3>2 DEF NewestOf
    <2>3. Gauged(Gauges(used, Main, series), from, hi)
      BY <1>2, <1>8, <2>2, RecentGauges
    <2>4. \A g \in used : g.at \in Nat /\ g.level \in Nat
      BY <1>2, <1>3
    <2>5. /\ IsFiniteSet(points)
          /\ \A p \in points : p.gauge /\ p.metric = Main /\ \E r \in used : p.name = series[r]
      <3> HIDE DEF points
      <3> QED BY <1>9, <2>1, <2>4, GaugesFacts DEF Tallied
    <2>6. MainPoints(points, from, hi)
      <3> HIDE DEF points
      <3> QED BY <1>11, <2>1, <2>3, <2>5, MainGauges
    <2>7. Named(points, names)
      <3> HIDE DEF points
      <3> QED BY <1>7, <2>5 DEF Named
    <2> QED BY <1>6, <2>6, <2>7 DEF series
  <1> QED BY <1>10, <1>11

-----------------------------------------------------------------------------
(* The rows a collector reads.                                               *)

LEMMA PagedRows ==
  ASSUME Data, NEW lo \in Nat, NEW hi \in Nat, lo <= hi, NEW q, NEW key \in {ById, ByNone}
  PROVE  Holds(OnBuckets(lo, hi, [w \in Parts(lo, hi) |-> Paged(Answer(w[1], w[2], lo, hi, q, key), q.s.page)]),
               AllRows(key), Odd(lo, hi, q), lo, hi)
  <1> DEFINE query == [w \in Parts(lo, hi) |-> Paged(Answer(w[1], w[2], lo, hi, q, key), q.s.page)]
             full == AllRows(key)
             odd == Odd(lo, hi, q)
  <1>1. \A w \in Parts(lo, hi) : Holds(query[w], full, odd, w[1], w[2])
    BY PagedHolds
  <1>2. \A g \in full : g.at \in Nat
    BY RowFacts
  <1> HIDE DEF query, full, odd
  <1>3. Holds(Bisect(lo, hi, Bucket, Bucket, query), full, odd, lo, hi)
    BY <1>1, <1>2, BisectHolds, BucketAssumption
  <1> QED BY <1>3 DEF OnBuckets, query, full, odd

LEMMA StrictRows ==
  ASSUME Data, NEW lo \in Nat, NEW hi \in Nat, NEW q, NEW key \in {ById, ByNone},
         NEW a \in Nat, NEW b \in Nat, a <= b, b <= hi
  PROVE  Holds(OnBuckets(a, b, [w \in Parts(a, b) |->
                 Strict(Answer(w[1], w[2], lo, hi, q, key), w[1], w[2], q.s.page)]),
               AllRows(key), Wrong(lo, hi, q), a, b)
  <1> DEFINE query == [w \in Parts(a, b) |-> Strict(Answer(w[1], w[2], lo, hi, q, key), w[1], w[2], q.s.page)]
             full == AllRows(key)
             odd == Wrong(lo, hi, q)
  <1>1. ASSUME NEW w \in Parts(a, b) PROVE Holds(query[w], full, odd, w[1], w[2])
    <2>1. w[2] \in Nat /\ w[2] <= hi
      BY DEF Parts
    <2>2. Holds(Strict(Answer(w[1], w[2], lo, hi, q, key), w[1], w[2], q.s.page), full, odd, w[1], w[2])
      BY <2>1, StrictHolds
    <2> QED BY <2>2
  <1>2. \A g \in full : g.at \in Nat
    BY RowFacts
  <1> HIDE DEF query, full, odd
  <1>3. Holds(Bisect(a, b, Bucket, Bucket, query), full, odd, a, b)
    BY <1>1, <1>2, BisectHolds, BucketAssumption
  <1> QED BY <1>3 DEF OnBuckets, query, full, odd

LEMMA SlicedRows ==
  ASSUME Data, NEW lo \in Nat, NEW hi \in Nat, NEW q, NEW key \in {ById, ByNone}, NEW span \in Nat \ {0}
  PROVE  Holds(Sliced(lo, hi, span, [v \in Parts(lo, hi) |->
                 OnBuckets(v[1], v[2], [w \in Parts(v[1], v[2]) |->
                   Strict(Answer(w[1], w[2], lo, hi, q, key), w[1], w[2], q.s.page)])]),
               AllRows(key), Wrong(lo, hi, q), lo, hi)
  <1> DEFINE slice(a, b) == OnBuckets(a, b, [w \in Parts(a, b) |->
                              Strict(Answer(w[1], w[2], lo, hi, q, key), w[1], w[2], q.s.page)])
             query == [v \in Parts(lo, hi) |-> slice(v[1], v[2])]
             full == AllRows(key)
             odd == Wrong(lo, hi, q)
  <1>1. ASSUME NEW v \in Parts(lo, hi), v[1] < v[2] PROVE Holds(query[v], full, odd, v[1], v[2])
    <2>1. v[1] \in Nat /\ v[2] \in Nat /\ v[1] <= v[2] /\ v[2] <= hi
      BY <1>1 DEF Parts
    <2>2. Holds(slice(v[1], v[2]), full, odd, v[1], v[2])
      BY <2>1, StrictRows
    <2>3. query[v] = slice(v[1], v[2])
      OBVIOUS
    <2> HIDE DEF slice, query
    <2> QED BY <2>2, <2>3
  <1>2. \A g \in full : g.at \in Nat
    BY RowFacts
  <1> HIDE DEF query, full, odd
  <1>3. Holds(Sliced(lo, hi, span, query), full, odd, lo, hi)
    BY <1>1, <1>2, SlicedHolds
  <1> QED BY <1>3 DEF query, full, odd

\* The rows of a strict query that are sound are those of its window.
LEMMA StrictSpan ==
  ASSUME NEW from, NEW to, NEW q, Ready(from, to, q), ~Empty(from, to), kind \notin Raw,
         NEW key \in {ById, ByNone}, NEW answer, answer.ok, Sound(answer.rows),
         Holds(answer, AllRows(key), Wrong(Lo(from), Hi(to), q), Lo(from), Hi(to))
  PROVE  /\ answer.rows = Span(AllRows(key), Lo(from), Hi(to)) /\ Tallied(answer.rows)
         /\ SumN(answer.rows) = SumN(Due(from, Hi(to)))
         /\ \A g \in answer.rows : g.at \in Nat /\ g.level \in Nat /\ g.id \in Nat
  <1> DEFINE rows == Span(AllRows(key), Lo(from), Hi(to))
  <1>0. Data
    BY DEF Ready
  <1>1. answer.rows = rows
    BY StrictExact
  <1>2. Tallied(rows) /\ SumN(rows) = SumN(Landed(Lo(from), Hi(to)))
    BY <1>0, SpanSum
  <1>3. Landed(Lo(from), Hi(to)) = Due(from, Hi(to))
    BY AllLanded DEF Due
  <1>4. \A g \in rows : g.at \in Nat /\ g.level \in Nat /\ g.id \in Nat
    <2>1. \A g \in AllRows(key) : g.at \in Nat /\ g.id \in Nat /\ \E r \in Visible : g.level = r.level
      BY <1>0, RowFacts
    <2>2. \A r \in Visible : r.level \in Nat
      BY <1>0, WorldFacts
    <2>3. \A g \in rows : g \in AllRows(key)
      BY DEF Span
    <2> HIDE DEF rows
    <2> QED BY <2>1, <2>2, <2>3
  <1> HIDE DEF rows
  <1> QED BY <1>1, <1>2, <1>3, <1>4 DEF rows

\* The gauges of rows from which no newer row of a resource is left out.
LEMMA LevelGauges ==
  ASSUME NEW from, NEW to, NEW q, Ready(from, to, q), ~Empty(from, to), NEW key \in {ById, ByNone},
         NEW X \in SUBSET Span(AllRows(key), Lo(from), Hi(to)),
         \A g \in X : \A h \in Span(AllRows(key), Lo(from), Hi(to)) : h.id = g.id /\ g.at <= h.at => h \in X,
         NEW series, \A g, h \in X : g.id = h.id => series[g] = series[h], NEW metric
  PROVE  /\ Gauged(Gauges(X, metric, series), from, Hi(to))
         /\ IsFiniteSet(Gauges(X, metric, series))
         /\ \A p \in Gauges(X, metric, series) : p.gauge /\ p.metric = metric
  <1> DEFINE rows == Span(AllRows(key), Lo(from), Hi(to))
  <1>0. Data
    BY DEF Ready
  <1>1. IsFiniteSet(X)
    BY <1>0, SpanSum, FS_Subset DEF Tallied
  <1>2. \A g \in X : g.at \in Nat /\ g.level \in Nat
    <2>1. \A g \in AllRows(key) : g.at \in Nat /\ \E r \in Visible : g.level = r.level
      BY <1>0, RowFacts
    <2>2. \A r \in Visible : r.level \in Nat
      BY <1>0, WorldFacts
    <2>3. \A g \in X : g \in AllRows(key)
      BY DEF Span
    <2> QED BY <2>1, <2>2, <2>3
  <1>3. Gauged(Gauges(X, metric, series), from, Hi(to))
    BY RecentGauges
  <1> QED BY <1>1, <1>2, <1>3, GaugesFacts

\* Named series first, the depth series with what is left of the cap.
LEMMA WithDepthPromise ==
  ASSUME Data, NEW from, NEW to, NEW hi, hi = EndOf(to), from < hi, NEW named, NEW depth, NEW cap,
         MainPoints(named.points, from, hi), DepthPoints(depth.points, from, hi), Few(named.admitted),
         kind \in NamedKinds => Named(named.points, named.admitted)
  PROVE  Promise(WithDepth(hi, named, depth, cap), from, to)
  <1> DEFINE A == named.points
             B == depth.points
             kept == Capped(A, cap) \cup Capped(B, cap - Cardinality(Capped(A, cap)))
  <1>1. kept \in SUBSET (A \cup B)
    BY DEF Capped
  <1>2. WithDepth(hi, named, depth, cap) = Deliver(hi, kept, (A \cup B) \ kept, named.admitted)
    BY DEF WithDepth
  <1> HIDE DEF A, B, kept
  <1>3. Promise(Deliver(hi, kept, (A \cup B) \ kept, named.admitted), from, to)
    BY <1>1, DeliverPromise DEF A, B
  <1> QED BY <1>2, <1>3

\* A window without a depth series, cut or not.
LEMMA PlainPromise ==
  ASSUME Data, NEW from, NEW to, NEW hi, hi = EndOf(to), from < hi, NEW points, MainPoints(points, from, hi),
         NEW kept \in SUBSET points, NEW names, Few(names), kind \in NamedKinds => Named(points, names)
  PROVE  Promise(Deliver(hi, kept, points \ kept, names), from, to)
  <1> DEFINE none == {}
  <1>1. DepthPoints(none, from, hi) /\ points \cup none = points
    BY NoDepth
  <1> HIDE DEF none
  <1>2. kept \in SUBSET (points \cup none)
    BY <1>1
  <1>3. Promise(Deliver(hi, kept, (points \cup none) \ kept, names), from, to)
    BY <1>1, <1>2, DeliverPromise
  <1> QED BY <1>1, <1>3

-----------------------------------------------------------------------------
(* d1, kv, queues and durableobjects.                                        *)

LEMMA D1DepthPoints ==
  ASSUME NEW from, NEW to, NEW q, Ready(from, to, q), ~Empty(from, to), kind \notin Raw,
         D1Depth(Lo(from), Hi(to), q).ok
  PROVE  DepthPoints(D1Depth(Lo(from), Hi(to), q).points, from, Hi(to))
  <1> DEFINE lo == Lo(from)
             hi == Hi(to)
             answer == D1DepthRows(lo, hi, q)
             rows == answer.rows
             series == ByAccount(rows)
  <1>0. Data
    BY DEF Ready
  <1>1. CASE "depth" \notin q.s.offered \/ q.s.fields <= 1
    <2>1. D1Depth(lo, hi, q).points = {}
      BY <1>1 DEF D1Depth, Series
    <2> QED BY <1>0, <2>1, NoDepth
  <1>2. CASE ~("depth" \notin q.s.offered \/ q.s.fields <= 1)
    <2>1. /\ answer.ok /\ Sound(rows)
          /\ D1Depth(lo, hi, q).points = Counters(rows, Depth, series) \cup Gauges(rows, DepthLevel, series)
      BY <1>2 DEF D1Depth, Series, Failed
    <2>2. Holds(answer, AllRows(ByNone), Wrong(lo, hi, q), lo, hi)
      <3>1. FloorBucket(q.s.span) # 0 /\ FloorBucket(q.s.span) \in Nat
        <4>1. q.s.span \in Nat
          BY SettingsAssumption DEF Ready, Requests
        <4> QED BY <2>1, <4>1, BucketFacts DEF D1DepthRows, QueryFailed
      <3>2. lo \in Nat /\ hi \in Nat
        BY Bounds
      <3>3. q.s.retention # 0
        BY <2>1 DEF D1DepthRows, QueryFailed
      <3> HIDE DEF lo, hi
      <3> DEFINE span == FloorBucket(q.s.span)
      <3>4. answer = Sliced(lo, hi, span, [v \in Parts(lo, hi) |->
                       OnBuckets(v[1], v[2], [w \in Parts(v[1], v[2]) |->
                         Strict(Answer(w[1], w[2], lo, hi, q, ByNone), w[1], w[2], q.s.page)])])
        BY <3>1, <3>3 DEF D1DepthRows
      <3> HIDE DEF span, answer
      <3> QED BY <1>0, <3>1, <3>2, <3>4, SlicedRows DEF span
    <2>3. /\ rows = Span(AllRows(ByNone), lo, hi) /\ Tallied(rows)
          /\ SumN(rows) = SumN(Due(from, hi))
      BY <2>1, <2>2, StrictSpan
    <2>4. \A g, h \in rows : series[g] = series[h]
      BY DEF ByAccount
    <2> HIDE DEF series, answer
    <2>5. /\ Gauged(Gauges(rows, DepthLevel, series), from, hi)
          /\ IsFiniteSet(Gauges(rows, DepthLevel, series))
          /\ \A p \in Gauges(rows, DepthLevel, series) : p.gauge /\ p.metric = DepthLevel
      BY <2>3, <2>4, LevelGauges
    <2>6. SumN(rows) <= SumN(Due(from, hi))
      BY <1>0, <2>3, DueSum
    <2>7. DepthPoints(Counters(rows, Depth, series) \cup Gauges(rows, DepthLevel, series), from, hi)
      BY <1>0, <2>3, <2>5, <2>6, DepthJoined
    <2> QED BY <2>1, <2>7
  <1> QED BY <1>1, <1>2

\* Named series of the collectors whose rows come page by page.
LEMMA PagedNamed ==
  ASSUME NEW from, NEW to, NEW q, Ready(from, to, q), ~Empty(from, to), kind \notin Raw,
         NEW isGauge \in BOOLEAN, Counted => ~isGauge, NEW key \in {ById, ByNone}, NEW answer,
         answer = OnBuckets(Lo(from), Hi(to), [w \in Parts(Lo(from), Hi(to)) |->
                    Paged(Answer(w[1], w[2], Lo(from), Hi(to), q, key), q.s.page)]),
         answer.ok, Sound(Whole(answer.rows, Lo(from), Hi(to))),
         NEW used, used = NamedRows(answer.rows, Lo(from), Hi(to), isGauge), NEW names, names = NamesOf(used, q)
  PROVE  /\ Few(names)
         /\ MainPoints(Aggregate(used, Lo(from), Hi(to), isGauge, SeriesOf(used, names, q)).points, from, Hi(to))
         /\ Named(Aggregate(used, Lo(from), Hi(to), isGauge, SeriesOf(used, names, q)).points, names)
  <1>1. Lo(from) \in Nat /\ Hi(to) \in Nat /\ Lo(from) <= Hi(to) /\ Data
    <2>1. Lo(from) \in Nat /\ Hi(to) \in Nat /\ Lo(from) < Hi(to)
      BY Bounds
    <2> QED BY <2>1 DEF Ready
  <1>2. Holds(answer, AllRows(key), Odd(Lo(from), Hi(to), q), Lo(from), Hi(to))
    BY <1>1, PagedRows
  <1> QED BY <1>2, NamedPoints

\* A window of named series with a depth series beside them.
LEMMA NamedWindow ==
  ASSUME NEW from, NEW to, NEW q, Ready(from, to, q), kind \notin Raw, NEW refused, NEW skipped, NEW named,
         NEW depth, NEW cap, NEW w,
         w = IF refused THEN Refuse(from)
             ELSE IF skipped THEN [Refuse(from) EXCEPT !.admitted = named.admitted]
             ELSE WithDepth(Hi(to), named, depth, cap),
         ~refused => /\ ~Empty(from, to) /\ Few(named.admitted)
                     /\ MainPoints(named.points, from, Hi(to)) /\ Named(named.points, named.admitted),
         ~refused /\ ~skipped => DepthPoints(depth.points, from, Hi(to))
  PROVE  Promise(w, from, to)
  <1>1. CASE refused
    <2>1. w.mark = from /\ w.admitted = admitted
      BY <1>1 DEF Refuse
    <2> QED BY <2>1, RefusePromise, FewAdmitted
  <1>2. CASE ~refused /\ skipped
    <2>1. w.mark = from /\ w.admitted = named.admitted
      BY <1>2 DEF Refuse
    <2> QED BY <1>2, <2>1, RefusePromise
  <1>3. CASE ~refused /\ ~skipped
    <2> DEFINE hi == Hi(to)
    <2>1. hi = EndOf(to) /\ from < hi /\ Data
      BY <1>3, Bounds DEF EndOf, Ready
    <2>2. w = WithDepth(hi, named, depth, cap)
      BY <1>3
    <2>3. /\ Few(named.admitted) /\ MainPoints(named.points, from, hi) /\ Named(named.points, named.admitted)
          /\ DepthPoints(depth.points, from, hi)
      BY <1>3
    <2> HIDE DEF hi
    <2> QED BY <2>1, <2>2, <2>3, WithDepthPromise
  <1> QED BY <1>1, <1>2, <1>3

LEMMA D1Promise ==
  ASSUME NEW from, NEW to, NEW q, Ready(from, to, q), kind \notin Raw, NEW isGauge \in BOOLEAN, Counted => ~isGauge
  PROVE  Promise(D1Window(from, to, isGauge, q), from, to)
  <1> DEFINE lo == Lo(from)
             hi == Hi(to)
             rows == D1Rows(lo, hi, q)
             named == D1Named(rows.rows, lo, hi, isGauge, q)
             depth == IF isGauge THEN Series({}) ELSE D1Depth(lo, hi, q)
             refused == Empty(from, to) \/ q.s.page = 0 \/ ~Entitled(q.s, {"value", "bucket"})
                          \/ ~rows.ok \/ ~named.ok
             skipped == ~depth.ok \/ SeriesCap = 0
             w == D1Window(from, to, isGauge, q)
  <1>1. w = IF refused THEN Refuse(from)
            ELSE IF skipped THEN [Refuse(from) EXCEPT !.admitted = named.admitted]
            ELSE WithDepth(hi, named, depth, SeriesCap)
    BY DEF D1Window
  <1>2. ASSUME ~refused
        PROVE  /\ ~Empty(from, to) /\ Few(named.admitted)
               /\ MainPoints(named.points, from, hi) /\ Named(named.points, named.admitted)
    <2> DEFINE used == NamedRows(rows.rows, lo, hi, isGauge)
               names == NamesOf(used, q)
    <2>1. /\ named.ok = Sound(Whole(rows.rows, lo, hi)) /\ named.admitted = names
          /\ named.points = Aggregate(used, lo, hi, isGauge, SeriesOf(used, names, q)).points
      BY DEF D1Named, D1Aggregate, Aggregate
    <2>2. PICK key \in {ById, ByNone} :
            rows = OnBuckets(lo, hi, [v \in Parts(lo, hi) |-> Paged(Answer(v[1], v[2], lo, hi, q, key), q.s.page)])
      BY KeyedFacts DEF D1Rows
    <2>3. ~Empty(from, to) /\ rows.ok /\ named.ok
      BY <1>2
    <2> HIDE DEF rows, named, used, names, refused
    <2> QED BY <2>1, <2>2, <2>3, PagedNamed DEF used, names
  <1>3. ASSUME ~refused, ~skipped PROVE DepthPoints(depth.points, from, hi)
    <2>1. CASE isGauge
      <3>1. depth.points = {} /\ Data
        BY <2>1 DEF Series, Ready
      <3> HIDE DEF depth
      <3> QED BY <3>1, NoDepth
    <2>2. CASE ~isGauge
      <3>1. depth = D1Depth(lo, hi, q) /\ depth.ok /\ ~Empty(from, to)
        BY <1>3, <2>2
      <3> HIDE DEF depth
      <3> QED BY <3>1, D1DepthPoints
    <2> QED BY <2>1, <2>2
  <1> HIDE DEF named, depth, w, refused, skipped
  <1>4. Promise(w, from, to)
    BY <1>1, <1>2, <1>3, NamedWindow
  <1> QED BY <1>4 DEF w

LEMMA KVPromise ==
  ASSUME NEW from, NEW to, NEW q, Ready(from, to, q), kind \notin Raw, NEW isGauge \in BOOLEAN, Counted => ~isGauge
  PROVE  Promise(KVWindow(from, to, isGauge, q), from, to)
  <1> DEFINE lo == Lo(from)
             hi == Hi(to)
             rows == KVRows(lo, hi, q)
             named == KVNamed(rows.rows, lo, hi, isGauge, q)
             kept == Capped(named.points, SeriesCap)
             refused == Empty(from, to) \/ q.s.page = 0 \/ ~Entitled(q.s, {"value", "bucket"})
                          \/ ~rows.ok \/ ~named.ok
             w == KVWindow(from, to, isGauge, q)
  <1>1. w = IF refused THEN Refuse(from)
            ELSE IF SeriesCap = 0 THEN [Refuse(from) EXCEPT !.admitted = named.admitted]
            ELSE Deliver(hi, kept, named.points \ kept, named.admitted)
    BY DEF KVWindow
  <1>2. ASSUME ~refused
        PROVE  /\ ~Empty(from, to) /\ Few(named.admitted)
               /\ MainPoints(named.points, from, hi) /\ Named(named.points, named.admitted)
    <2> DEFINE used == NamedRows(rows.rows, lo, hi, isGauge)
               names == NamesOf(used, q)
    <2>1. /\ named.ok = Sound(Whole(rows.rows, lo, hi)) /\ named.admitted = names
          /\ named.points = Aggregate(used, lo, hi, isGauge, SeriesOf(used, names, q)).points
      BY DEF KVNamed, KVAggregate, Aggregate
    <2>2. PICK key \in {ById, ByNone} :
            rows = OnBuckets(lo, hi, [v \in Parts(lo, hi) |-> Paged(Answer(v[1], v[2], lo, hi, q, key), q.s.page)])
      BY KeyedFacts DEF KVRows
    <2>3. ~Empty(from, to) /\ rows.ok /\ named.ok
      BY <1>2
    <2> HIDE DEF rows, named, used, names, refused
    <2> QED BY <2>1, <2>2, <2>3, PagedNamed DEF used, names
  <1>3. kept \in SUBSET named.points
    BY DEF Capped
  <1> HIDE DEF named, kept, w, refused
  <1>4. CASE refused
    <2>1. w.mark = from /\ w.admitted = admitted
      BY <1>1, <1>4 DEF Refuse
    <2>2. Promise(w, from, to)
      BY <2>1, RefusePromise, FewAdmitted
    <2> QED BY <2>2 DEF w
  <1>5. CASE ~refused /\ SeriesCap = 0
    <2>1. w.mark = from /\ w.admitted = named.admitted
      BY <1>1, <1>5 DEF Refuse
    <2>2. Promise(w, from, to)
      BY <1>2, <1>5, <2>1, RefusePromise
    <2> QED BY <2>2 DEF w
  <1>6. CASE ~refused /\ SeriesCap # 0
    <2>1. hi = EndOf(to) /\ from < hi /\ Data
      BY <1>2, <1>6, Bounds DEF EndOf, Ready
    <2>2. w = Deliver(hi, kept, named.points \ kept, named.admitted)
      BY <1>1, <1>6
    <2> DEFINE points == named.points
               names == named.admitted
    <2>3. Few(names) /\ MainPoints(points, from, hi) /\ Named(points, names) /\ kept \in SUBSET points
      BY <1>2, <1>3, <1>6
    <2> HIDE DEF hi, points, names
    <2>4. Promise(Deliver(hi, kept, points \ kept, names), from, to)
      BY <2>1, <2>3, PlainPromise
    <2> QED BY <2>2, <2>4 DEF w, points, names
  <1> QED BY <1>4, <1>5, <1>6

LEMMA InSlices ==
  ASSUME NEW from, NEW to, NEW q, Ready(from, to, q), ~Empty(from, to), NEW key \in {ById, ByNone},
         FloorBucket(q.s.span) # 0, NEW lo, lo = Lo(from), NEW hi, hi = Hi(to)
  PROVE  Holds(Sliced(lo, hi, FloorBucket(q.s.span), [v \in Parts(lo, hi) |->
                 OnBuckets(v[1], v[2], [w \in Parts(v[1], v[2]) |->
                   Strict(Answer(w[1], w[2], lo, hi, q, key), w[1], w[2], q.s.page)])]),
               AllRows(key), Wrong(lo, hi, q), lo, hi)
  <1> DEFINE span == FloorBucket(q.s.span)
  <1>1. span \in Nat \ {0}
    <2>1. q.s.span \in Nat
      BY SettingsAssumption DEF Ready, Requests
    <2> QED BY <2>1, BucketFacts
  <1>2. lo \in Nat /\ hi \in Nat
    BY Bounds
  <1>3. Data
    BY DEF Ready
  <1> HIDE DEF span
  <1>4. Holds(Sliced(lo, hi, span, [v \in Parts(lo, hi) |->
                OnBuckets(v[1], v[2], [w \in Parts(v[1], v[2]) |->
                  Strict(Answer(w[1], w[2], lo, hi, q, key), w[1], w[2], q.s.page)])]),
              AllRows(key), Wrong(lo, hi, q), lo, hi)
    BY <1>1, <1>2, <1>3, SlicedRows
  <1> QED BY <1>4 DEF span

LEMMA DODepthPoints ==
  ASSUME NEW from, NEW to, NEW q, Ready(from, to, q), ~Empty(from, to), kind \notin Raw,
         DODepth(Lo(from), Hi(to), q).ok
  PROVE  DepthPoints(DODepth(Lo(from), Hi(to), q).points, from, Hi(to))
  <1> DEFINE lo == Lo(from)
             hi == Hi(to)
             answer == DODepthRows(lo, hi, q)
             rows == answer.rows
             scripts == {r \in rows : r.id # Blank}
             script == [r \in scripts |-> r.id]
             none == ~({"depth", "resource"} \subseteq q.s.offered) \/ q.s.fields <= 2
  <1>0. Data
    BY DEF Ready
  <1>1. CASE none
    <2>1. DODepth(lo, hi, q).points = {}
      BY <1>1 DEF DODepth, Series
    <2> QED BY <1>0, <2>1, NoDepth
  <1>2. CASE ~none
    <2>1. /\ answer.ok /\ Sound(rows)
          /\ DODepth(lo, hi, q).points = Counters(scripts, Depth, script) \cup Gauges(scripts, DepthLevel, script)
      BY <1>2 DEF DODepth, Series, Failed
    <2>2. Holds(answer, AllRows(ById), Wrong(lo, hi, q), lo, hi)
      <3>1. FloorBucket(q.s.span) # 0
        BY <2>1 DEF DODepthRows, QueryFailed
      <3>2. answer = Sliced(lo, hi, FloorBucket(q.s.span), [v \in Parts(lo, hi) |->
                       OnBuckets(v[1], v[2], [w \in Parts(v[1], v[2]) |->
                         Strict(Answer(w[1], w[2], lo, hi, q, ById), w[1], w[2], q.s.page)])])
        BY <3>1 DEF DODepthRows
      <3> HIDE DEF answer
      <3> QED BY <3>1, <3>2, InSlices
    <2> HIDE DEF answer
    <2>3. /\ rows = Span(AllRows(ById), lo, hi) /\ Tallied(rows)
          /\ SumN(rows) = SumN(Due(from, hi))
      BY <2>1, <2>2, StrictSpan
    <2>4. \A g, h \in scripts : g.id = h.id => script[g] = script[h]
      OBVIOUS
    <2>5. /\ scripts \in SUBSET Span(AllRows(ById), lo, hi)
          /\ \A g \in scripts : \A h \in Span(AllRows(ById), lo, hi) : h.id = g.id /\ g.at <= h.at => h \in scripts
      BY <2>3
    <2>6. Tallied(scripts) /\ SumN(scripts) <= SumN(rows) /\ SumN(scripts) \in Nat
      <3>1. scripts \in SUBSET rows
        OBVIOUS
      <3> HIDE DEF scripts, rows
      <3> QED BY <2>3, <3>1, SumFacts
    <2> HIDE DEF scripts, script, rows
    <2>7. /\ Gauged(Gauges(scripts, DepthLevel, script), from, hi)
          /\ IsFiniteSet(Gauges(scripts, DepthLevel, script))
          /\ \A p \in Gauges(scripts, DepthLevel, script) : p.gauge /\ p.metric = DepthLevel
      BY ONLY <2>4, <2>5, Ready(from, to, q), ~Empty(from, to), LevelGauges
    <2>8. SumN(scripts) <= SumN(Due(from, hi))
      BY <2>3, <2>6
    <2>9. DepthPoints(Counters(scripts, Depth, script) \cup Gauges(scripts, DepthLevel, script), from, hi)
      BY <1>0, <2>6, <2>7, <2>8, DepthJoined
    <2> QED BY <2>1, <2>9
  <1> QED BY <1>1, <1>2

LEMMA DOPromise ==
  ASSUME NEW from, NEW to, NEW q, Ready(from, to, q), kind \notin Raw, NEW isGauge \in BOOLEAN, Counted => ~isGauge
  PROVE  Promise(DOWindow(from, to, isGauge, q), from, to)
  <1> DEFINE lo == Lo(from)
             hi == Hi(to)
             rows == DORows(lo, hi, q)
             named == DONamed(rows.rows, lo, hi, isGauge, q)
             depth == IF isGauge THEN Series({}) ELSE DODepth(lo, hi, q)
             refused == SeriesCap = 0 \/ Empty(from, to) \/ ~Limited(q.s) \/ ~Entitled(q.s, {"value", "bucket"})
                          \/ ~rows.ok \/ ~named.ok
             skipped == ~depth.ok
             w == DOWindow(from, to, isGauge, q)
  <1>1. w = IF refused THEN Refuse(from)
            ELSE IF skipped THEN [Refuse(from) EXCEPT !.admitted = named.admitted]
            ELSE WithDepth(hi, named, depth, SeriesCap)
    BY DEF DOWindow
  <1>2. ASSUME ~refused
        PROVE  /\ ~Empty(from, to) /\ Few(named.admitted)
               /\ MainPoints(named.points, from, hi) /\ Named(named.points, named.admitted)
    <2> DEFINE used == NamedRows(rows.rows, lo, hi, isGauge)
               names == NamesOf(used, q)
    <2>1. /\ named.ok = Sound(Whole(rows.rows, lo, hi)) /\ named.admitted = names
          /\ named.points = Aggregate(used, lo, hi, isGauge, SeriesOf(used, names, q)).points
      BY DEF DONamed, DOAggregate, Aggregate
    <2>2. PICK key \in {ById, ByNone} :
            rows = OnBuckets(lo, hi, [v \in Parts(lo, hi) |-> Paged(Answer(v[1], v[2], lo, hi, q, key), q.s.page)])
      BY KeyedFacts DEF DORows
    <2>3. ~Empty(from, to) /\ rows.ok /\ named.ok
      BY <1>2
    <2> HIDE DEF rows, named, used, names, refused
    <2> QED BY <2>1, <2>2, <2>3, PagedNamed DEF used, names
  <1>3. ASSUME ~refused, ~skipped PROVE DepthPoints(depth.points, from, hi)
    <2>1. CASE isGauge
      <3>1. depth.points = {} /\ Data
        BY <2>1 DEF Series, Ready
      <3> HIDE DEF depth
      <3> QED BY <3>1, NoDepth
    <2>2. CASE ~isGauge
      <3>1. depth = DODepth(lo, hi, q) /\ depth.ok /\ ~Empty(from, to)
        BY <1>3, <2>2
      <3> HIDE DEF depth
      <3> QED BY <3>1, DODepthPoints
    <2> QED BY <2>1, <2>2
  <1> HIDE DEF named, depth, w, refused, skipped
  <1>4. Promise(w, from, to)
    BY <1>1, <1>2, <1>3, NamedWindow
  <1> QED BY <1>4 DEF w

\* Averages of the newest bucket's queues.
LEMMA NewestSound ==
  ASSUME NEW from, NEW to, NEW q, Ready(from, to, q), ~Empty(from, to), NEW key \in {ById, ByNone},
         NEW answer, answer.ok, Holds(answer, AllRows(key), Wrong(Lo(from), Hi(to), q), Lo(from), Hi(to)),
         NEW X, X = NewestOf(answer.rows), Sound(X)
  PROVE  /\ X \in SUBSET Span(AllRows(key), Lo(from), Hi(to))
         /\ \A g \in X : \A h \in Span(AllRows(key), Lo(from), Hi(to)) : h.id = g.id /\ g.at <= h.at => h \in X
  <1> DEFINE lo == Lo(from)
             hi == Hi(to)
             full == Span(AllRows(key), lo, hi)
             odd == Wrong(lo, hi, q)
             rows == answer.rows
  <1>0. Data
    BY DEF Ready
  <1>1. full \subseteq rows /\ rows \subseteq full \cup odd
    BY DEF Holds
  <1>2. \A g \in full : g.at \in Nat
    <2>1. \A g \in AllRows(key) : g.at \in Nat
      BY <1>0, RowFacts
    <2> QED BY <2>1 DEF Span
  <1>3. \A g \in odd : g.at \in Nat /\ ~g.valid
    <2>1. lo \in Nat /\ hi \in Nat
      BY Bounds
    <2>2. \A g \in Odd(lo, hi, q) : g.at \in Nat
      BY <2>1, OddFacts
    <2> QED BY <2>2 DEF Wrong
  <1> HIDE DEF full, odd, rows
  <1>4. \A g \in X : g \in rows /\ g.valid /\ \A o \in rows : o.at <= g.at
    BY DEF Sound, NewestOf, rows
  <1>5. X \in SUBSET full
    BY <1>1, <1>3, <1>4
  <1>6. ASSUME NEW g \in X, NEW h \in full, g.at <= h.at PROVE h \in X
    <2>1. \A o \in rows : o.at <= h.at
      <3> TAKE o \in rows
      <3>1. o.at <= g.at /\ o.at \in Nat /\ g.at \in Nat /\ h.at \in Nat
        BY <1>1, <1>2, <1>3, <1>4
      <3> QED BY <1>6, <3>1
    <2> QED BY <1>1, <2>1 DEF NewestOf, rows
  <1> QED BY <1>5, <1>6 DEF full

LEMMA QueueDepthPoints ==
  ASSUME NEW from, NEW to, NEW q, Ready(from, to, q), ~Empty(from, to), kind \notin Raw,
         QueueDepth(Lo(from), Hi(to), q).ok
  PROVE  DepthPoints(QueueDepth(Lo(from), Hi(to), q).points, from, Hi(to))
  <1> DEFINE lo == Lo(from)
             hi == Hi(to)
             averages == {"depth", "resource"} \subseteq q.s.offered /\ q.s.fields > 2
             billable == "actions" \in q.s.offered /\ q.s.fields >= 5
             lag == IF averages THEN QueueDepthRows(lo, hi, q, ById) ELSE Rows({})
             bill == IF billable THEN QueueDepthRows(lo, hi, q, ByNone) ELSE Rows({})
             X == NewestOf(lag.rows)
             total1 == ByAccount(lag.rows)
             total2 == ByAccount(bill.rows)
             G == Gauges(X, DepthLevel, total1)
             C == Counters(bill.rows, Depth, total2)
  <1>0. Data
    BY DEF Ready
  <1>1. /\ lag.ok /\ Sound(X) /\ bill.ok /\ Sound(bill.rows)
        /\ QueueDepth(lo, hi, q).points = G \cup C
    BY DEF QueueDepth, Series, Failed
  <1>2. ASSUME NEW key \in {ById, ByNone}, QueueDepthRows(lo, hi, q, key).ok
        PROVE  Holds(QueueDepthRows(lo, hi, q, key), AllRows(key), Wrong(lo, hi, q), lo, hi)
    <2> DEFINE answer == QueueDepthRows(lo, hi, q, key)
    <2>1. FloorBucket(q.s.span) # 0
      BY <1>2 DEF QueueDepthRows, QueryFailed
    <2>2. answer = Sliced(lo, hi, FloorBucket(q.s.span), [v \in Parts(lo, hi) |->
                     OnBuckets(v[1], v[2], [w \in Parts(v[1], v[2]) |->
                       Strict(Answer(w[1], w[2], lo, hi, q, key), w[1], w[2], q.s.page)])])
      BY <2>1 DEF QueueDepthRows
    <2> HIDE DEF answer
    <2>3. Holds(answer, AllRows(key), Wrong(lo, hi, q), lo, hi)
      BY <2>1, <2>2, InSlices
    <2> QED BY <2>3 DEF answer
  <1>3. Gauged(G, from, hi) /\ IsFiniteSet(G) /\ \A p \in G : p.gauge /\ p.metric = DepthLevel
    <2>1. \A g, h \in X : total1[g] = total1[h]
      BY DEF ByAccount, NewestOf
    <2>2. CASE averages
      <3>1. lag = QueueDepthRows(lo, hi, q, ById)
        BY <2>2
      <3> HIDE DEF lag, averages
      <3>2. Holds(lag, AllRows(ById), Wrong(lo, hi, q), lo, hi)
        BY <1>1, <1>2, <3>1
      <3>3. /\ X \in SUBSET Span(AllRows(ById), lo, hi)
            /\ \A g \in X : \A h \in Span(AllRows(ById), lo, hi) : h.id = g.id /\ g.at <= h.at => h \in X
        BY <1>1, <3>2, NewestSound
      <3> HIDE DEF X, total1
      <3>4. \A g, h \in X : g.id = h.id => total1[g] = total1[h]
        BY <2>1
      <3> QED BY ONLY <3>3, <3>4, Ready(from, to, q), ~Empty(from, to), LevelGauges DEF G
    <2>3. CASE ~averages
      <3>1. X = {}
        BY <2>3 DEF NewestOf, Rows
      <3> HIDE DEF X, total1
      <3>2. X \in SUBSET Span(AllRows(ById), lo, hi) /\ \A g \in X : FALSE
        BY <3>1
      <3>3. \A g \in X : \A h \in Span(AllRows(ById), lo, hi) : h.id = g.id /\ g.at <= h.at => h \in X
        BY <3>2
      <3> QED BY <2>1, <3>2, <3>3, LevelGauges
    <2> QED BY <2>2, <2>3
  <1>4. Tallied(bill.rows) /\ SumN(bill.rows) <= SumN(Due(from, hi))
    <2>1. CASE billable
      <3>1. bill = QueueDepthRows(lo, hi, q, ByNone)
        BY <2>1
      <3> HIDE DEF bill, billable
      <3>2. Holds(bill, AllRows(ByNone), Wrong(lo, hi, q), lo, hi)
        BY <1>1, <1>2, <3>1
      <3>3. Tallied(bill.rows) /\ SumN(bill.rows) = SumN(Due(from, hi))
        BY <1>1, <3>2, StrictSpan
      <3> QED BY <1>0, <3>3, DueSum
    <2>2. CASE ~billable
      <3> DEFINE none == {}
      <3>1. bill.rows = none
        BY <2>2 DEF Rows
      <3>2. Tallied(none)
        BY FS_EmptySet DEF Tallied
      <3>3. SumN(none) = 0
        BY TotalEmpty DEF SumN
      <3> HIDE DEF none, bill
      <3> QED BY <1>0, <3>1, <3>2, <3>3, DueSum
    <2> QED BY <2>1, <2>2
  <1>5. G \cup C = C \cup G
    OBVIOUS
  <1> HIDE DEF G, bill, total2
  <1>6. DepthPoints(C \cup G, from, hi)
    BY <1>0, <1>3, <1>4, DepthJoined
  <1> HIDE DEF C
  <1> QED BY <1>1, <1>5, <1>6

LEMMA QueuePromise ==
  ASSUME NEW from, NEW to, NEW q, Ready(from, to, q), kind \notin Raw, NEW isGauge \in BOOLEAN, Counted => ~isGauge
  PROVE  Promise(QueueWindow(from, to, isGauge, q), from, to)
  <1> DEFINE lo == Lo(from)
             hi == Hi(to)
             plan == QueuePlan(q.s, isGauge)
             rows == QueueRows(lo, hi, plan.fields, q)
             named == QueueNamed(rows.rows, lo, hi, isGauge, q)
             depth == IF isGauge THEN Series({}) ELSE QueueDepth(lo, hi, q)
             refused == Empty(from, to) \/ ~plan.ok \/ ~rows.ok \/ ~named.ok
             skipped == ~depth.ok
             cap == IF SeriesCap = 0 THEN DefaultCap ELSE SeriesCap
             w == QueueWindow(from, to, isGauge, q)
  <1>0. Data
    BY DEF Ready
  <1>1. w = IF refused THEN Refuse(from)
            ELSE IF skipped THEN [Refuse(from) EXCEPT !.admitted = named.admitted]
            ELSE WithDepth(hi, named, depth, cap)
    BY DEF QueueWindow
  <1>2. ASSUME ~refused
        PROVE  /\ ~Empty(from, to) /\ Few(named.admitted)
               /\ MainPoints(named.points, from, hi) /\ Named(named.points, named.admitted)
    <2> DEFINE used == NamedRows(rows.rows, lo, hi, isGauge)
               names == NamesOf(used, q)
    <2>1. /\ named.ok => Sound(Whole(rows.rows, lo, hi))
          /\ named.admitted = names
          /\ named.points = Aggregate(used, lo, hi, isGauge, SeriesOf(used, names, q)).points
      BY DEF QueueNamed, QueueAggregate, Aggregate
    <2>2. PICK key \in {ById, ByNone} :
            rows = OnBuckets(lo, hi, [v \in Parts(lo, hi) |->
                     Strict(Answer(v[1], v[2], lo, hi, q, key), v[1], v[2], q.s.page)])
      BY KeyedFacts DEF QueueRows
    <2>3. ~Empty(from, to) /\ rows.ok /\ Sound(Whole(rows.rows, lo, hi))
      BY <1>2, <2>1
    <2>4. lo \in Nat /\ hi \in Nat /\ lo <= hi
      <3>1. lo \in Nat /\ hi \in Nat /\ lo < hi
        BY <2>3, Bounds
      <3> HIDE DEF lo, hi
      <3> QED BY <3>1
    <2> HIDE DEF rows, named, used, names, refused, plan
    <2>5. Holds(rows, AllRows(key), Wrong(lo, hi, q), lo, hi)
      <3> HIDE DEF lo, hi
      <3>1. hi <= hi
        BY <2>4
      <3> QED BY <1>0, <2>2, <2>4, <3>1, StrictRows
    <2>6. Holds(rows, AllRows(key), Odd(lo, hi, q), lo, hi)
      BY <2>3, <2>5, StrictExact
    <2> QED BY <2>1, <2>3, <2>6, NamedPoints DEF used, names
  <1>3. ASSUME ~refused, ~skipped PROVE DepthPoints(depth.points, from, hi)
    <2>1. CASE isGauge
      <3>1. depth.points = {}
        BY <2>1 DEF Series
      <3> HIDE DEF depth
      <3> QED BY <1>0, <3>1, NoDepth
    <2>2. CASE ~isGauge
      <3>1. depth = QueueDepth(lo, hi, q) /\ depth.ok /\ ~Empty(from, to)
        BY <1>3, <2>2
      <3> HIDE DEF depth
      <3> QED BY <3>1, QueueDepthPoints
    <2> QED BY <2>1, <2>2
  <1> HIDE DEF named, depth, w, refused, skipped, cap
  <1>4. Promise(w, from, to)
    BY <1>1, <1>2, <1>3, NamedWindow
  <1> QED BY <1>4 DEF w

-----------------------------------------------------------------------------
(* r2, workersai, workers and turnstile.                                     *)

LEMMA R2Leaf ==
  ASSUME NEW lo \in Nat, NEW hi \in Nat, NEW q, NEW key, NEW a, NEW b \in Nat, b <= hi, NEW page, NEW rows,
         rows = Answer(a, b, lo, hi, q, key)
  PROVE  Holds(IF Cardinality(rows) >= page THEN Saturated
               ELSE IF \A r \in rows : a <= r.at /\ r.at < b THEN Rows(rows) ELSE QueryFailed,
               AllRows(key), Wrong(lo, hi, q), a, b)
  <1>1. /\ Oddities(a, b, lo, hi, q) \subseteq Odd(lo, hi, q)
        /\ \A g \in Odd(lo, hi, q) : g.at \in Nat /\ (g.at = hi \/ ~g.valid)
    BY OddFacts
  <1>2. rows = Span(AllRows(key), a, b) \cup Oddities(a, b, lo, hi, q)
    BY GroupsAre DEF Answer
  <1>3. ASSUME \A r \in rows : a <= r.at /\ r.at < b PROVE rows \subseteq Span(AllRows(key), a, b) \cup Wrong(lo, hi, q)
    <2>1. \A g \in Odd(lo, hi, q) : g.at < b => ~g.valid
      BY <1>1
    <2> QED BY <1>1, <1>2, <1>3, <2>1 DEF Wrong
  <1> QED BY <1>2, <1>3 DEF Holds, Rows, Saturated, QueryFailed

LEMMA R2RowsHold ==
  ASSUME Data, NEW lo \in Nat, NEW hi \in Nat, lo <= hi, NEW fields, NEW q
  PROVE  \E key \in {ById, ByNone} : Holds(R2Rows(lo, hi, fields, q), AllRows(key), Wrong(lo, hi, q), lo, hi)
  <1> DEFINE key == Keyed(fields)
             leaf(w) == LET rows == Answer(w[1], w[2], lo, hi, q, key)
                        IN  IF Cardinality(rows) >= q.s.page THEN Saturated
                            ELSE IF \A r \in rows : w[1] <= r.at /\ r.at < w[2] THEN Rows(rows) ELSE QueryFailed
             query == [w \in Parts(lo, hi) |-> leaf(w)]
             full == AllRows(key)
             odd == Wrong(lo, hi, q)
  <1>1. ASSUME NEW w \in Parts(lo, hi) PROVE Holds(query[w], full, odd, w[1], w[2])
    <2>1. w[2] \in Nat /\ w[2] <= hi
      BY DEF Parts
    <2> DEFINE rows == Answer(w[1], w[2], lo, hi, q, key)
               answer == IF Cardinality(rows) >= q.s.page THEN Saturated
                         ELSE IF \A r \in rows : w[1] <= r.at /\ r.at < w[2] THEN Rows(rows) ELSE QueryFailed
    <2>2. query[w] = answer
      OBVIOUS
    <2>3. Holds(answer, full, odd, w[1], w[2])
      BY <2>1, R2Leaf
    <2> QED BY <2>2, <2>3
  <1>2. key \in {ById, ByNone}
    BY KeyedFacts
  <1>3. \A g \in full : g.at \in Nat
    <2> HIDE DEF key
    <2> QED BY <1>2, RowFacts
  <1>4. R2Rows(lo, hi, fields, q) = Bisect(lo, hi, Bucket, Bucket, query)
    BY DEF R2Rows, OnBuckets
  <1> HIDE DEF query, full, odd
  <1>5. Holds(Bisect(lo, hi, Bucket, Bucket, query), full, odd, lo, hi)
    BY <1>1, <1>3, BisectHolds, BucketAssumption
  <1> QED BY <1>2, <1>4, <1>5 DEF full, odd

\* Merging the resources beyond the cap keeps the sum of counters; a merged
\* gauge is one of those it stands for.
LEMMA CapPoints ==
  ASSUME NEW from, NEW to, NEW q, Ready(from, to, q), NEW hi, NEW P, MainPoints(P, from, hi),
         \A p \in P : p.name \in Nat, NEW isGauge \in BOOLEAN, Counted => ~isGauge,
         \A p \in P : (p.gauge <=> isGauge) /\ p.value \in Nat
  PROVE  /\ Few(R2Cap(P).admitted) /\ MainPoints(R2Cap(P).points, from, hi)
         /\ Named(R2Cap(P).points, R2Cap(P).admitted)
  <1> DEFINE names == Admit({p.name : p \in P})
             series(p) == IF p.name \in names THEN p.name ELSE Other
             value(ps) == IF \E p \in ps : p.gauge THEN Max({p.value : p \in ps})
                          ELSE Total(ps, [p \in ps |-> p.value])
             merged(name) == {p \in P : series(p) = name}
             c == [p \in P |-> series(p)]
             K == {c[p] : p \in P}
             h == [name \in K |-> Point(Main, name, \E p \in merged(name) : p.gauge, value(merged(name)),
                                        Max({p.at : p \in merged(name)}))]
             C == {h[k] : k \in K}
             class == ClassBy(P, c)
  <1>0. Data /\ IsFiniteSet(P) /\ Countable(P) /\ Gauged(P, from, hi) /\ (Counted => Sums(P, Main) = SumN(Due(from, hi)))
        /\ \A p \in P : p.metric = Main
    BY DEF Ready, MainPoints, Countable
  <1>1. R2Cap(P) = [admitted |-> names, points |-> C]
    <2>1. K = {series(p) : p \in P}
      OBVIOUS
    <2>2. C = {Point(Main, name, \E p \in merged(name) : p.gauge, value(merged(name)),
                     Max({p.at : p \in merged(name)})) : name \in K}
      OBVIOUS
    <2> HIDE DEF C, K, c
    <2> QED BY <2>1, <2>2 DEF R2Cap
  <1>2. Few(names)
    <2> DEFINE g == [p \in P |-> p.name]
               found == {g[p] : p \in P}
    <2>1. found = {p.name : p \in P} /\ found \in SUBSET Nat
      OBVIOUS
    <2>2. IsFiniteSet(found)
      <3> HIDE DEF g
      <3> QED BY <1>0, FiniteValues
    <2> HIDE DEF found
    <2>3. Few(Admit(found))
      BY <2>1, <2>2, AdmitFacts
    <2> QED BY <2>1, <2>3
  <1> HIDE DEF names
  <1>3. \A k \in K : /\ h[k].metric = Main /\ h[k].name = k /\ h[k].gauge = (\E p \in merged(k) : p.gauge)
                     /\ h[k].value = value(merged(k))
    BY DEF Point
  <1>4. \A k \in K : merged(k) # {} /\ merged(k) \in SUBSET P /\ (k = Other \/ k \in names)
    OBVIOUS
  <1>5. \A k \in K : h[k].gauge = isGauge
    BY <1>3, <1>4
  <1>6. Classes(P, K, class) /\ \A k \in K : class[k] = {p \in P : c[p] = k}
    <2> HIDE DEF c
    <2> QED BY <1>0, ClassesBy
  <1>7. \A k \in K : class[k] = merged(k)
    BY <1>6
  <1>8. IsFiniteSet(C)
    <2>1. IsFiniteSet(K)
      BY <1>6 DEF Classes
    <2> HIDE DEF h, K
    <2> QED BY <2>1, FiniteValues
  <1>9. \A p \in C : \E k \in K : p = h[k]
    OBVIOUS
  <1>10. \A p \in C : /\ p.metric = Main /\ p.gauge = isGauge /\ (p.name = Other \/ p.name \in names)
    <2> SUFFICES ASSUME NEW p \in C
                 PROVE  p.metric = Main /\ p.gauge = isGauge /\ (p.name = Other \/ p.name \in names)
      OBVIOUS
    <2> HIDE DEF h, K, C, c, merged, value, series, class
    <2>1. PICK k \in K : p = h[k]
      BY <1>9
    <2> QED BY <1>3, <1>4, <1>5, <2>1
  <1> HIDE DEF h, K, C, c, merged, value, series, class
  <1>13. Named(C, names)
    BY <1>10 DEF Named
  <1>11. CASE ~isGauge
    <2> DEFINE f == Values(P)
               v == Values(C)
    <2>1. Counts(P, f)
      BY DEF Counts, Values
    <2>2. \A k \in K : h[k].value = Total(class[k], f)
      <3> SUFFICES ASSUME NEW k \in K PROVE h[k].value = Total(class[k], f)
        OBVIOUS
      <3> DEFINE ps == merged(k)
      <3>1. ps \in SUBSET P /\ \A p \in ps : ~p.gauge
        BY <1>4, <1>11
      <3>2. IsFiniteSet(ps)
        BY <1>0, <3>1, FS_Subset
      <3>3. Counts(ps, Values(ps)) /\ \A p \in ps : Values(ps)[p] = f[p]
        BY <3>1 DEF Counts, Values
      <3> HIDE DEF f, ps
      <3>4. Total(ps, Values(ps)) = Total(ps, f)
        BY <3>2, <3>3, TotalSame
      <3>5. value(ps) = Total(ps, Values(ps))
        BY <3>1 DEF value, Values
      <3> QED BY <1>3, <1>7, <3>4, <3>5 DEF ps
    <2>3. \A k \in K : h[k] \in C /\ v[h[k]] = h[k].value
      BY DEF C, Values
    <2>4. \A j, k \in K : h[j] = h[k] => j = k
      BY <1>3
    <2> HIDE DEF f, v
    <2>5. \A k \in K : v[h[k]] = Total(class[k], f)
      BY <2>2, <2>3
    <2>6. /\ IsFiniteSet({h[k] : k \in K}) /\ Counts({h[k] : k \in K}, v)
          /\ Total({h[k] : k \in K}, v) = Total(P, f)
      BY ONLY <1>0, <1>6, <2>1, <2>4, <2>5, TotalGrouped
    <2>7. Counts(C, v) /\ Total(C, v) = Total(P, f)
      BY <2>6 DEF C
    <2>8. \A p \in C : ~p.gauge /\ p.metric = Main /\ p.value \in Nat
      <3>1. \A p \in C : p.value \in Nat
        BY <2>7 DEF Counts, v, Values
      <3> QED BY <1>10, <1>11, <3>1
    <2>9. \A p, r \in C : p.name = r.name => p = r
      <3> SUFFICES ASSUME NEW p \in C, NEW r \in C, p.name = r.name PROVE p = r
        OBVIOUS
      <3>1. PICK j \in K : p = h[j]
        BY <1>9
      <3>2. PICK k \in K : r = h[k]
        BY <1>9
      <3>3. p.name = j /\ r.name = k
        BY <1>3, <3>1, <3>2
      <3> QED BY <3>1, <3>2, <3>3
    <2>10. Countable(C) /\ Tally(C, Main) = C /\ Gauged(C, from, hi)
      BY <1>8, <2>8, <2>9 DEF Countable, Tally, Gauged
    <2>11. Sums(C, Main) = Total(C, v)
      BY <2>10, SumsOfValues DEF v
    <2>12. Sums(P, Main) = Total(P, f)
      <3>1. Tally(P, Main) = P
        BY <1>0, <1>11 DEF Tally
      <3> QED BY <1>0, <3>1, SumsOfValues DEF f
    <2>13. MainPoints(C, from, hi)
      BY <1>0, <2>7, <2>8, <2>10, <2>11, <2>12 DEF MainPoints
    <2> QED BY <1>1, <1>2, <1>13, <2>13
  <1>12. CASE isGauge
    <2>1. ASSUME NEW k \in K PROVE \E p \in P : p.value = h[k].value
      <3> DEFINE ps == merged(k)
                 g == [p \in ps |-> p.value]
                 values == {g[p] : p \in ps}
      <3>1. ps \in SUBSET P /\ ps # {} /\ \E p \in ps : p.gauge
        BY <1>4, <1>12
      <3>2. values \in SUBSET Nat /\ values # {} /\ values = {p.value : p \in ps}
        BY <3>1
      <3>3. IsFiniteSet(values)
        <4>1. IsFiniteSet(ps)
          BY <1>0, <3>1, FS_Subset
        <4> HIDE DEF ps, g
        <4> QED BY <4>1, FiniteValues
      <3>4. Max(values) \in values
        <4> HIDE DEF values
        <4>1. \E x \in values : \A y \in values : y <= x
          BY <3>2, <3>3, GreatestNumber
        <4>2. PICK top \in values : \A y \in values : y <= top
          BY <4>1
        <4>3. values \in SUBSET Int /\ values # {} /\ top \in Int
          BY <3>2, <4>2
        <4> QED BY <4>2, <4>3, GreatestFloor
      <3>5. value(ps) = Max({p.value : p \in ps})
        <4> HIDE DEF ps
        <4> QED BY <3>1 DEF value
      <3>6. PICK p \in ps : p.value = Max(values)
        BY <3>4
      <3>7. h[k].value = Max(values)
        <4>1. value(ps) = Max(values)
          <5> HIDE DEF values, ps
          <5> QED BY <3>2, <3>5
        <4> QED BY <1>3, <4>1
      <3> QED BY <3>1, <3>6, <3>7
    <2>2. \A p \in C : p.gauge /\ p.metric = Main
      BY <1>10, <1>12
    <2>3. Gauged(C, from, hi)
      <3> SUFFICES ASSUME kind \notin Raw, NEW p \in C
                   PROVE  \E r \in world : Recent(r, from, hi) /\ r.level = p.value
        BY DEF Gauged
      <3>1. PICK k \in K : p = h[k]
        BY <1>9
      <3>2. PICK x \in P : x.value = h[k].value
        BY <2>1
      <3>3. x.gauge
        BY <1>12
      <3>4. \E r \in world : Recent(r, from, hi) /\ r.level = x.value
        BY <1>0, <3>3 DEF Gauged
      <3> QED BY <3>1, <3>2, <3>4
    <2>4. MainPoints(C, from, hi)
      BY <1>8, <1>12, <2>2, <2>3, MainGauges
    <2> QED BY <1>1, <1>2, <1>13, <2>4
  <1> QED BY <1>11, <1>12

LEMMA R2Promise ==
  ASSUME NEW from, NEW to, NEW q, Ready(from, to, q), kind \notin Raw, NEW isGauge \in BOOLEAN, Counted => ~isGauge
  PROVE  Promise(R2Window(from, to, isGauge, q), from, to)
  <1> DEFINE lo == Lo(from)
             hi == Hi(to)
             plan == R2Plan(q.s)
             answer == R2Rows(lo, hi, plan.fields, q)
             rows == answer.rows
             all == R2Points(rows, lo, hi, isGauge)
             capped == R2Cap(all.points)
             kept == Capped(capped.points, IF SeriesCap = 0 THEN DefaultCap ELSE SeriesCap)
             refused == ~plan.ok \/ Empty(from, to) \/ ~answer.ok \/ ~all.ok
             w == R2Window(from, to, isGauge, q)
             resource == [r \in rows |-> IF r.id = Blank THEN Other ELSE r.id]
  <1>0. Data /\ Few(admitted)
    BY FewAdmitted DEF Ready
  <1>1. w = IF refused THEN Refuse(from) ELSE Deliver(hi, kept, capped.points \ kept, capped.admitted)
    BY DEF R2Window
  <1>2. CASE refused
    <2>1. w.mark = from /\ w.admitted = admitted
      BY <1>1, <1>2 DEF Refuse
    <2> QED BY <1>0, <2>1, RefusePromise, SMTT(30)
  <1>3. CASE ~refused
    <2>1. ~Empty(from, to) /\ answer.ok /\ all.ok
      BY <1>3
    <2>2. /\ all.ok = (Sound(Whole(rows, lo, hi)) /\ Whole(rows, lo, hi) = rows)
          /\ all.points = IF isGauge THEN Gauges(Whole(rows, lo, hi), Main, resource)
                          ELSE Counters(Whole(rows, lo, hi), Main, resource)
      BY DEF R2Points, Aggregate
    <2> HIDE DEF plan, all
    <2>3. Whole(rows, lo, hi) = rows /\ Sound(rows)
      BY <2>1, <2>2
    <2>4. lo \in Nat /\ hi \in Nat /\ lo <= hi /\ from < hi /\ hi = EndOf(to)
      BY <2>1, Bounds DEF EndOf
    <2>5. PICK key \in {ById, ByNone} : Holds(answer, AllRows(key), Wrong(lo, hi, q), lo, hi)
      BY <1>0, <2>4, R2RowsHold
    <2> HIDE DEF answer, refused
    <2>6. /\ rows = Span(AllRows(key), lo, hi) /\ Tallied(rows) /\ SumN(rows) = SumN(Due(from, hi))
          /\ \A g \in rows : g.at \in Nat /\ g.level \in Nat /\ g.id \in Nat
      BY <2>1, <2>3, <2>5, StrictSpan
    <2>7. \A g, h \in rows : g.id = h.id => resource[g] = resource[h]
      OBVIOUS
    <2>8. \A g \in rows : resource[g] \in Nat
      BY <2>6 DEF Other
    <2> HIDE DEF resource, lo, hi, rows
    <2>9. /\ MainPoints(all.points, from, hi)
          /\ \A p \in all.points : p.name \in Nat /\ (p.gauge <=> isGauge) /\ p.value \in Nat
      <3>1. CASE ~isGauge
        <4>1. all.points = Counters(rows, Main, resource)
          BY <2>2, <2>3, <3>1
        <4>2. MainPoints(Counters(rows, Main, resource), from, hi)
          BY <1>0, <2>6, MainCounters
        <4>3. \A p \in Counters(rows, Main, resource) : ~p.gauge /\ p.value \in Nat /\ \E r \in rows : p.name = resource[r]
          BY <2>6, CountersFacts
        <4> HIDE DEF all
        <4> QED BY <2>8, <3>1, <4>1, <4>2, <4>3
      <3>2. CASE isGauge
        <4>1. all.points = Gauges(rows, Main, resource)
          BY <2>2, <2>3, <3>2
        <4>2. rows \in SUBSET Span(AllRows(key), lo, hi)
          BY <2>6
        <4>3. \A g \in rows : \A h \in Span(AllRows(key), lo, hi) : h.id = g.id /\ g.at <= h.at => h \in rows
          BY <2>6
        <4>4. /\ Gauged(Gauges(rows, Main, resource), from, hi) /\ IsFiniteSet(Gauges(rows, Main, resource))
              /\ \A p \in Gauges(rows, Main, resource) : p.gauge /\ p.metric = Main
          BY <2>1, <2>7, <4>2, <4>3, LevelGauges DEF lo, hi
        <4>5. \A p \in Gauges(rows, Main, resource) : \E r \in rows : p.name = resource[r] /\ p.value = r.level
          BY <2>6, GaugesFacts DEF Tallied
        <4>6. \A p \in Gauges(rows, Main, resource) : p.name \in Nat /\ p.value \in Nat
          BY <2>6, <2>8, <4>5
        <4>7. MainPoints(Gauges(rows, Main, resource), from, hi)
          BY <3>2, <4>4, MainGauges
        <4> QED BY <3>2, <4>1, <4>4, <4>6, <4>7
      <3> QED BY <3>1, <3>2
    <2> HIDE DEF capped
    <2>10. /\ Few(capped.admitted) /\ MainPoints(capped.points, from, hi)
           /\ Named(capped.points, capped.admitted)
      BY <2>9, CapPoints DEF capped
    <2>11. kept \in SUBSET capped.points
      BY DEF Capped
    <2> HIDE DEF kept, w
    <2>12. Promise(Deliver(hi, kept, capped.points \ kept, capped.admitted), from, to)
      BY <1>0, <2>4, <2>10, <2>11, PlainPromise
    <2>13. w = Deliver(hi, kept, capped.points \ kept, capped.admitted)
      BY <1>1, <1>3
    <2> QED BY <2>12, <2>13 DEF w
  <1> QED BY <1>2, <1>3

-----------------------------------------------------------------------------
(* workersai, workers and turnstile.                                         *)

LEMMA AIPromise ==
  ASSUME NEW from, NEW to, NEW q, Ready(from, to, q), kind \notin Raw, kind \notin NamedKinds
  PROVE  Promise(AIWindow(from, to, q), from, to)
  <1> DEFINE lo == Lo(from)
             hi == Hi(to)
             wanted == Chosen(q.s, {"value", "bucket"}, <<"depth">>)
             answer == AIRows(lo, hi, q)
             rows == answer.rows
             A == Counters(rows, Main, ByAccount(rows))
             B == IF "depth" \in wanted THEN Counters(rows, Depth, ByAccount(rows)) ELSE {}
             kept == Capped(A \cup B, SeriesCap)
             refused == SeriesCap = 0 \/ ~Limited(q.s) \/ ~Entitled(q.s, {"value", "bucket"}) \/ Empty(from, to)
                          \/ FloorBucket(q.s.span) = 0 \/ ~answer.ok \/ ~Sound(rows)
             w == AIWindow(from, to, q)
  <1>0. Data /\ Few(admitted)
    BY FewAdmitted DEF Ready
  <1>1. w = IF refused THEN Refuse(from) ELSE Deliver(hi, kept, (A \cup B) \ kept, admitted)
    BY DEF AIWindow
  <1>2. CASE refused
    <2>1. w.mark = from /\ w.admitted = admitted
      BY <1>1, <1>2 DEF Refuse
    <2> QED BY <1>0, <2>1, RefusePromise
  <1>3. CASE ~refused
    <2>1. ~Empty(from, to) /\ answer.ok /\ Sound(rows) /\ FloorBucket(q.s.span) # 0
      BY <1>3
    <2>2. answer = Sliced(lo, hi, FloorBucket(q.s.span), [v \in Parts(lo, hi) |->
                     OnBuckets(v[1], v[2], [u \in Parts(v[1], v[2]) |->
                       Strict(Answer(u[1], u[2], lo, hi, q, ByNone), u[1], u[2], q.s.page)])])
      BY DEF AIRows
    <2> HIDE DEF answer, refused, wanted
    <2>3. from < hi /\ hi = EndOf(to)
      BY <2>1, Bounds DEF EndOf
    <2> DEFINE key == ByNone
    <2>4. key \in {ById, ByNone}
      OBVIOUS
    <2>5. Holds(answer, AllRows(key), Wrong(lo, hi, q), lo, hi)
      BY <2>1, <2>2, <2>4, InSlices
    <2> HIDE DEF key
    <2>6. Tallied(rows) /\ SumN(rows) = SumN(Due(from, hi)) /\ SumN(Due(from, hi)) \in Nat
      BY <1>0, <2>1, <2>4, <2>5, StrictSpan, DueSum
    <2> DEFINE series == ByAccount(rows)
    <2> HIDE DEF series, lo, hi, rows
    <2>7. MainPoints(Counters(rows, Main, series), from, hi)
      BY <1>0, <2>6, MainCounters
    <2>8. DepthPoints(B, from, hi)
      <3>1. CASE "depth" \in wanted
        <4> DEFINE none == {}
        <4>1. /\ IsFiniteSet(none) /\ \A p \in none : p.gauge /\ p.metric = DepthLevel
              /\ B = Counters(rows, Depth, series) \cup none
          BY <3>1, FS_EmptySet DEF series
        <4>2. Gauged(none, from, hi)
          BY DEF Gauged
        <4> HIDE DEF none
        <4>3. SumN(rows) <= SumN(Due(from, hi))
          BY <2>6
        <4>4. DepthPoints(Counters(rows, Depth, series) \cup none, from, hi)
          BY <1>0, <2>6, <4>1, <4>2, <4>3, DepthJoined
        <4> QED BY <4>1, <4>4
      <3>2. CASE "depth" \notin wanted
        <4>1. B = {}
          BY <3>2
        <4> QED BY <1>0, <4>1, NoDepth
      <3> QED BY <3>1, <3>2
    <2>9. MainPoints(A, from, hi)
      BY <2>7 DEF series
    <2>10. kept \in SUBSET (A \cup B)
      BY DEF Capped
    <2> HIDE DEF A, B, kept, w
    <2>11. Promise(Deliver(hi, kept, (A \cup B) \ kept, admitted), from, to)
      BY <1>0, <2>3, <2>8, <2>9, <2>10, DeliverPromise
    <2>12. w = Deliver(hi, kept, (A \cup B) \ kept, admitted)
      BY <1>1, <1>3
    <2> QED BY <2>11, <2>12 DEF w
  <1> QED BY <1>2, <1>3

\* The counters of the whole buckets of a paged answer.
LEMMA PagedCounters ==
  ASSUME NEW from, NEW to, NEW q, Ready(from, to, q), ~Empty(from, to), kind \notin Raw,
         NEW key \in {ById, ByNone}, NEW answer,
         answer = OnBuckets(Lo(from), Hi(to), [w \in Parts(Lo(from), Hi(to)) |->
                    Paged(Answer(w[1], w[2], Lo(from), Hi(to), q, key), q.s.page)]),
         answer.ok, NEW f \in {from, Lo(from)}, NEW whole, whole = Whole(answer.rows, f, Hi(to)), Sound(whole),
         NEW series
  PROVE  /\ whole = Span(AllRows(key), Lo(from), Hi(to))
         /\ MainPoints(Counters(whole, Main, series), from, Hi(to))
  <1> DEFINE lo == Lo(from)
             hi == Hi(to)
  <1>0. Data
    BY DEF Ready
  <1>1. lo \in Nat /\ hi \in Nat /\ lo <= hi
    BY Bounds
  <1>2. Holds(answer, AllRows(key), Odd(lo, hi, q), lo, hi)
    BY <1>0, <1>1, PagedRows
  <1>3. whole = Span(AllRows(key), lo, hi)
    BY <1>2, WholeExact
  <1>4. Tallied(whole) /\ SumN(whole) = SumN(Landed(lo, hi))
    BY <1>0, <1>3, SpanSum
  <1>5. Landed(lo, hi) = Due(from, hi)
    BY AllLanded DEF Due
  <1>6. Counted => SumN(whole) = SumN(Due(from, hi))
    BY <1>4, <1>5
  <1> QED BY <1>0, <1>3, <1>4, <1>6, MainCounters

LEMMA OverviewPromise ==
  ASSUME NEW from, NEW to, NEW q, Ready(from, to, q), kind \notin Raw, kind \notin NamedKinds
  PROVE  Promise(OverviewWindow(from, to, q), from, to)
  <1> DEFINE lo == Lo(from)
             hi == Hi(to)
             answer == OverviewRows(lo, hi, Chosen(q.s, {"value", "bucket"}, <<"resource">>), q)
             series == ScriptOf(answer.rows)
             all == Aggregate(answer.rows, from, hi, FALSE, series)
             kept == Capped(all.points, SeriesCap)
             refused == Empty(from, to) \/ SeriesCap = 0 \/ ~Limited(q.s) \/ ~Entitled(q.s, {"value", "bucket"})
                          \/ ~answer.ok \/ ~all.ok
             w == OverviewWindow(from, to, q)
  <1>0. Data /\ Few(admitted)
    BY FewAdmitted DEF Ready
  <1>1. w = IF refused THEN Refuse(from) ELSE Deliver(hi, kept, all.points \ kept, admitted)
    BY DEF OverviewWindow
  <1>2. CASE refused
    <2> HIDE DEF w, refused
    <2>1. w.mark = from /\ w.admitted = admitted
      BY <1>1, <1>2 DEF Refuse
    <2> QED BY <1>0, <2>1, RefusePromise DEF w
  <1>3. CASE ~refused
    <2>1. ~Empty(from, to) /\ answer.ok /\ all.ok
      BY <1>3
    <2> DEFINE whole == Whole(answer.rows, from, hi)
    <2>2. all.ok = Sound(whole) /\ all.points = Counters(whole, Main, series)
      BY DEF Aggregate
    <2>3. PICK key \in {ById, ByNone} :
            answer = OnBuckets(lo, hi, [v \in Parts(lo, hi) |-> Paged(Answer(v[1], v[2], lo, hi, q, key), q.s.page)])
      BY KeyedFacts DEF OverviewRows
    <2>4. from < hi /\ hi = EndOf(to)
      BY <2>1, Bounds DEF EndOf
    <2> HIDE DEF answer, all, series, refused, whole
    <2>5. from \in {from, lo}
      OBVIOUS
    <2>6. MainPoints(Counters(whole, Main, series), from, hi)
      BY <2>1, <2>2, <2>3, <2>5, PagedCounters DEF whole
    <2>7. kept \in SUBSET all.points
      BY DEF Capped
    <2> HIDE DEF kept, w
    <2>8. Promise(Deliver(hi, kept, all.points \ kept, admitted), from, to)
      BY <1>0, <2>2, <2>4, <2>6, <2>7, PlainPromise
    <2>9. w = Deliver(hi, kept, all.points \ kept, admitted)
      BY <1>1, <1>3
    <2> QED BY <2>8, <2>9 DEF w
  <1> QED BY <1>2, <1>3

LEMMA TurnstilePromise ==
  ASSUME NEW from, NEW to, NEW q, Ready(from, to, q), kind \notin Raw, kind \notin NamedKinds
  PROVE  Promise(TurnstileWindow(from, to, q), from, to)
  <1> DEFINE lo == Lo(from)
             hi == Hi(to)
             answer == TurnstileRows(lo, hi, q)
             series == ByAccount(answer.rows)
             all == Aggregate(answer.rows, from, hi, FALSE, series)
             refused == Empty(from, to) \/ SeriesCap = 0 \/ ~Limited(q.s) \/ ~Entitled(q.s, {"value", "bucket"})
                          \/ ~answer.ok \/ ~all.ok
             w == TurnstileWindow(from, to, q)
  <1>0. Data /\ Few(admitted)
    BY FewAdmitted DEF Ready
  <1>1. w = IF refused THEN Refuse(from) ELSE Deliver(hi, all.points, {}, admitted)
    BY DEF TurnstileWindow
  <1>2. CASE refused
    <2> HIDE DEF w, refused
    <2>1. w.mark = from /\ w.admitted = admitted
      BY <1>1, <1>2 DEF Refuse
    <2> QED BY <1>0, <2>1, RefusePromise DEF w
  <1>3. CASE ~refused
    <2>1. ~Empty(from, to) /\ answer.ok /\ all.ok
      BY <1>3
    <2> DEFINE whole == Whole(answer.rows, from, hi)
               key == ByNone
    <2>2. all.ok = Sound(whole) /\ all.points = Counters(whole, Main, series)
      BY DEF Aggregate
    <2>3. /\ key \in {ById, ByNone}
          /\ answer = OnBuckets(lo, hi, [v \in Parts(lo, hi) |-> Paged(Answer(v[1], v[2], lo, hi, q, key), q.s.page)])
      BY DEF TurnstileRows
    <2>4. from < hi /\ hi = EndOf(to)
      BY <2>1, Bounds DEF EndOf
    <2> HIDE DEF answer, all, series, refused, whole, key
    <2>5. from \in {from, lo}
      OBVIOUS
    <2>6. MainPoints(Counters(whole, Main, series), from, hi)
      BY <2>1, <2>2, <2>3, <2>5, PagedCounters DEF whole
    <2>7. all.points \in SUBSET all.points /\ all.points \ all.points = {}
      OBVIOUS
    <2> HIDE DEF w
    <2>8. Promise(Deliver(hi, all.points, all.points \ all.points, admitted), from, to)
      BY <1>0, <2>2, <2>4, <2>6, <2>7, PlainPromise
    <2>9. w = Deliver(hi, all.points, all.points \ all.points, admitted)
      BY <1>1, <1>3, <2>7
    <2> QED BY <2>8, <2>9 DEF w
  <1> QED BY <1>2, <1>3

LEMMA InvocationsPromise ==
  ASSUME NEW from, NEW to, NEW q, Ready(from, to, q), kind \notin Raw, kind \notin NamedKinds
  PROVE  Promise(InvocationsWindow(from, to, q), from, to)
  <1> DEFINE lo == Lo(from)
             hi == Hi(to)
             required == {"value", "bucket", "resource"}
             quantiles == q.s.offered \cap {"depth", "actions"}
             answer == InvocationRows(lo, hi, q)
             series == ScriptOf(answer.rows)
             sums == Aggregate(answer.rows, lo, hi, FALSE, series)
             whole == Whole(answer.rows, lo, hi)
             X == {r \in whole : r.id # Blank}
             levels == IF quantiles = {} THEN {} ELSE Gauges(X, DepthLevel, ScriptOf(X))
             kept == Capped(sums.points \cup levels, SeriesCap)
             refused == SeriesCap = 0 \/ Empty(from, to) \/ ~Limited(q.s) \/ ~Entitled(q.s, required)
                          \/ Cardinality({"bucket", "resource"} \cup quantiles) > q.s.fields
                          \/ ~answer.ok \/ ~sums.ok \/ (quantiles # {} /\ (Twice(X) \/ ~Sound(X)))
             w == InvocationsWindow(from, to, q)
  <1>0. Data /\ Few(admitted)
    BY FewAdmitted DEF Ready
  <1>1. w = IF refused THEN Refuse(from) ELSE Deliver(hi, kept, (sums.points \cup levels) \ kept, admitted)
    BY DEF InvocationsWindow
  <1>2. CASE refused
    <2> HIDE DEF w, refused
    <2>1. w.mark = from /\ w.admitted = admitted
      BY <1>1, <1>2 DEF Refuse
    <2> QED BY <1>0, <2>1, RefusePromise DEF w
  <1>3. CASE ~refused
    <2>1. ~Empty(from, to) /\ answer.ok /\ sums.ok
      BY <1>3
    <2> DEFINE key == ById
    <2>2. sums.ok = Sound(whole) /\ sums.points = Counters(whole, Main, series)
      BY DEF Aggregate
    <2>3. /\ key \in {ById, ByNone}
          /\ answer = OnBuckets(lo, hi, [v \in Parts(lo, hi) |-> Paged(Answer(v[1], v[2], lo, hi, q, key), q.s.page)])
      BY DEF InvocationRows
    <2>4. from < hi /\ hi = EndOf(to)
      BY <2>1, Bounds DEF EndOf
    <2>5. lo \in {from, Lo(from)}
      OBVIOUS
    <2> HIDE DEF answer, sums, series, refused, whole, key, required, quantiles
    <2>6. MainPoints(Counters(whole, Main, series), from, hi) /\ whole = Span(AllRows(key), lo, hi)
      BY <2>1, <2>2, <2>3, <2>5, PagedCounters DEF whole
    <2>7. DepthPoints(levels, from, hi)
      <3>1. CASE quantiles = {}
        <4>1. levels = {}
          BY <3>1
        <4> QED BY <1>0, <4>1, NoDepth
      <3>2. CASE quantiles # {}
        <4> DEFINE names == ScriptOf(X)
        <4>1. X \in SUBSET Span(AllRows(key), lo, hi)
          BY <2>6
        <4>2. \A g \in X : \A h \in Span(AllRows(key), lo, hi) : h.id = g.id /\ g.at <= h.at => h \in X
          BY <2>6
        <4>3. \A g, h \in X : g.id = h.id => names[g] = names[h]
          BY DEF ScriptOf
        <4>4. levels = Gauges(X, DepthLevel, names)
          BY <3>2
        <4> HIDE DEF X, names, lo, hi, levels
        <4>5. /\ Gauged(Gauges(X, DepthLevel, names), from, hi)
              /\ IsFiniteSet(Gauges(X, DepthLevel, names))
              /\ \A p \in Gauges(X, DepthLevel, names) : p.gauge /\ p.metric = DepthLevel
          <5>1. key \in {ById, ByNone} /\ ~Empty(from, to)
            BY <2>1, <2>3
          <5> QED BY ONLY Ready(from, to, q), <4>1, <4>2, <4>3, <5>1, LevelGauges DEF lo, hi
        <4> QED BY <1>0, <4>4, <4>5, DepthLevels
      <3> QED BY <3>1, <3>2
    <2>8. kept \in SUBSET (sums.points \cup levels)
      BY DEF Capped
    <2> HIDE DEF levels, kept, w
    <2>9. Promise(Deliver(hi, kept, (sums.points \cup levels) \ kept, admitted), from, to)
      BY <1>0, <2>2, <2>4, <2>6, <2>7, <2>8, DeliverPromise
    <2>10. w = Deliver(hi, kept, (sums.points \cup levels) \ kept, admitted)
      BY <1>1, <1>3
    <2> QED BY <2>9, <2>10 DEF w
  <1> QED BY <1>2, <1>3

-----------------------------------------------------------------------------
(* rum and gateway, whose datasets answer one row for each value.            *)

Between(a, b) == {r \in Visible : a <= r.at /\ r.at < b}

LEMMA TalliesFacts ==
  ASSUME Data, NEW key \in {ById, ByNone}, NEW a, NEW b, NEW q
  PROVE  /\ Tallied(Tallies(a, b, q, key)) /\ SumN(Tallies(a, b, q, key)) = SumN(Between(a, b))
         /\ Cardinality(Tallies(a, b, q, key)) <= Cardinality({r.id : r \in world})
         /\ \A g \in Tallies(a, b, q, key) :
              /\ g.valid = ~q.bad
              /\ \E rows \in SUBSET Between(a, b) : rows # {} /\ g.n = SumN(rows)
  <1> DEFINE S == Between(a, b)
             c == [r \in S |-> key[r.id]]
             K == {c[r] : r \in S}
             group(k) == {r \in S : key[r.id] = k}
             h == [k \in K |-> [at |-> a, id |-> k, n |-> SumN(group(k)), level |-> TopLevel(group(k)), valid |-> ~q.bad]]
             class == ClassBy(S, c)
             rows == {h[k] : k \in K}
             ids == {r.id : r \in world}
  <1>1. Tallied(S) /\ S \in SUBSET world
    <2>1. S \in SUBSET Visible
      BY DEF Between
    <2> HIDE DEF S
    <2> QED BY <2>1, WorldFacts, SumFacts
  <1>2. rows = Tallies(a, b, q, key)
    <2>1. K = {key[r.id] : r \in S}
      OBVIOUS
    <2>2. rows = {[at |-> a, id |-> k, n |-> SumN(group(k)), level |-> TopLevel(group(k)), valid |-> ~q.bad] : k \in K}
      OBVIOUS
    <2> HIDE DEF K, rows
    <2> QED BY <2>1, <2>2 DEF Tallies, Between
  <1>3. \A k \in K : h[k].id = k /\ h[k].n = SumN(group(k)) /\ h[k].valid = ~q.bad
    OBVIOUS
  <1>4. \A j, k \in K : h[j] = h[k] => j = k
    BY <1>3
  <1>5. Classes(S, K, class) /\ \A k \in K : class[k] = {r \in S : c[r] = k}
    <2> HIDE DEF S, c
    <2> QED BY <1>1, ClassesBy DEF Tallied
  <1>6. \A k \in K : {r \in S : c[r] = k} = group(k) /\ group(k) # {} /\ group(k) \in SUBSET S
    OBVIOUS
  <1>7. \A k \in K : h[k].n = SumN(class[k])
    BY <1>3, <1>5, <1>6
  <1>8. Tallied(rows) /\ SumN(rows) = SumN(S)
    <2> HIDE DEF S, c, K, h, class
    <2> QED BY <1>1, <1>4, <1>5, <1>7, ClassRows
  <1>9. Cardinality(rows) <= Cardinality(ids)
    <2> DEFINE idOf == [r \in world |-> r.id]
               image == [i \in ids |-> key[i]]
               all == {image[i] : i \in ids}
    <2>1. IsFiniteSet(world)
      BY WorldFacts DEF Tallied
    <2>2. IsFiniteSet(ids)
      <3>1. ids = {idOf[r] : r \in world}
        OBVIOUS
      <3> HIDE DEF ids, idOf
      <3> QED BY <2>1, <3>1, FiniteValues
    <2>3. IsFiniteSet(all) /\ Cardinality(all) <= Cardinality(ids)
      <3> HIDE DEF ids, image
      <3> QED BY <2>2, FiniteValues
    <2>4. K \in SUBSET all
      <3>1. \A r \in S : r.id \in ids /\ image[r.id] = key[r.id]
        BY <1>1
      <3> HIDE DEF S, ids, image
      <3> QED BY <3>1
    <2> HIDE DEF K, all, ids, h
    <2>5. IsFiniteSet(K) /\ Cardinality(K) <= Cardinality(all)
      BY <2>3, <2>4, FS_Subset
    <2>6. IsFiniteSet(rows) /\ Cardinality(rows) <= Cardinality(K)
      BY <2>5, FiniteValues
    <2> HIDE DEF rows
    <2>7. /\ Cardinality(rows) \in Nat /\ Cardinality(K) \in Nat
          /\ Cardinality(all) \in Nat /\ Cardinality(ids) \in Nat
      BY <2>2, <2>3, <2>5, <2>6, FS_CardinalityType
    <2> QED BY <2>3, <2>5, <2>6, <2>7
  <1>10. \A g \in rows : g.valid = ~q.bad /\ \E T \in SUBSET S : T # {} /\ g.n = SumN(T)
    <2>1. \A g \in rows : \E k \in K : g = h[k]
      OBVIOUS
    <2> HIDE DEF S, h, K, rows
    <2>2. ASSUME NEW k \in K
          PROVE  h[k].valid = ~q.bad /\ \E T \in SUBSET S : T # {} /\ h[k].n = SumN(T)
      BY <1>3, <1>6
    <2> QED BY <2>1, <2>2
  <1> HIDE DEF rows, S
  <1> QED BY <1>2, <1>8, <1>9, <1>10 DEF S

\* By the time a window is asked for, all its events have shown up.
LEMMA AllBetween ==
  ASSUME NEW from, NEW to, NEW q, Ready(from, to, q), kind \in Raw
  PROVE  Between(from, to) = Due(from, to)
  <1>1. Data /\ from \in Nat /\ to \in Nat /\ to + Holdback <= now /\ now \in Nat
    BY DEF Ready, Data
  <1>2. ASSUME NEW r \in world, r.at < to PROVE r.at + r.delay <= now
    <2>1. r.at \in Nat /\ r.delay \in Nat /\ r.delay <= Holdback /\ Holdback \in Nat
      BY <1>1, WorldFacts
    <2> QED BY <1>1, <1>2, <2>1
  <1> QED BY <1>2 DEF Between, Due, Visible

LEMMA PageloadsPromise ==
  ASSUME NEW from, NEW to, NEW q, Ready(from, to, q), kind \in Raw
  PROVE  Promise(PageloadsWindow(from, to, q), from, to)
  <1> DEFINE plan == FieldsForAccount(q.s, {"value"}, <<"resource">>)
             key == Keyed(plan.fields)
             rows == Tallies(from, to, q, key)
             points == Counters(rows, Main, ScriptOf(rows))
             refused == from >= to \/ ~plan.ok \/ Cardinality(rows) >= QueryLimit \/ ~Sound(rows)
             w == PageloadsWindow(from, to, q)
  <1>0. Data /\ Few(admitted) /\ from < to /\ to = EndOf(to) /\ kind \notin NamedKinds
    BY FewAdmitted DEF Ready, EndOf, Raw, NamedKinds
  <1>1. w = IF refused THEN Refuse(from) ELSE Deliver(to, points, {}, admitted)
    BY DEF PageloadsWindow
  <1>2. MainPoints(points, from, to)
    <2>1. key \in {ById, ByNone}
      BY KeyedFacts
    <2> HIDE DEF key
    <2>2. Tallied(rows) /\ SumN(rows) = SumN(Due(from, to))
      <3>1. Tallied(rows) /\ SumN(rows) = SumN(Between(from, to))
        <4>1. Data
          BY <1>0
        <4>2. /\ Tallied(Tallies(from, to, q, key)) /\ SumN(Tallies(from, to, q, key)) = SumN(Between(from, to))
              /\ Cardinality(Tallies(from, to, q, key)) <= Cardinality({r.id : r \in world})
              /\ \A g \in Tallies(from, to, q, key) :
                   /\ g.valid = ~q.bad
                   /\ \E T \in SUBSET Between(from, to) : T # {} /\ g.n = SumN(T)
          BY ONLY <2>1, <4>1, TalliesFacts
        <4> QED BY <4>2
      <3>2. Between(from, to) = Due(from, to)
        BY AllBetween
      <3> HIDE DEF rows
      <3> QED BY <3>1, <3>2
    <2> HIDE DEF rows
    <2> QED BY <1>0, <2>2, MainCounters
  <1>3. points \in SUBSET points /\ points \ points = {}
    OBVIOUS
  <1> HIDE DEF points, refused, w
  <1>4. Promise(Deliver(to, points, points \ points, admitted), from, to)
    BY <1>0, <1>2, <1>3, PlainPromise
  <1>5. CASE refused
    <2>1. w.mark = from /\ w.admitted = admitted
      BY <1>1, <1>5 DEF Refuse
    <2> QED BY <1>0, <2>1, RefusePromise DEF w
  <1>6. CASE ~refused
    <2>1. w = Deliver(to, points, points \ points, admitted)
      BY <1>1, <1>3, <1>6
    <2> QED BY <1>4, <2>1 DEF w
  <1> QED BY <1>5, <1>6

LEMMA GatewayPromise ==
  ASSUME NEW from, NEW to, NEW q, Ready(from, to, q), kind \in Raw
  PROVE  Promise(GatewayWindow(from, to, q), from, to)
  <1> DEFINE key == Keyed(Chosen(q.s, {"value"}, <<"resource">>))
             rows == Tallies(from, to, q, key)
             points == Counters(rows, Main, ScriptOf(rows))
             refused == from >= to \/ ~Limited(q.s) \/ ~Entitled(q.s, {"value"})
                          \/ Cardinality(rows) >= QueryLimit \/ ~Sound(rows) \/ (\E r \in rows : r.n = 0)
             w == GatewayWindow(from, to, q)
  <1>0. Data /\ Few(admitted) /\ from < to /\ to = EndOf(to) /\ kind \notin NamedKinds
    BY FewAdmitted DEF Ready, EndOf, Raw, NamedKinds
  <1>1. w = IF refused THEN Refuse(from) ELSE Deliver(to, points, {}, admitted)
    BY DEF GatewayWindow
  <1>2. MainPoints(points, from, to)
    <2>1. key \in {ById, ByNone}
      BY KeyedFacts
    <2> HIDE DEF key
    <2>2. Tallied(rows) /\ SumN(rows) = SumN(Due(from, to))
      <3>1. Tallied(rows) /\ SumN(rows) = SumN(Between(from, to))
        <4>1. Data
          BY <1>0
        <4>2. /\ Tallied(Tallies(from, to, q, key)) /\ SumN(Tallies(from, to, q, key)) = SumN(Between(from, to))
              /\ Cardinality(Tallies(from, to, q, key)) <= Cardinality({r.id : r \in world})
              /\ \A g \in Tallies(from, to, q, key) :
                   /\ g.valid = ~q.bad
                   /\ \E T \in SUBSET Between(from, to) : T # {} /\ g.n = SumN(T)
          BY ONLY <2>1, <4>1, TalliesFacts
        <4> QED BY <4>2
      <3>2. Between(from, to) = Due(from, to)
        BY AllBetween
      <3> HIDE DEF rows
      <3> QED BY <3>1, <3>2
    <2> HIDE DEF rows
    <2> QED BY <1>0, <2>2, MainCounters
  <1>3. points \in SUBSET points /\ points \ points = {}
    OBVIOUS
  <1> HIDE DEF points, refused, w
  <1>4. Promise(Deliver(to, points, points \ points, admitted), from, to)
    BY <1>0, <1>2, <1>3, PlainPromise
  <1>5. CASE refused
    <2>1. w.mark = from /\ w.admitted = admitted
      BY <1>1, <1>5 DEF Refuse
    <2> QED BY <1>0, <2>1, RefusePromise DEF w
  <1>6. CASE ~refused
    <2>1. w = Deliver(to, points, points \ points, admitted)
      BY <1>1, <1>3, <1>6
    <2> QED BY <1>4, <2>1 DEF w
  <1> QED BY <1>5, <1>6

LEMMA VitalsPromise ==
  ASSUME NEW from, NEW to, NEW q, Ready(from, to, q), kind \in Raw, ~Counted
  PROVE  Promise(VitalsWindow(from, to, q), from, to)
  <1> DEFINE plan == FieldsForAccount(q.s, {"value"}, <<"resource">>)
             key == Keyed(plan.fields)
             rows == Tallies(to - Least(to, Rolling), to, q, key)
             measured == {r \in rows : r.level > 0}
             series == ScriptOf(measured)
             points == Gauges(measured, Main, series)
             refused == from >= to \/ ~plan.ok \/ Cardinality(rows) >= QueryLimit \/ ~Sound(rows)
             w == VitalsWindow(from, to, q)
  <1>0. Data /\ Few(admitted) /\ from < to /\ to = EndOf(to) /\ kind \notin NamedKinds
    BY FewAdmitted DEF Ready, EndOf, Raw, NamedKinds
  <1>1. w = IF refused THEN Refuse(from) ELSE Deliver(to, points, {}, admitted)
    BY DEF VitalsWindow
  <1>2. MainPoints(points, from, to)
    <2>1. IsFiniteSet(measured)
      <3>1. key \in {ById, ByNone}
        BY KeyedFacts
      <3> HIDE DEF key
      <3>2. IsFiniteSet(rows)
        BY <1>0, <3>1, TalliesFacts DEF Tallied
      <3> HIDE DEF rows
      <3> QED BY <3>2, FS_Subset
    <2> HIDE DEF measured, series
    <2> DEFINE names == {series[r] : r \in measured}
               newest(s) == NewestOf({r \in measured : series[r] = s})
               h == [s \in names |-> Point(Main, s, TRUE, TopLevel(newest(s)), Max({r.at : r \in newest(s)}))]
    <2>2. IsFiniteSet(names)
      BY <2>1, FiniteValues
    <2>3. points = {h[s] : s \in names}
      BY DEF Gauges
    <2>4. IsFiniteSet(points)
      <3> HIDE DEF names, h
      <3> QED BY <2>2, <2>3, FiniteValues
    <2>5. \A p \in points : p.gauge /\ p.metric = Main
      <3>1. \A s \in names : h[s].gauge /\ h[s].metric = Main
        BY DEF Point
      <3> HIDE DEF names, h, points
      <3> QED BY <2>3, <3>1
    <2> HIDE DEF points
    <2>6. Gauged(points, from, to)
      BY DEF Gauged
    <2> QED BY <2>4, <2>5, <2>6, MainGauges
  <1>3. points \in SUBSET points /\ points \ points = {}
    OBVIOUS
  <1> HIDE DEF points, refused, w
  <1>4. Promise(Deliver(to, points, points \ points, admitted), from, to)
    BY <1>0, <1>2, <1>3, PlainPromise
  <1>5. CASE refused
    <2>1. w.mark = from /\ w.admitted = admitted
      BY <1>1, <1>5 DEF Refuse
    <2> QED BY <1>0, <2>1, RefusePromise DEF w
  <1>6. CASE ~refused
    <2>1. w = Deliver(to, points, points \ points, admitted)
      BY <1>1, <1>3, <1>6
    <2> QED BY <1>4, <2>1 DEF w
  <1> QED BY <1>5, <1>6

-----------------------------------------------------------------------------
(* Every collector keeps the promise.                                        *)

LEMMA WindowPromise ==
  ASSUME NEW from, NEW to, NEW q, Ready(from, to, q), kind \in Kinds
  PROVE  Promise(Window(from, to, q), from, to)
  <1> DEFINE gauged == kind \in {"d1.storage", "kv.storage", "queues.backlog", "durableobjects.sql_storage",
                                 "r2.storage", "rum.web_vitals"}
  <1>0. Counted <=> ~gauged
    BY DEF Counted
  <1>1. CASE kind = "d1.analytics"
    <2>1. kind \notin Raw /\ Window(from, to, q) = D1Window(from, to, FALSE, q)
      BY <1>1 DEF Window, Raw
    <2> QED BY <2>1, D1Promise
  <1>2. CASE kind = "d1.storage"
    <2>1. kind \notin Raw /\ ~Counted /\ Window(from, to, q) = D1Window(from, to, TRUE, q)
      BY <1>0, <1>2 DEF Window, Raw
    <2> QED BY <2>1, D1Promise
  <1>3. CASE kind = "kv.operations"
    <2>1. kind \notin Raw /\ Window(from, to, q) = KVWindow(from, to, FALSE, q)
      BY <1>3 DEF Window, Raw
    <2> QED BY <2>1, KVPromise
  <1>4. CASE kind = "kv.storage"
    <2>1. kind \notin Raw /\ ~Counted /\ Window(from, to, q) = KVWindow(from, to, TRUE, q)
      BY <1>0, <1>4 DEF Window, Raw
    <2> QED BY <2>1, KVPromise
  <1>5. CASE kind = "queues.message_operations"
    <2>1. kind \notin Raw /\ Window(from, to, q) = QueueWindow(from, to, FALSE, q)
      BY <1>5 DEF Window, Raw
    <2> QED BY <2>1, QueuePromise
  <1>6. CASE kind = "queues.backlog"
    <2>1. kind \notin Raw /\ ~Counted /\ Window(from, to, q) = QueueWindow(from, to, TRUE, q)
      BY <1>0, <1>6 DEF Window, Raw
    <2> QED BY <2>1, QueuePromise
  <1>7. CASE kind = "durableobjects.invocations"
    <2>1. kind \notin Raw /\ Window(from, to, q) = DOWindow(from, to, FALSE, q)
      BY <1>7 DEF Window, Raw
    <2> QED BY <2>1, DOPromise
  <1>8. CASE kind = "durableobjects.sql_storage"
    <2>1. kind \notin Raw /\ ~Counted /\ Window(from, to, q) = DOWindow(from, to, TRUE, q)
      BY <1>0, <1>8 DEF Window, Raw
    <2> QED BY <2>1, DOPromise
  <1>9. CASE kind = "r2.operations"
    <2>1. kind \notin Raw /\ Window(from, to, q) = R2Window(from, to, FALSE, q)
      BY <1>9 DEF Window, Raw
    <2> QED BY <2>1, R2Promise
  <1>10. CASE kind = "r2.storage"
    <2>1. kind \notin Raw /\ ~Counted /\ Window(from, to, q) = R2Window(from, to, TRUE, q)
      BY <1>0, <1>10 DEF Window, Raw
    <2> QED BY <2>1, R2Promise
  <1>11. CASE kind = "workersai.metrics"
    <2>1. kind \notin Raw /\ kind \notin NamedKinds /\ Window(from, to, q) = AIWindow(from, to, q)
      BY <1>11 DEF Window, Raw, NamedKinds
    <2> QED BY <2>1, AIPromise
  <1>12. CASE kind = "workers.overview"
    <2>1. kind \notin Raw /\ kind \notin NamedKinds /\ Window(from, to, q) = OverviewWindow(from, to, q)
      BY <1>12 DEF Window, Raw, NamedKinds
    <2> QED BY <2>1, OverviewPromise
  <1>13. CASE kind = "workers.invocations"
    <2>1. kind \notin Raw /\ kind \notin NamedKinds /\ Window(from, to, q) = InvocationsWindow(from, to, q)
      BY <1>13 DEF Window, Raw, NamedKinds
    <2> QED BY <2>1, InvocationsPromise
  <1>14. CASE kind = "turnstile.events"
    <2>1. kind \notin Raw /\ kind \notin NamedKinds /\ Window(from, to, q) = TurnstileWindow(from, to, q)
      BY <1>14 DEF Window, Raw, NamedKinds
    <2> QED BY <2>1, TurnstilePromise
  <1>15. CASE kind = "rum.pageloads"
    <2>1. kind \in Raw /\ Window(from, to, q) = PageloadsWindow(from, to, q)
      BY <1>15 DEF Window, Raw
    <2> QED BY <2>1, PageloadsPromise
  <1>16. CASE kind = "rum.web_vitals"
    <2>1. kind \in Raw /\ ~Counted /\ Window(from, to, q) = VitalsWindow(from, to, q)
      BY <1>0, <1>16 DEF Window, Raw
    <2> QED BY <2>1, VitalsPromise
  <1>17. CASE kind = "gateway.dns"
    <2>1. kind \in Raw /\ Window(from, to, q) = GatewayWindow(from, to, q)
      BY <1>17 DEF Window, Raw
    <2> QED BY <2>1, GatewayPromise
  <1>18. \/ kind \in {"d1.analytics", "d1.storage", "kv.operations", "kv.storage", "queues.message_operations"}
         \/ kind \in {"queues.backlog", "durableobjects.invocations", "durableobjects.sql_storage"}
         \/ kind \in {"r2.operations", "r2.storage", "workersai.metrics", "workers.overview"}
         \/ kind \in {"workers.invocations", "turnstile.events", "rum.pageloads", "rum.web_vitals", "gateway.dns"}
    BY KindAssumption DEF Raw
  <1> HIDE DEF gauged
  <1> QED BY <1>1, <1>2, <1>3, <1>4, <1>5, <1>6, <1>7, <1>8, <1>9, <1>10, <1>11, <1>12, <1>13, <1>14, <1>15,
             <1>16, <1>17, <1>18

\* The lag keeps the end of a window behind the clock by the holdback.
LEMMA UntilFacts ==
  ASSUME now \in Nat, Holdback <= now, mark \in Nat
  PROVE  Until \in Nat /\ Until + Holdback <= now
  <1>1. Holdback \in Nat /\ MaxWindow \in Nat
    BY LimitAssumption
  <1> DEFINE behind == now - Holdback
             low == FloorBucket(behind)
  <1>2. behind \in Nat
    BY <1>1
  <1>3. low \in Nat /\ low <= behind
    <2> HIDE DEF behind
    <2> QED BY <1>2, BucketFacts
  <1>4. now - Lag = IF kind \in Raw THEN behind ELSE low
    <2>1. Lag = IF kind \in Raw THEN Holdback ELSE now - low
      BY DEF Lag, LagAt
    <2> HIDE DEF low
    <2>2. now - (now - low) = low
      BY <1>3
    <2> QED BY <2>1, <2>2
  <1> HIDE DEF low
  <1>5. now - Lag \in Nat /\ (now - Lag) + Holdback <= now
    BY <1>1, <1>2, <1>3, <1>4
  <1>6. mark + MaxWindow \in Nat
    BY <1>1
  <1> DEFINE x == now - Lag
             y == mark + MaxWindow
  <1>7. Until = Least(x, y)
    BY DEF Until
  <1> HIDE DEF x, y
  <1>8. x \in Nat /\ y \in Nat /\ x + Holdback <= now
    BY <1>5, <1>6 DEF x, y
  <1> QED BY <1>1, <1>7, <1>8 DEF Least

\* What is due up to one cursor and from there to the next, once each.
LEMMA DueJoined ==
  ASSUME Data, NEW a \in Nat, NEW b \in Nat, NEW c \in Nat, a <= b, b < c, kind \in Raw \/ b = a \/ Aligned(b)
  PROVE  SumN(Due(a, c)) = SumN(Due(a, b)) + SumN(Due(b, c))
  <1>1. \A r \in world : r \in Due(a, c) <=> r \in Due(a, b) \/ r \in Due(b, c)
    <2> SUFFICES ASSUME NEW r \in world
                 PROVE  r \in Due(a, c) <=> r \in Due(a, b) \/ r \in Due(b, c)
      OBVIOUS
    <2> DEFINE at == FloorBucket(r.at)
    <2>1. r.at \in Nat
      BY WorldFacts
    <2>2. at \in Nat /\ Bucket \in Nat \ {0}
      BY <2>1, BucketFacts
    <2>3. Aligned(b) => b <= at \/ at + Bucket <= b
      BY <2>1, <2>2, BucketOrder
    <2>4. CASE kind \in Raw
      BY <2>1, <2>4 DEF Due
    <2>5. CASE kind \notin Raw
      <3>1. \A x, y : r \in Due(x, y) <=> CompleteBucket(at, x, y)
        BY <2>5 DEF Due, Delivered
      <3> HIDE DEF at
      <3>2. CompleteBucket(at, a, c) <=> CompleteBucket(at, a, b) \/ CompleteBucket(at, b, c)
        BY <2>2, <2>3, <2>5 DEF CompleteBucket
      <3> QED BY <3>1, <3>2
    <2> QED BY <2>4, <2>5
  <1>2. \A r \in world : ~(r \in Due(a, b) /\ r \in Due(b, c))
    <2> SUFFICES ASSUME NEW r \in world, r \in Due(a, b), r \in Due(b, c) PROVE FALSE
      OBVIOUS
    <2> DEFINE at == FloorBucket(r.at)
    <2>1. r.at \in Nat
      BY WorldFacts
    <2>2. at \in Nat /\ Bucket \in Nat \ {0}
      BY <2>1, BucketFacts
    <2>3. CASE kind \in Raw
      BY <2>1, <2>3 DEF Due
    <2>4. CASE kind \notin Raw
      <3>1. CompleteBucket(at, a, b) /\ CompleteBucket(at, b, c)
        BY <2>4 DEF Due, Delivered
      <3> HIDE DEF at
      <3> QED BY <2>2, <3>1 DEF CompleteBucket
    <2> QED BY <2>3, <2>4
  <1> DEFINE S == Due(a, c)
             T == Due(a, b)
             R == Due(b, c)
  <1>3. S \in SUBSET world /\ T \in SUBSET world /\ R \in SUBSET world
    BY DEF Due, Delivered
  <1>4. T \in SUBSET S /\ R \in SUBSET S /\ S \ T = R
    <2> HIDE DEF S, T, R
    <2> QED BY <1>1, <1>2, <1>3 DEF S, T, R
  <1> HIDE DEF S, T, R
  <1>5. Tallied(S)
    BY <1>3, WorldFacts, SumFacts
  <1>6. SumN(T) = Total(T, NOf(S)) /\ SumN(R) = Total(R, NOf(S)) /\ SumN(S) = Total(S, NOf(S)) /\ Counts(S, NOf(S))
    BY <1>4, <1>5, SumFacts
  <1>7. Total(S, NOf(S)) = Total(T, NOf(S)) + Total(S \ T, NOf(S))
    BY <1>4, <1>5, <1>6, TotalPart DEF Tallied
  <1>8. SumN(S) = SumN(T) + SumN(R)
    BY <1>4, <1>6, <1>7
  <1> QED BY <1>8 DEF S, T, R

LEMMA NothingDue ==
  ASSUME Data, NEW a \in Nat
  PROVE  Due(a, a) = {} /\ SumN(Due(a, a)) = 0
  <1>1. ASSUME NEW r \in world PROVE r \notin Due(a, a)
    <2> DEFINE at == FloorBucket(r.at)
    <2>1. r.at \in Nat
      BY WorldFacts
    <2>2. at \in Nat /\ Bucket \in Nat \ {0}
      BY <2>1, BucketFacts
    <2>3. ~CompleteBucket(at, a, a)
      <3> HIDE DEF at
      <3> QED BY <2>2 DEF CompleteBucket
    <2> QED BY <2>1, <2>3 DEF Due, Delivered
  <1>2. Due(a, a) = {}
    BY <1>1 DEF Due, Delivered
  <1>3. SumN({}) = 0
    BY TotalEmpty DEF SumN
  <1> QED BY <1>2, <1>3

-----------------------------------------------------------------------------
(* The invariant. *)

Cursor ==
  /\ kind \in Kinds /\ world \in Worlds /\ start \in Starts
  /\ now \in Nat /\ Holdback <= now /\ mark \in Nat /\ start <= mark
  /\ kind \in Raw \/ mark = start \/ Aligned(mark)
Names ==
  /\ admitted \in SUBSET Nat /\ IsFiniteSet(admitted) /\ Cardinality(admitted) <= MaxNames
  /\ \A s \in exported : s = <<s[1], s[2]>>
  /\ kind \in NamedKinds => \A s \in exported : s[1] = Main => s[2] = Other \/ s[2] \in admitted
Added ==
  /\ total \in [Metrics -> Nat] /\ lost \in [Metrics -> Nat]
  /\ Counted => total[Main] + lost[Main] = SumN(Due(start, mark))
  /\ total[Depth] + lost[Depth] <= SumN(Due(start, mark))
GroupedInv == Cursor /\ Names /\ Added

LEMMA PollReady ==
  ASSUME Cursor, Names, NEW q \in Requests, mark < Until
  PROVE  /\ Ready(mark, Until, q) /\ Promise(Window(mark, Until, q), mark, Until)
         /\ start \in Nat /\ EndOf(Until) \in Nat /\ (kind \in Raw \/ Aligned(EndOf(Until)))
  <1>1. now \in Nat /\ Holdback <= now /\ mark \in Nat
    BY DEF Cursor
  <1>2. Until \in Nat /\ Until + Holdback <= now
    BY <1>1, UntilFacts
  <1>3. Ready(mark, Until, q)
    BY <1>1, <1>2 DEF Ready, Data, Cursor, Names
  <1>4. kind \in Kinds
    BY DEF Cursor
  <1>5. Promise(Window(mark, Until, q), mark, Until)
    BY <1>3, <1>4, WindowPromise
  <1>6. start \in Nat
    BY LimitAssumption DEF Cursor
  <1>7. Hi(Until) \in Nat /\ Aligned(Hi(Until))
    BY <1>2, BucketFacts DEF Hi
  <1>8. EndOf(Until) \in Nat /\ (kind \in Raw \/ Aligned(EndOf(Until)))
    BY <1>2, <1>7 DEF EndOf
  <1> QED BY <1>3, <1>5, <1>6, <1>8

LEMMA InitGrouped ==
  ASSUME Init
  PROVE  GroupedInv
  <1>1. /\ kind \in Kinds /\ world \in Worlds /\ start \in Starts /\ now = Holdback /\ mark = start
        /\ admitted = {} /\ exported = {} /\ total = [m \in Metrics |-> 0] /\ lost = [m \in Metrics |-> 0]
    BY DEF Init
  <1>2. Holdback \in Nat /\ start \in Nat /\ MaxNames \in Nat
    BY <1>1, LimitAssumption
  <1>3. Data
    BY <1>1, <1>2 DEF Data
  <1>4. SumN(Due(start, mark)) = 0
    BY <1>1, <1>2, <1>3, NothingDue
  <1>5. Cursor
    BY <1>1, <1>2 DEF Cursor
  <1>6. Names
    BY <1>1, <1>2, FS_EmptySet DEF Names
  <1>7. Added
    BY <1>1, <1>4 DEF Added, Metrics, Main, Depth
  <1> QED BY <1>5, <1>6, <1>7 DEF GroupedInv

\* A window that is committed adds what is due between the two cursors.
LEMMA CommitAdds ==
  ASSUME Cursor, Names, Added, NEW q \in Requests, mark < Until,
         NEW w, w = Window(mark, Until, q), w.mark # mark, mark' = w.mark,
         total' = [m \in Metrics |-> total[m] + Sums(w.points, m)],
         lost' = [m \in Metrics |-> lost[m] + Sums(w.cut, m)],
         UNCHANGED <<kind, world, now, start>>
  PROVE  Cursor' /\ Added'
  <1> DEFINE before == SumN(Due(start, mark))
             more == SumN(Due(mark, w.mark))
             after == SumN(Due(start, w.mark))
  <1>1. Fulfilled(w, mark, Until) /\ Data /\ mark \in Nat /\ start \in Nat /\ start <= mark
        /\ EndOf(Until) \in Nat /\ (kind \in Raw \/ Aligned(EndOf(Until)))
    BY PollReady DEF Promise, Ready, Cursor
  <1>2. w.mark = EndOf(Until) /\ w.mark \in Nat /\ mark < w.mark
    BY <1>1 DEF Fulfilled
  <1>3. after = before + more
    BY <1>1, <1>2, DueJoined DEF Cursor
  <1>4. before \in Nat /\ more \in Nat /\ after \in Nat
    BY <1>1, DueSum
  <1>5. Due(start, mark)' = Due(start, w.mark)
    BY DEF Due, Delivered
  <1>6. SumN(Due(start, mark))' = after
    BY <1>5 DEF SumN
  <1>7. Cursor'
    BY <1>1, <1>2 DEF Cursor
  <1>8. /\ \A m \in Metrics : Sums(w.points, m) \in Nat /\ Sums(w.cut, m) \in Nat
        /\ Counted => Sums(w.points, Main) + Sums(w.cut, Main) = more
        /\ Sums(w.points, Depth) + Sums(w.cut, Depth) <= more
    BY <1>1 DEF Fulfilled
  <1>9. /\ total \in [Metrics -> Nat] /\ lost \in [Metrics -> Nat] /\ Main \in Metrics /\ Depth \in Metrics
        /\ Counted => total[Main] + lost[Main] = before
        /\ total[Depth] + lost[Depth] <= before
    BY DEF Added, Metrics
  <1>10. Counted' <=> Counted
    BY DEF Counted
  <1> HIDE DEF before, more, after
  <1>11. /\ total' \in [Metrics -> Nat] /\ lost' \in [Metrics -> Nat]
         /\ total'[Main] = total[Main] + Sums(w.points, Main) /\ lost'[Main] = lost[Main] + Sums(w.cut, Main)
         /\ total'[Depth] = total[Depth] + Sums(w.points, Depth) /\ lost'[Depth] = lost[Depth] + Sums(w.cut, Depth)
    BY <1>8, <1>9
  <1>12. \A m \in {Main, Depth} : /\ total[m] \in Nat /\ lost[m] \in Nat
                                  /\ Sums(w.points, m) \in Nat /\ Sums(w.cut, m) \in Nat
    BY <1>8, <1>9 DEF Metrics
  <1>13. Counted => total'[Main] + lost'[Main] = after
    BY <1>3, <1>4, <1>8, <1>9, <1>11, <1>12
  <1>14. total'[Depth] + lost'[Depth] <= after
    BY <1>3, <1>4, <1>8, <1>9, <1>11, <1>12
  <1>15. Added'
    BY <1>6, <1>10, <1>11, <1>13, <1>14 DEF Added, Metrics
  <1> QED BY <1>7, <1>15

LEMMA NextGrouped ==
  ASSUME GroupedInv, [Next]_vars
  PROVE  GroupedInv'
  <1>0. Cursor /\ Names /\ Added
    BY DEF GroupedInv
  <1> USE DEF GroupedInv
  <1>1. CASE Tick
    <2>1. /\ now' = now + 1 /\ kind' = kind /\ world' = world /\ start' = start /\ mark' = mark
          /\ admitted' = admitted /\ total' = total /\ lost' = lost /\ exported' = exported
      BY <1>1 DEF Tick
    <2>2. SumN(Due(start, mark))' = SumN(Due(start, mark)) /\ (Counted' <=> Counted)
      BY <2>1 DEF SumN, Due, Delivered, Counted
    <2>3. Cursor'
      BY <1>0, <2>1, LimitAssumption DEF Cursor
    <2>4. Names'
      BY <1>0, <2>1 DEF Names
    <2>5. Added'
      BY <1>0, <2>1, <2>2 DEF Added, Metrics
    <2> QED BY <2>3, <2>4, <2>5
  <1>2. ASSUME NEW q \in Requests, NEW commits \in BOOLEAN, Poll(q, commits) PROVE GroupedInv'
    <2> DEFINE w == Window(mark, Until, q)
    <2>1. mark < Until /\ UNCHANGED <<kind, world, now, start>> /\ admitted' = w.admitted
      BY <1>2 DEF Poll
    <2>2. /\ commits /\ w.mark # mark =>
               /\ mark' = w.mark
               /\ total' = [m \in Metrics |-> total[m] + Sums(w.points, m)]
               /\ lost' = [m \in Metrics |-> lost[m] + Sums(w.cut, m)]
               /\ exported' = exported \cup {<<p.metric, p.name>> : p \in w.points}
          /\ ~(commits /\ w.mark # mark) => UNCHANGED <<mark, total, lost, exported>>
      BY <1>2 DEF Poll
    <2>3. Promise(w, mark, Until)
      BY <1>0, <2>1, PollReady
    <2>4. Few(admitted') /\ admitted \subseteq admitted'
      BY <2>1, <2>3 DEF Promise, Few
    <2>5. admitted' \in SUBSET Nat /\ IsFiniteSet(admitted') /\ Cardinality(admitted') <= MaxNames
      BY <2>4 DEF Few
    <2>6. CASE commits /\ w.mark # mark
      <3>1. Cursor' /\ Added'
        <4> HIDE DEF w
        <4>1. w = Window(mark, Until, q)
          BY DEF w
        <4> QED BY <1>0, <2>1, <2>2, <2>6, <4>1, CommitAdds
      <3>2. Names'
        <4>1. \A s \in exported' : s \in exported \/ \E p \in w.points : s = <<p.metric, p.name>>
          BY <2>2, <2>6
        <4>2. kind \in NamedKinds => \A p \in w.points : p.metric = Main => p.name = Other \/ p.name \in admitted'
          BY <2>1, <2>3, <2>6 DEF Promise, Fulfilled, Named
        <4> HIDE DEF w
        <4>3. \A s \in exported' : s = <<s[1], s[2]>>
          BY <1>0, <4>1 DEF Names
        <4>4. kind \in NamedKinds => \A s \in exported' : s[1] = Main => s[2] = Other \/ s[2] \in admitted'
          BY <1>0, <2>4, <4>1, <4>2 DEF Names
        <4> QED BY <2>1, <2>5, <4>3, <4>4 DEF Names
      <3> QED BY <3>1, <3>2
    <2>7. CASE ~(commits /\ w.mark # mark)
      <3> HIDE DEF w
      <3>1. /\ now' = now /\ kind' = kind /\ world' = world /\ start' = start /\ mark' = mark
            /\ total' = total /\ lost' = lost /\ exported' = exported
        BY <2>1, <2>2, <2>7
      <3>2. SumN(Due(start, mark))' = SumN(Due(start, mark)) /\ (Counted' <=> Counted)
        BY <3>1 DEF SumN, Due, Delivered, Counted
      <3>3. Cursor'
        BY <1>0, <3>1 DEF Cursor
      <3>4. Names'
        BY <1>0, <2>4, <2>5, <3>1 DEF Names
      <3>5. Added'
        BY <1>0, <3>1, <3>2 DEF Added, Metrics
      <3> QED BY <3>3, <3>4, <3>5
    <2> QED BY <2>6, <2>7
  <1>3. CASE UNCHANGED vars
    <2>1. /\ now' = now /\ kind' = kind /\ world' = world /\ start' = start /\ mark' = mark
          /\ admitted' = admitted /\ total' = total /\ lost' = lost /\ exported' = exported
      BY <1>3 DEF vars
    <2>2. SumN(Due(start, mark))' = SumN(Due(start, mark)) /\ (Counted' <=> Counted)
      BY <2>1 DEF SumN, Due, Delivered, Counted
    <2>3. Cursor' /\ Names'
      BY <1>0, <2>1 DEF Cursor, Names
    <2>4. Added'
      BY <1>0, <2>1, <2>2 DEF Added, Metrics
    <2> QED BY <2>3, <2>4
  <1> QED BY <1>1, <1>2, <1>3 DEF Next

\* The cursor is a bucket's start once it has moved, the admitted names are
\* few and cover what was exported, and the counters hold what was due up to
\* the cursor: an invariant of every collector's polls.
THEOREM GroupedInvariant == Spec => []GroupedInv
  <1> QED BY InitGrouped, NextGrouped, PTL DEF Spec

LEMMA InvCounts ==
  ASSUME GroupedInv
  PROVE  CountsExact
  <1>1. {r \in world : Covered(r)} = Due(start, mark)
    BY DEF Covered, Due, Delivered
  <1> QED BY <1>1 DEF CountsExact, CountedOnce, DepthAtMostOnce, GroupedInv, Added

LEMMA InvSeries ==
  ASSUME GroupedInv
  PROVE  SeriesBounded
  <1> SUFFICES ASSUME kind \in NamedKinds
               PROVE  Cardinality({s \in exported : s[1] = Main /\ s[2] # Other}) <= MaxNames
    BY DEF SeriesBounded, NamedKinds
  <1> DEFINE f == [n \in admitted |-> <<Main, n>>]
             own == {s \in exported : s[1] = Main /\ s[2] # Other}
             all == {f[n] : n \in admitted}
  <1>1. /\ IsFiniteSet(admitted) /\ Cardinality(admitted) <= MaxNames
        /\ \A s \in exported : s = <<s[1], s[2]>>
        /\ \A s \in exported : s[1] = Main => s[2] = Other \/ s[2] \in admitted
    BY DEF GroupedInv, Names
  <1>2. own \in SUBSET all
    BY <1>1
  <1> HIDE DEF own, f
  <1>3. IsFiniteSet(all) /\ Cardinality(all) <= Cardinality(admitted)
    BY <1>1, FiniteValues
  <1> HIDE DEF all
  <1>4. IsFiniteSet(own) /\ Cardinality(own) <= Cardinality(all)
    BY <1>2, <1>3, FS_Subset
  <1>5. Cardinality(own) \in Nat /\ Cardinality(all) \in Nat /\ Cardinality(admitted) \in Nat /\ MaxNames \in Nat
    BY <1>1, <1>3, <1>4, FS_CardinalityType, LimitAssumption
  <1>6. Cardinality(own) <= MaxNames
    BY <1>1, <1>3, <1>4, <1>5
  <1> QED BY <1>6 DEF own

\* However windows are sized, split, sliced, refused and retried, each event of
\* the delivered ones is in the counter or in the cut once (CollectWindow of
\* the grouped collectors), and in the optional series at most once.
THEOREM CountsExactHolds == Spec => []CountsExact
  <1> QED BY GroupedInvariant, InvCounts, PTL

\* A metric never carries more names of its own than may be admitted
\* (nameAdmission of d1, kv, queues and durableobjects; capResources of r2).
THEOREM SeriesBoundedHolds == Spec => []SeriesBounded
  <1> QED BY GroupedInvariant, InvSeries, PTL

LEMMA StepNewest ==
  ASSUME GroupedInv, [Next]_vars, kind \notin Raw, mark' # mark, NEW p \in gauge'
  PROVE  \E r \in world : Recent(r, mark, mark') /\ r.level = p.value
  <1>1. PICK q \in Requests, commits \in BOOLEAN : Poll(q, commits)
    BY DEF Next, Tick, vars
  <1> DEFINE w == Window(mark, Until, q)
  <1>2. mark < Until /\ w.mark # mark /\ mark' = w.mark /\ gauge' = {x \in w.points : x.gauge}
    BY <1>1 DEF Poll
  <1>3. Promise(w, mark, Until)
    BY <1>2, PollReady DEF GroupedInv
  <1> HIDE DEF w
  <1> QED BY <1>2, <1>3 DEF Promise, Fulfilled, Gauged

\* A committed gauge is a level of a resource's last complete bucket in the
\* window, never an older one (aggregate, namedRows, collectDepth).
THEOREM GaugeNewestHolds == Spec => GaugeNewest
  <1>1. GroupedInv /\ [Next]_vars
        => [kind \notin Raw /\ mark' # mark =>
              \A p \in gauge' : \E r \in world : Recent(r, mark, mark') /\ r.level = p.value]_vars
    BY StepNewest
  <1> QED BY <1>1, GroupedInvariant, PTL DEF Spec, GaugeNewest

-----------------------------------------------------------------------------
(* A healthy dataset answers every query, so that no window is refused.      *)

\* A window whose own query is not saturated is not split.
LEMMA NotSplit ==
  ASSUME NEW from \in Nat, NEW to \in Nat, from <= to, NEW query, ~query[<<from, to>>].saturated
  PROVE  OnBuckets(from, to, query) = query[<<from, to>>]
  BY Unsplit, BucketAssumption DEF OnBuckets

Plenty(q) == ~q.stray /\ ~q.bad /\ Cardinality(world) < q.s.page /\ q.s.page \in Nat

LEMMA PlainAnswer ==
  ASSUME Data, NEW lo \in Nat, NEW hi \in Nat, NEW q, Plenty(q), NEW key \in {ById, ByNone}, NEW a, NEW b
  PROVE  /\ Answer(a, b, lo, hi, q, key) = Span(AllRows(key), a, b)
         /\ ~(Cardinality(Span(AllRows(key), a, b)) >= q.s.page)
         /\ Odd(lo, hi, q) = {} /\ Wrong(lo, hi, q) = {}
  <1>1. Odd(lo, hi, q) = {} /\ Oddities(a, b, lo, hi, q) \subseteq Odd(lo, hi, q)
    BY OddFacts DEF Plenty
  <1>2. Answer(a, b, lo, hi, q, key) = Span(AllRows(key), a, b) \cup Oddities(a, b, lo, hi, q)
    BY GroupsAre DEF Answer
  <1> DEFINE rows == Span(AllRows(key), a, b)
  <1>3. IsFiniteSet(rows) /\ Cardinality(rows) <= Cardinality(world) /\ IsFiniteSet(world)
    BY SpanSum, WorldFacts DEF Tallied
  <1> HIDE DEF rows
  <1>4. Cardinality(rows) \in Nat /\ Cardinality(world) \in Nat
    BY <1>3, FS_CardinalityType
  <1>5. ~(Cardinality(rows) >= q.s.page)
    BY <1>3, <1>4 DEF Plenty
  <1> QED BY <1>1, <1>2, <1>5 DEF rows, Wrong

LEMMA PagedOk ==
  ASSUME Data, NEW lo \in Nat, NEW hi \in Nat, lo <= hi, NEW q, Plenty(q), NEW key \in {ById, ByNone}, NEW answer,
         answer = OnBuckets(lo, hi, [w \in Parts(lo, hi) |-> Paged(Answer(w[1], w[2], lo, hi, q, key), q.s.page)])
  PROVE  answer.ok /\ answer.rows = Span(AllRows(key), lo, hi)
  <1> DEFINE query == [w \in Parts(lo, hi) |-> Paged(Answer(w[1], w[2], lo, hi, q, key), q.s.page)]
  <1>1. <<lo, hi>> \in Parts(lo, hi)
    BY DEF Parts
  <1>2. query[<<lo, hi>>] = Rows(Span(AllRows(key), lo, hi))
    BY <1>1, PlainAnswer, SMTT(30) DEF Paged
  <1> HIDE DEF query
  <1>3. ~query[<<lo, hi>>].saturated
    BY <1>2 DEF Rows
  <1>4. OnBuckets(lo, hi, query) = query[<<lo, hi>>]
    BY <1>3, NotSplit
  <1> QED BY <1>2, <1>4 DEF Rows, query

LEMMA StrictOk ==
  ASSUME Data, NEW lo \in Nat, NEW hi \in Nat, NEW q, Plenty(q), NEW key \in {ById, ByNone},
         NEW a \in Nat, NEW b \in Nat, a <= b, Aligned(b)
  PROVE  LET answer == OnBuckets(a, b, [w \in Parts(a, b) |->
                         Strict(Answer(w[1], w[2], lo, hi, q, key), w[1], w[2], q.s.page)])
         IN  answer.ok /\ answer.rows = Span(AllRows(key), a, b)
  <1> DEFINE query == [w \in Parts(a, b) |-> Strict(Answer(w[1], w[2], lo, hi, q, key), w[1], w[2], q.s.page)]
             rows == Span(AllRows(key), a, b)
  <1>1. <<a, b>> \in Parts(a, b)
    BY DEF Parts
  <1>2. \A g \in rows : CompleteBucket(g.at, a, b)
    <2> TAKE g \in rows
    <2>1. g \in AllRows(key) /\ a <= g.at /\ g.at < b
      BY DEF Span
    <2>2. g.at \in Nat /\ Aligned(g.at)
      BY <2>1, RowFacts
    <2>3. FloorBucket(g.at) = g.at
      BY <2>2, BucketFacts
    <2> QED BY <2>1, <2>2, <2>3, BucketOrder DEF CompleteBucket
  <1>3. Answer(a, b, lo, hi, q, key) = rows /\ ~(Cardinality(rows) >= q.s.page)
    BY PlainAnswer
  <1>4. query[<<a, b>>] = Strict(Answer(a, b, lo, hi, q, key), a, b, q.s.page)
    BY <1>1
  <1> HIDE DEF query, rows
  <1>5. query[<<a, b>>] = Rows(rows)
    BY <1>2, <1>3, <1>4 DEF Strict
  <1>6. ~query[<<a, b>>].saturated
    BY <1>5 DEF Rows
  <1>7. OnBuckets(a, b, query) = query[<<a, b>>]
    BY <1>6, NotSplit
  <1> QED BY <1>5, <1>7 DEF Rows, query, rows

LEMMA SlicedOk ==
  ASSUME Data, NEW lo \in Nat, NEW hi \in Nat, lo <= hi, Aligned(lo), Aligned(hi), NEW q, Plenty(q),
         NEW key \in {ById, ByNone}, NEW span \in Nat \ {0}, Aligned(span)
  PROVE  LET answer == Sliced(lo, hi, span, [v \in Parts(lo, hi) |->
                         OnBuckets(v[1], v[2], [w \in Parts(v[1], v[2]) |->
                           Strict(Answer(w[1], w[2], lo, hi, q, key), w[1], w[2], q.s.page)])])
         IN  answer.ok /\ answer.rows = Span(AllRows(key), lo, hi)
  <1> DEFINE query == [v \in Parts(lo, hi) |->
                         OnBuckets(v[1], v[2], [w \in Parts(v[1], v[2]) |->
                           Strict(Answer(w[1], w[2], lo, hi, q, key), w[1], w[2], q.s.page)])]
             starts == {a \in lo .. hi - 1 : (a - lo) % span = 0}
             answer == Sliced(lo, hi, span, query)
  <1>1. ASSUME NEW a \in starts PROVE query[<<a, Least(a + span, hi)>>].ok
    <2> DEFINE b == Least(a + span, hi)
               d == a - lo
    <2>1. a \in Nat /\ d \in Nat /\ d % span = 0 /\ a = lo + d /\ a < hi /\ lo <= a
      OBVIOUS
    <2>2. Aligned(a)
      <3> HIDE DEF d
      <3> QED BY <2>1, AlignedSteps
    <2>3. span % span = 0
      OBVIOUS
    <2>4. Aligned(a + span)
      BY <2>1, <2>2, <2>3, AlignedSteps
    <2>5. b \in Nat /\ a <= b /\ Aligned(b) /\ b <= hi
      BY <2>1, <2>4 DEF Least
    <2> HIDE DEF b, d, starts
    <2>6. <<a, b>> \in Parts(lo, hi)
      BY <2>1, <2>5 DEF Parts
    <2>7. query[<<a, b>>] = OnBuckets(a, b, [w \in Parts(a, b) |->
                              Strict(Answer(w[1], w[2], lo, hi, q, key), w[1], w[2], q.s.page)])
      BY <2>6
    <2> HIDE DEF query
    <2>8. query[<<a, b>>].ok
      BY <2>1, <2>5, <2>7, StrictOk
    <2> QED BY <2>8 DEF b
  <1>2. answer.ok
    <2> HIDE DEF query
    <2> QED BY <1>1 DEF Sliced, Rows
  <1>3. Holds(answer, AllRows(key), Wrong(lo, hi, q), lo, hi)
    BY SlicedRows
  <1>4. Wrong(lo, hi, q) = {}
    BY PlainAnswer
  <1> HIDE DEF answer
  <1>5. answer.rows = Span(AllRows(key), lo, hi)
    BY <1>2, <1>3, <1>4 DEF Holds
  <1> QED BY <1>2, <1>5 DEF answer

\* The rows of a span are valid, and one for each bucket and resource.
LEMMA SpanSound ==
  ASSUME Data, NEW key \in {ById, ByNone}, NEW a, NEW b, NEW X \in SUBSET Span(AllRows(key), a, b)
  PROVE  Sound(X) /\ ~Twice(X)
  <1>1. \A g \in X : g \in AllRows(key)
    BY DEF Span
  <1> QED BY <1>1, RowFacts DEF Sound, Twice

LEMMA WholeSpan ==
  ASSUME NEW from, NEW to, NEW q, Ready(from, to, q), ~Empty(from, to), NEW key \in {ById, ByNone},
         NEW f \in {from, Lo(from)}, NEW rows, rows = Span(AllRows(key), Lo(from), Hi(to))
  PROVE  Whole(rows, f, Hi(to)) = rows
  <1>0. Data
    BY DEF Ready
  <1>1. \A g \in rows : g.at \in Nat /\ Aligned(g.at) /\ Lo(from) <= g.at /\ g.at < Hi(to)
    <2>1. \A g \in rows : g \in AllRows(key)
      BY DEF Span
    <2> QED BY <1>0, <2>1, RowFacts DEF Span
  <1>2. \A t \in Nat : Aligned(t) => /\ CompleteBucket(t, from, Hi(to)) <=> Lo(from) <= t /\ t < Hi(to)
                                     /\ CompleteBucket(t, Lo(from), Hi(to)) <=> Lo(from) <= t /\ t < Hi(to)
    BY Bounds
  <1>3. \A g \in rows : CompleteBucket(g.at, f, Hi(to))
    <2> TAKE g \in rows
    <2>1. CompleteBucket(g.at, from, Hi(to)) /\ CompleteBucket(g.at, Lo(from), Hi(to))
      BY <1>1, <1>2
    <2> QED BY <2>1
  <1> QED BY <1>3 DEF Whole

Calm(from, to, q) == Ready(from, to, q) /\ Healthy(q) /\ SeriesCap > 0

LEMMA Sizes ==
  /\ Cardinality({"value"}) = 1 /\ Cardinality({"value", "bucket"}) = 2
  /\ Cardinality({"value", "bucket", "resource"}) = 3
  /\ \A T \in SUBSET {"depth", "actions"} : Cardinality({"bucket", "resource"} \cup T) <= 4
  <1>1. IsFiniteSet({"value"}) /\ Cardinality({"value"}) = 1
    BY FS_Singleton
  <1>2. {"value", "bucket"} = {"value"} \cup {"bucket"}
    OBVIOUS
  <1>3. IsFiniteSet({"value", "bucket"}) /\ Cardinality({"value", "bucket"}) = 2
    <2>1. "bucket" \notin {"value"}
      OBVIOUS
    <2>2. IsFiniteSet({"value"} \cup {"bucket"}) /\ Cardinality({"value"} \cup {"bucket"}) = Cardinality({"value"}) + 1
      BY <1>1, <2>1, FS_AddElement
    <2> QED BY <1>1, <1>2, <2>2
  <1>4. {"value", "bucket", "resource"} = {"value", "bucket"} \cup {"resource"}
    OBVIOUS
  <1>5. Cardinality({"value", "bucket", "resource"}) = 3
    <2>1. "resource" \notin {"value", "bucket"}
      OBVIOUS
    <2>2. Cardinality({"value", "bucket"} \cup {"resource"}) = Cardinality({"value", "bucket"}) + 1
      BY <1>3, <2>1, FS_AddElement
    <2> QED BY <1>3, <1>4, <2>2
  <1>6. ASSUME NEW T \in SUBSET {"depth", "actions"}
        PROVE  Cardinality({"bucket", "resource"} \cup T) <= 4
    <2> DEFINE name == [i \in 1 .. 4 |-> IF i = 1 THEN "bucket" ELSE IF i = 2 THEN "resource" ELSE IF i = 3 THEN "depth" ELSE "actions"]
               all == {name[i] : i \in 1 .. 4}
               some == {"bucket", "resource"} \cup T
    <2>1. some \in SUBSET all
      <3>1. name[1] = "bucket" /\ name[2] = "resource" /\ name[3] = "depth" /\ name[4] = "actions"
        OBVIOUS
      <3> HIDE DEF name
      <3> QED BY <3>1
    <2>2. IsFiniteSet(1 .. 4) /\ Cardinality(1 .. 4) = 4
      <3>1. 1 \in Int /\ 4 \in Int
        OBVIOUS
      <3>2. /\ IsFiniteSet(1 .. 4)
            /\ Cardinality(1 .. 4) = (IF 1 > 4 THEN 0 ELSE 4 - 1 + 1)
        BY ONLY <3>1, FS_Interval, Zenon
      <3>3. (IF 1 > 4 THEN 0 ELSE 4 - 1 + 1) = 4
        OBVIOUS
      <3> QED BY <3>2, <3>3
    <2>3. IsFiniteSet(all) /\ Cardinality(all) <= 4
      <3> HIDE DEF name
      <3> QED BY <2>2, FiniteValues
    <2> HIDE DEF all, some
    <2>4. IsFiniteSet(some) /\ Cardinality(some) <= Cardinality(all)
      BY <2>1, <2>3, FS_Subset
    <2>5. Cardinality(some) \in Nat /\ Cardinality(all) \in Nat
      BY <2>3, <2>4, FS_CardinalityType
    <2>6. Cardinality(some) <= 4
      BY <2>3, <2>4, <2>5
    <2> QED BY <2>6 DEF some
  <1> QED BY <1>1, <1>3, <1>5, <1>6

LEMMA CalmFacts ==
  ASSUME NEW from, NEW to, NEW q, Calm(from, to, q)
  PROVE  /\ Ready(from, to, q) /\ Data /\ Plenty(q) /\ Limited(q.s) /\ Entitled(q.s, {"value"})
         /\ Entitled(q.s, {"value", "bucket"}) /\ Entitled(q.s, {"value", "bucket", "resource"})
         /\ FloorBucket(q.s.span) \in Nat \ {0} /\ Aligned(FloorBucket(q.s.span))
         /\ q.s.page # 0 /\ q.s.retention # 0 /\ q.s.fields \in Nat /\ q.s.fields >= 5 /\ SeriesCap # 0
  <1>1. /\ Ready(from, to, q) /\ Data /\ q \in Requests /\ SeriesCap > 0 /\ SeriesCap \in Nat
    BY LimitAssumption DEF Calm, Ready
  <1>2. q.s \in Settings
    BY <1>1 DEF Requests
  <1>3. q.s.page \in Nat /\ q.s.span \in Nat /\ q.s.retention \in Nat /\ q.s.fields \in Nat
    BY <1>2, SettingsAssumption
  <1>4. /\ q.s.read /\ q.s.enabled /\ q.s.fields >= 5 /\ q.s.page > Cardinality(world)
        /\ q.s.span >= Bucket /\ q.s.retention > 0
        /\ {"value", "bucket", "resource", "depth"} \subseteq q.s.offered
        /\ ~q.stray /\ ~q.bad
    BY DEF Calm, Healthy
  <1>5. IsFiniteSet(world) /\ Cardinality(world) \in Nat
    BY <1>1, WorldFacts, FS_CardinalityType DEF Tallied
  <1> DEFINE span == q.s.span
             low == FloorBucket(span)
  <1>6. low \in Nat /\ span < low + Bucket /\ Aligned(low) /\ Bucket \in Nat \ {0}
    BY <1>3, BucketFacts
  <1>7. low # 0
    <2> HIDE DEF low
    <2> QED BY <1>3, <1>4, <1>6
  <1> HIDE DEF low, span
  <1>8. Plenty(q) /\ Limited(q.s)
    <2>1. q.s.page > 0
      BY <1>3, <1>4, <1>5
    <2>2. q.s.span > 0
      BY <1>3, <1>4, <1>6
    <2> QED BY <1>3, <1>4, <1>5, <2>1, <2>2 DEF Plenty, Limited
  <1>9. Entitled(q.s, {"value"}) /\ Entitled(q.s, {"value", "bucket"}) /\ Entitled(q.s, {"value", "bucket", "resource"})
    <2>1. q.s.fields >= 1 /\ q.s.fields >= 2 /\ q.s.fields >= 3
      BY <1>3, <1>4
    <2> DEFINE a == {"value"}
               b == {"value", "bucket"}
               c == {"value", "bucket", "resource"}
    <2>2. a \subseteq q.s.offered /\ b \subseteq q.s.offered /\ c \subseteq q.s.offered
      BY <1>4
    <2>3. Cardinality(a) = 1 /\ Cardinality(b) = 2 /\ Cardinality(c) = 3
      BY Sizes
    <2> HIDE DEF a, b, c
    <2>4. Entitled(q.s, a) /\ Entitled(q.s, b) /\ Entitled(q.s, c)
      BY <1>3, <1>4, <2>1, <2>2, <2>3 DEF Entitled
    <2> QED BY <2>4 DEF a, b, c
  <1>10. q.s.page # 0 /\ q.s.retention # 0 /\ SeriesCap # 0
    BY <1>1, <1>3, <1>4, <1>5
  <1> QED BY <1>1, <1>3, <1>4, <1>6, <1>7, <1>8, <1>9, <1>10 DEF low, span

LEMMA CalmBounds ==
  ASSUME NEW from, NEW to, NEW q, Ready(from, to, q), ~Empty(from, to)
  PROVE  /\ Lo(from) \in Nat /\ Hi(to) \in Nat /\ Lo(from) <= Hi(to) /\ Aligned(Lo(from)) /\ Aligned(Hi(to))
         /\ Lo(from) \in {from, Lo(from)} /\ from \in {from, Lo(from)}
  BY Bounds

LEMMA D1Advances ==
  ASSUME NEW from, NEW to, NEW q, Calm(from, to, q), ~Empty(from, to), NEW isGauge
  PROVE  D1Window(from, to, isGauge, q).mark = Hi(to)
  <1> DEFINE lo == Lo(from)
             hi == Hi(to)
             rows == D1Rows(lo, hi, q)
             named == D1Named(rows.rows, lo, hi, isGauge, q)
             depth == IF isGauge THEN Series({}) ELSE D1Depth(lo, hi, q)
             w == D1Window(from, to, isGauge, q)
  <1>0. /\ Ready(from, to, q) /\ Data /\ Plenty(q) /\ Entitled(q.s, {"value", "bucket"})
        /\ FloorBucket(q.s.span) \in Nat \ {0} /\ Aligned(FloorBucket(q.s.span))
        /\ q.s.page # 0 /\ q.s.retention # 0 /\ SeriesCap # 0
    BY CalmFacts
  <1>1. lo \in Nat /\ hi \in Nat /\ lo <= hi /\ Aligned(lo) /\ Aligned(hi) /\ lo \in {from, Lo(from)}
    BY <1>0, CalmBounds
  <1>2. PICK key \in {ById, ByNone} :
          rows = OnBuckets(lo, hi, [v \in Parts(lo, hi) |-> Paged(Answer(v[1], v[2], lo, hi, q, key), q.s.page)])
    BY KeyedFacts DEF D1Rows
  <1>3. rows.ok /\ rows.rows = Span(AllRows(key), lo, hi)
    <2> HIDE DEF rows, lo, hi
    <2> QED BY <1>0, <1>1, <1>2, PagedOk
  <1>4. named.ok
    <2>1. named.ok = Sound(Whole(rows.rows, lo, hi))
      BY DEF D1Named, D1Aggregate, Aggregate
    <2> HIDE DEF named, rows
    <2>2. Whole(rows.rows, lo, hi) = rows.rows
      BY <1>0, <1>1, <1>3, WholeSpan
    <2>3. Sound(rows.rows)
      BY <1>0, <1>3, SpanSound
    <2> QED BY <2>1, <2>2, <2>3
  <1>5. depth.ok
    <2> DEFINE answer == D1DepthRows(lo, hi, q)
               account == ByNone
    <2>1. account \in {ById, ByNone}
      OBVIOUS
    <2>2. answer = Sliced(lo, hi, FloorBucket(q.s.span), [v \in Parts(lo, hi) |->
                     OnBuckets(v[1], v[2], [u \in Parts(v[1], v[2]) |->
                       Strict(Answer(u[1], u[2], lo, hi, q, account), u[1], u[2], q.s.page)])])
      BY <1>0 DEF D1DepthRows
    <2> HIDE DEF answer, account, lo, hi
    <2>3. answer.ok /\ answer.rows = Span(AllRows(account), lo, hi)
      BY <1>0, <1>1, <2>1, <2>2, SlicedOk
    <2>4. Sound(answer.rows) /\ ~Twice(answer.rows)
      BY <1>0, <2>1, <2>3, SpanSound
    <2>5. D1Depth(lo, hi, q).ok
      BY <2>3, <2>4 DEF D1Depth, answer, Series
    <2>6. Series({}).ok
      BY DEF Series
    <2> QED BY <2>5, <2>6
  <1>6. w = WithDepth(hi, named, depth, SeriesCap)
    <2> HIDE DEF rows, named, depth
    <2> QED BY <1>0, <1>3, <1>4, <1>5 DEF D1Window, rows, named, depth
  <1> HIDE DEF w, named, depth
  <1> QED BY <1>6 DEF WithDepth, Deliver, w

LEMMA KVAdvances ==
  ASSUME NEW from, NEW to, NEW q, Calm(from, to, q), ~Empty(from, to), NEW isGauge
  PROVE  KVWindow(from, to, isGauge, q).mark = Hi(to)
  <1> DEFINE lo == Lo(from)
             hi == Hi(to)
             rows == KVRows(lo, hi, q)
             named == KVNamed(rows.rows, lo, hi, isGauge, q)
             kept == Capped(named.points, SeriesCap)
             w == KVWindow(from, to, isGauge, q)
  <1>0. /\ Ready(from, to, q) /\ Data /\ Plenty(q) /\ Entitled(q.s, {"value", "bucket"})
        /\ q.s.page # 0 /\ SeriesCap # 0
    BY CalmFacts
  <1>1. lo \in Nat /\ hi \in Nat /\ lo <= hi /\ lo \in {from, Lo(from)}
    BY <1>0, CalmBounds
  <1>2. PICK key \in {ById, ByNone} :
          rows = OnBuckets(lo, hi, [v \in Parts(lo, hi) |-> Paged(Answer(v[1], v[2], lo, hi, q, key), q.s.page)])
    BY KeyedFacts DEF KVRows
  <1>3. rows.ok /\ rows.rows = Span(AllRows(key), lo, hi)
    <2> HIDE DEF rows, lo, hi
    <2> QED BY <1>0, <1>1, <1>2, PagedOk
  <1>4. named.ok
    <2>1. named.ok = Sound(Whole(rows.rows, lo, hi))
      BY DEF KVNamed, KVAggregate, Aggregate
    <2> HIDE DEF named, rows
    <2>2. Whole(rows.rows, lo, hi) = rows.rows
      BY <1>0, <1>1, <1>3, WholeSpan
    <2>3. Sound(rows.rows)
      BY <1>0, <1>3, SpanSound
    <2> QED BY <2>1, <2>2, <2>3
  <1>5. w = Deliver(hi, kept, named.points \ kept, named.admitted)
    <2> HIDE DEF rows, named, kept
    <2> QED BY <1>0, <1>3, <1>4 DEF KVWindow, rows, named, kept
  <1> HIDE DEF w, named, kept
  <1> QED BY <1>5 DEF Deliver, w

LEMMA DOAdvances ==
  ASSUME NEW from, NEW to, NEW q, Calm(from, to, q), ~Empty(from, to), NEW isGauge
  PROVE  DOWindow(from, to, isGauge, q).mark = Hi(to)
  <1> DEFINE lo == Lo(from)
             hi == Hi(to)
             rows == DORows(lo, hi, q)
             named == DONamed(rows.rows, lo, hi, isGauge, q)
             depth == IF isGauge THEN Series({}) ELSE DODepth(lo, hi, q)
             w == DOWindow(from, to, isGauge, q)
  <1>0. /\ Ready(from, to, q) /\ Data /\ Plenty(q) /\ Limited(q.s) /\ Entitled(q.s, {"value", "bucket"})
        /\ FloorBucket(q.s.span) \in Nat \ {0} /\ Aligned(FloorBucket(q.s.span)) /\ SeriesCap # 0
    BY CalmFacts
  <1>1. lo \in Nat /\ hi \in Nat /\ lo <= hi /\ Aligned(lo) /\ Aligned(hi) /\ lo \in {from, Lo(from)}
    BY <1>0, CalmBounds
  <1>2. PICK key \in {ById, ByNone} :
          rows = OnBuckets(lo, hi, [v \in Parts(lo, hi) |-> Paged(Answer(v[1], v[2], lo, hi, q, key), q.s.page)])
    BY KeyedFacts DEF DORows
  <1>3. rows.ok /\ rows.rows = Span(AllRows(key), lo, hi)
    <2> HIDE DEF rows, lo, hi
    <2> QED BY <1>0, <1>1, <1>2, PagedOk
  <1>4. named.ok
    <2>1. named.ok = Sound(Whole(rows.rows, lo, hi))
      BY DEF DONamed, DOAggregate, Aggregate
    <2> HIDE DEF named, rows
    <2>2. Whole(rows.rows, lo, hi) = rows.rows
      BY <1>0, <1>1, <1>3, WholeSpan
    <2>3. Sound(rows.rows)
      BY <1>0, <1>3, SpanSound
    <2> QED BY <2>1, <2>2, <2>3
  <1>5. depth.ok
    <2> DEFINE answer == DODepthRows(lo, hi, q)
               each == ById
               scripts == {r \in answer.rows : r.id # Blank}
    <2>1. each \in {ById, ByNone}
      OBVIOUS
    <2>2. answer = Sliced(lo, hi, FloorBucket(q.s.span), [v \in Parts(lo, hi) |->
                     OnBuckets(v[1], v[2], [u \in Parts(v[1], v[2]) |->
                       Strict(Answer(u[1], u[2], lo, hi, q, each), u[1], u[2], q.s.page)])])
      BY <1>0 DEF DODepthRows
    <2> HIDE DEF answer, each, lo, hi
    <2>3. answer.ok /\ answer.rows = Span(AllRows(each), lo, hi)
      BY <1>0, <1>1, <2>1, <2>2, SlicedOk
    <2>4. scripts \in SUBSET Span(AllRows(each), lo, hi)
      BY <2>3
    <2> HIDE DEF scripts
    <2>5. Sound(answer.rows) /\ ~Twice(scripts)
      BY <1>0, <2>1, <2>3, <2>4, SpanSound
    <2>6. DODepth(lo, hi, q).ok
      BY <2>3, <2>5 DEF DODepth, answer, scripts, Series
    <2>7. Series({}).ok
      BY DEF Series
    <2> QED BY <2>6, <2>7
  <1>6. w = WithDepth(hi, named, depth, SeriesCap)
    <2> HIDE DEF rows, named, depth
    <2> QED BY <1>0, <1>3, <1>4, <1>5 DEF DOWindow, rows, named, depth
  <1> HIDE DEF w, named, depth
  <1> QED BY <1>6 DEF WithDepth, Deliver, w

\* A leaf of r2 answers what its query holds.
LEMMA R2Ok ==
  ASSUME Data, NEW lo \in Nat, NEW hi \in Nat, lo <= hi, NEW q, Plenty(q), NEW fields
  PROVE  \E key \in {ById, ByNone} :
           R2Rows(lo, hi, fields, q).ok /\ R2Rows(lo, hi, fields, q).rows = Span(AllRows(key), lo, hi)
  <1> DEFINE key == Keyed(fields)
             rows(w) == Answer(w[1], w[2], lo, hi, q, key)
             leaf(w) == IF Cardinality(rows(w)) >= q.s.page THEN Saturated
                        ELSE IF \A r \in rows(w) : w[1] <= r.at /\ r.at < w[2] THEN Rows(rows(w)) ELSE QueryFailed
             query == [w \in Parts(lo, hi) |-> leaf(w)]
             root == <<lo, hi>>
             all == Span(AllRows(key), lo, hi)
  <1>1. key \in {ById, ByNone}
    BY KeyedFacts
  <1>2. R2Rows(lo, hi, fields, q) = OnBuckets(lo, hi, query)
    BY DEF R2Rows
  <1>3. root \in Parts(lo, hi) /\ root[1] = lo /\ root[2] = hi
    BY DEF Parts
  <1> HIDE DEF key
  <1>4. rows(root) = all /\ ~(Cardinality(all) >= q.s.page)
    BY <1>1, <1>3, PlainAnswer
  <1>5. \A r \in all : lo <= r.at /\ r.at < hi
    BY DEF Span
  <1>6. query[root] = leaf(root)
    BY <1>3
  <1> HIDE DEF root, query, all, rows
  <1>7. query[root] = Rows(all)
    BY <1>3, <1>4, <1>5, <1>6
  <1>8. ~query[<<lo, hi>>].saturated
    BY <1>7 DEF Rows, root
  <1>9. OnBuckets(lo, hi, query) = query[<<lo, hi>>]
    BY <1>8, NotSplit
  <1>10. R2Rows(lo, hi, fields, q) = Rows(all)
    BY <1>2, <1>7, <1>9 DEF root
  <1> QED BY <1>1, <1>10 DEF Rows, all

LEMMA R2Advances ==
  ASSUME NEW from, NEW to, NEW q, Calm(from, to, q), ~Empty(from, to), NEW isGauge
  PROVE  R2Window(from, to, isGauge, q).mark = Hi(to)
  <1> DEFINE lo == Lo(from)
             hi == Hi(to)
             plan == R2Plan(q.s)
             answer == R2Rows(lo, hi, plan.fields, q)
             all == R2Points(answer.rows, lo, hi, isGauge)
             capped == R2Cap(all.points)
             kept == Capped(capped.points, IF SeriesCap = 0 THEN DefaultCap ELSE SeriesCap)
             w == R2Window(from, to, isGauge, q)
  <1>0. Ready(from, to, q) /\ Data /\ Plenty(q) /\ Limited(q.s) /\ Entitled(q.s, {"value", "bucket"})
    BY CalmFacts
  <1>1. lo \in Nat /\ hi \in Nat /\ lo <= hi /\ lo \in {from, Lo(from)}
    BY <1>0, CalmBounds
  <1>2. plan.ok
    BY <1>0 DEF R2Plan
  <1> HIDE DEF plan
  <1>3. PICK key \in {ById, ByNone} : answer.ok /\ answer.rows = Span(AllRows(key), lo, hi)
    <2> HIDE DEF lo, hi
    <2> QED BY <1>0, <1>1, R2Ok
  <1>4. all.ok
    <2>1. all.ok = (Sound(Whole(answer.rows, lo, hi)) /\ Whole(answer.rows, lo, hi) = answer.rows)
      BY DEF R2Points, Aggregate
    <2> HIDE DEF all, answer
    <2>2. Whole(answer.rows, lo, hi) = answer.rows
      BY <1>0, <1>1, <1>3, WholeSpan
    <2>3. Sound(answer.rows)
      BY <1>0, <1>3, SpanSound
    <2> QED BY <2>1, <2>2, <2>3
  <1>5. w = Deliver(hi, kept, capped.points \ kept, capped.admitted)
    <2> HIDE DEF answer, all, capped, kept
    <2> QED BY <1>0, <1>2, <1>3, <1>4 DEF R2Window, plan, answer, all, capped, kept
  <1> HIDE DEF w, kept, capped
  <1> QED BY <1>5 DEF Deliver, w

LEMMA AIAdvances ==
  ASSUME NEW from, NEW to, NEW q, Calm(from, to, q), ~Empty(from, to)
  PROVE  AIWindow(from, to, q).mark = Hi(to)
  <1> DEFINE lo == Lo(from)
             hi == Hi(to)
             key == ByNone
             answer == AIRows(lo, hi, q)
             w == AIWindow(from, to, q)
  <1>0. /\ Ready(from, to, q) /\ Data /\ Plenty(q) /\ Limited(q.s) /\ Entitled(q.s, {"value", "bucket"})
        /\ FloorBucket(q.s.span) \in Nat \ {0} /\ Aligned(FloorBucket(q.s.span)) /\ SeriesCap # 0
    BY CalmFacts
  <1>1. lo \in Nat /\ hi \in Nat /\ lo <= hi /\ Aligned(lo) /\ Aligned(hi)
    BY <1>0, CalmBounds
  <1>2. /\ key \in {ById, ByNone}
        /\ answer = Sliced(lo, hi, FloorBucket(q.s.span), [v \in Parts(lo, hi) |->
                      OnBuckets(v[1], v[2], [u \in Parts(v[1], v[2]) |->
                        Strict(Answer(u[1], u[2], lo, hi, q, key), u[1], u[2], q.s.page)])])
    BY DEF AIRows
  <1>3. answer.ok /\ answer.rows = Span(AllRows(key), lo, hi)
    <2> HIDE DEF answer, key, lo, hi
    <2> QED BY <1>0, <1>1, <1>2, SlicedOk
  <1>4. Sound(answer.rows)
    <2> HIDE DEF answer, key
    <2> QED BY <1>0, <1>2, <1>3, SpanSound
  <1>5. w.mark = hi
    <2> HIDE DEF answer
    <2> QED BY <1>0, <1>3, <1>4 DEF AIWindow, Deliver, answer
  <1> QED BY <1>5

LEMMA OverviewAdvances ==
  ASSUME NEW from, NEW to, NEW q, Calm(from, to, q), ~Empty(from, to)
  PROVE  OverviewWindow(from, to, q).mark = Hi(to)
  <1> DEFINE lo == Lo(from)
             hi == Hi(to)
             answer == OverviewRows(lo, hi, Chosen(q.s, {"value", "bucket"}, <<"resource">>), q)
             all == Aggregate(answer.rows, from, hi, FALSE, ScriptOf(answer.rows))
             w == OverviewWindow(from, to, q)
  <1>0. Ready(from, to, q) /\ Data /\ Plenty(q) /\ Limited(q.s) /\ Entitled(q.s, {"value", "bucket"}) /\ SeriesCap # 0
    BY CalmFacts
  <1>1. lo \in Nat /\ hi \in Nat /\ lo <= hi /\ from \in {from, Lo(from)}
    BY <1>0, CalmBounds
  <1>2. PICK key \in {ById, ByNone} :
          answer = OnBuckets(lo, hi, [v \in Parts(lo, hi) |-> Paged(Answer(v[1], v[2], lo, hi, q, key), q.s.page)])
    BY KeyedFacts DEF OverviewRows
  <1>3. answer.ok /\ answer.rows = Span(AllRows(key), lo, hi)
    <2> HIDE DEF answer, lo, hi
    <2> QED BY <1>0, <1>1, <1>2, PagedOk
  <1>4. all.ok
    <2>1. all.ok = Sound(Whole(answer.rows, from, hi))
      BY DEF Aggregate
    <2> HIDE DEF all, answer
    <2>2. Whole(answer.rows, from, hi) = answer.rows
      BY <1>0, <1>1, <1>3, WholeSpan
    <2>3. Sound(answer.rows)
      BY <1>0, <1>3, SpanSound
    <2> QED BY <2>1, <2>2, <2>3
  <1>5. w.mark = hi
    <2> HIDE DEF answer, all
    <2> QED BY <1>0, <1>3, <1>4 DEF OverviewWindow, Deliver, answer, all
  <1> QED BY <1>5

LEMMA TurnstileAdvances ==
  ASSUME NEW from, NEW to, NEW q, Calm(from, to, q), ~Empty(from, to)
  PROVE  TurnstileWindow(from, to, q).mark = Hi(to)
  <1> DEFINE lo == Lo(from)
             hi == Hi(to)
             key == ByNone
             answer == TurnstileRows(lo, hi, q)
             all == Aggregate(answer.rows, from, hi, FALSE, ByAccount(answer.rows))
             w == TurnstileWindow(from, to, q)
  <1>0. Ready(from, to, q) /\ Data /\ Plenty(q) /\ Limited(q.s) /\ Entitled(q.s, {"value", "bucket"}) /\ SeriesCap # 0
    BY CalmFacts
  <1>1. lo \in Nat /\ hi \in Nat /\ lo <= hi /\ from \in {from, Lo(from)}
    BY <1>0, CalmBounds
  <1>2. /\ key \in {ById, ByNone}
        /\ answer = OnBuckets(lo, hi, [v \in Parts(lo, hi) |-> Paged(Answer(v[1], v[2], lo, hi, q, key), q.s.page)])
    BY DEF TurnstileRows
  <1> HIDE DEF key
  <1>3. answer.ok /\ answer.rows = Span(AllRows(key), lo, hi)
    <2> HIDE DEF answer, lo, hi
    <2> QED BY <1>0, <1>1, <1>2, PagedOk
  <1>4. all.ok
    <2>1. all.ok = Sound(Whole(answer.rows, from, hi))
      BY DEF Aggregate
    <2> HIDE DEF all, answer
    <2>2. Whole(answer.rows, from, hi) = answer.rows
      BY <1>0, <1>1, <1>2, <1>3, WholeSpan
    <2>3. Sound(answer.rows)
      BY <1>0, <1>2, <1>3, SpanSound
    <2> QED BY <2>1, <2>2, <2>3
  <1>5. w.mark = hi
    <2> HIDE DEF answer, all
    <2> QED BY <1>0, <1>3, <1>4 DEF TurnstileWindow, Deliver, answer, all
  <1> QED BY <1>5

LEMMA InvocationsAdvances ==
  ASSUME NEW from, NEW to, NEW q, Calm(from, to, q), ~Empty(from, to)
  PROVE  InvocationsWindow(from, to, q).mark = Hi(to)
  <1> DEFINE lo == Lo(from)
             hi == Hi(to)
             key == ById
             answer == InvocationRows(lo, hi, q)
             quantiles == q.s.offered \cap {"depth", "actions"}
             sums == Aggregate(answer.rows, lo, hi, FALSE, ScriptOf(answer.rows))
             whole == {r \in Whole(answer.rows, lo, hi) : r.id # Blank}
             size == Cardinality({"bucket", "resource"} \cup quantiles)
             w == InvocationsWindow(from, to, q)
  <1>0. /\ Ready(from, to, q) /\ Data /\ Plenty(q) /\ Limited(q.s)
        /\ Entitled(q.s, {"value", "bucket", "resource"}) /\ SeriesCap # 0 /\ q.s.fields \in Nat /\ q.s.fields >= 5
    BY CalmFacts
  <1>1. lo \in Nat /\ hi \in Nat /\ lo <= hi /\ lo \in {from, Lo(from)}
    BY <1>0, CalmBounds
  <1>2. /\ key \in {ById, ByNone}
        /\ answer = OnBuckets(lo, hi, [v \in Parts(lo, hi) |-> Paged(Answer(v[1], v[2], lo, hi, q, key), q.s.page)])
    BY DEF InvocationRows
  <1> HIDE DEF key
  <1>3. answer.ok /\ answer.rows = Span(AllRows(key), lo, hi)
    <2> HIDE DEF answer, lo, hi
    <2> QED BY <1>0, <1>1, <1>2, PagedOk
  <1>4. Whole(answer.rows, lo, hi) = answer.rows
    <2> HIDE DEF answer
    <2> QED BY <1>0, <1>1, <1>2, <1>3, WholeSpan
  <1>5. sums.ok
    <2>1. sums.ok = Sound(Whole(answer.rows, lo, hi))
      BY DEF Aggregate
    <2> HIDE DEF sums, answer
    <2>2. Sound(answer.rows)
      BY <1>0, <1>2, <1>3, SpanSound
    <2> QED BY <1>4, <2>1, <2>2
  <1>6. Sound(whole) /\ ~Twice(whole)
    <2>1. whole \in SUBSET Span(AllRows(key), lo, hi)
      BY <1>3, <1>4
    <2> HIDE DEF whole
    <2> QED BY <1>0, <1>2, <2>1, SpanSound
  <1>7. ~(size > q.s.fields)
    <2>1. quantiles \in SUBSET {"depth", "actions"}
      OBVIOUS
    <2> HIDE DEF quantiles
    <2>2. size <= 4
      BY <2>1, Sizes
    <2>3. size \in Nat
      <3> DEFINE pair == {"bucket", "resource"}
                 names == {"depth", "actions"}
      <3>1. IsFiniteSet({"bucket"}) /\ IsFiniteSet({"resource"}) /\ IsFiniteSet({"depth"}) /\ IsFiniteSet({"actions"})
        BY FS_Singleton
      <3>2. pair = {"bucket"} \cup {"resource"} /\ names = {"depth"} \cup {"actions"}
        OBVIOUS
      <3>3. IsFiniteSet({"bucket"} \cup {"resource"}) /\ IsFiniteSet({"depth"} \cup {"actions"})
        BY <3>1, FS_Union
      <3>4. IsFiniteSet(pair) /\ IsFiniteSet(names) /\ quantiles \in SUBSET names
        BY <2>1, <3>2, <3>3
      <3> HIDE DEF pair, names
      <3>5. IsFiniteSet(quantiles)
        BY <3>4, FS_Subset
      <3>6. IsFiniteSet(pair \cup quantiles)
        BY <3>4, <3>5, FS_Union
      <3>7. Cardinality(pair \cup quantiles) \in Nat
        BY <3>6, FS_CardinalityType
      <3> QED BY <3>7 DEF pair
    <2> HIDE DEF size
    <2> QED BY <1>0, <2>2, <2>3
  <1>8. w.mark = hi
    <2> HIDE DEF answer, sums, whole, size, quantiles
    <2>1. w = IF SeriesCap = 0 \/ Empty(from, to) \/ ~Limited(q.s) \/ ~Entitled(q.s, {"value", "bucket", "resource"})
                   \/ size > q.s.fields
                   \/ ~answer.ok \/ ~sums.ok \/ (quantiles # {} /\ (Twice(whole) \/ ~Sound(whole)))
              THEN Refuse(from)
              ELSE LET levels == IF quantiles = {} THEN {} ELSE Gauges(whole, DepthLevel, ScriptOf(whole))
                       kept == Capped(sums.points \cup levels, SeriesCap)
                   IN  Deliver(hi, kept, (sums.points \cup levels) \ kept, admitted)
      BY DEF InvocationsWindow, answer, sums, whole, size, quantiles
    <2> HIDE DEF w
    <2> QED BY <1>0, <1>3, <1>5, <1>6, <1>7, <2>1 DEF Deliver
  <1> QED BY <1>8

\* The rows of named resources have ids.
LEMMA IdsKept ==
  ASSUME Data, \A r \in world : r.id # Blank, NEW a, NEW b
  PROVE  \A g \in Span(AllRows(ById), a, b) : g.id # Blank
  <1> TAKE g \in Span(AllRows(ById), a, b)
  <1>1. g \in AllRows(ById)
    BY DEF Span
  <1> DEFINE key == ById
  <1>2. key \in {ById, ByNone}
    OBVIOUS
  <1>3. \A r \in Visible : r \in world /\ key[r.id] = r.id
    BY WorldFacts DEF ById, Ids
  <1> HIDE DEF key
  <1>4. PICK r \in Visible : Bin(r, key) = <<g.at, g.id>>
    BY <1>1, <1>2, RowFacts DEF key
  <1>5. key[r.id] = g.id
    BY <1>4 DEF Bin
  <1> QED BY <1>3, <1>5

LEMMA QueueAdvances ==
  ASSUME NEW from, NEW to, NEW q, Calm(from, to, q), ~Empty(from, to), NEW isGauge \in BOOLEAN,
         \A r \in world : r.id # Blank
  PROVE  QueueWindow(from, to, isGauge, q).mark = Hi(to)
  <1> DEFINE lo == Lo(from)
             hi == Hi(to)
             plan == QueuePlan(q.s, isGauge)
             rows == QueueRows(lo, hi, plan.fields, q)
             named == QueueNamed(rows.rows, lo, hi, isGauge, q)
             depth == IF isGauge THEN Series({}) ELSE QueueDepth(lo, hi, q)
             w == QueueWindow(from, to, isGauge, q)
             key == Keyed(plan.fields)
  <1>0. /\ Ready(from, to, q) /\ Data /\ Plenty(q) /\ Limited(q.s) /\ Entitled(q.s, {"value", "bucket"})
        /\ Entitled(q.s, {"value", "bucket", "resource"})
        /\ FloorBucket(q.s.span) \in Nat \ {0} /\ Aligned(FloorBucket(q.s.span))
    BY CalmFacts
  <1>1. lo \in Nat /\ hi \in Nat /\ lo <= hi /\ Aligned(lo) /\ Aligned(hi) /\ lo \in {from, Lo(from)}
    BY <1>0, CalmBounds
  <1>2. plan.ok
    <2>1. QueueRequired(isGauge) = IF isGauge THEN {"value", "bucket", "resource"} ELSE {"value", "bucket"}
      BY DEF QueueRequired
    <2> QED BY <1>0, <2>1 DEF QueuePlan
  <1>3. key \in {ById, ByNone} /\ (isGauge => key = ById)
    <2>1. isGauge => "resource" \in QueueRequired(isGauge)
      BY DEF QueueRequired
    <2>2. QueueRequired(isGauge) \subseteq plan.fields
      <3>1. \A optional : QueueRequired(isGauge) \subseteq Chosen(q.s, QueueRequired(isGauge), optional)
        BY Zenon DEF Chosen
      <3> QED BY <3>1 DEF QueuePlan
    <2> QED BY <2>1, <2>2 DEF Keyed
  <1> HIDE DEF key
  <1>4. rows = OnBuckets(lo, hi, [v \in Parts(lo, hi) |->
                 Strict(Answer(v[1], v[2], lo, hi, q, key), v[1], v[2], q.s.page)])
    BY DEF QueueRows, key
  <1> HIDE DEF plan
  <1>5. rows.ok /\ rows.rows = Span(AllRows(key), lo, hi)
    <2> HIDE DEF rows, lo, hi
    <2> QED BY <1>0, <1>1, <1>3, <1>4, StrictOk
  <1>6. named.ok
    <2>1. named.ok = (Sound(Whole(rows.rows, lo, hi)) /\ Whole(rows.rows, lo, hi) = rows.rows
                        /\ (isGauge => \A r \in rows.rows : r.id # Blank))
      BY DEF QueueNamed, QueueAggregate, Aggregate
    <2> HIDE DEF named, rows
    <2>2. Whole(rows.rows, lo, hi) = rows.rows
      BY <1>0, <1>1, <1>3, <1>5, WholeSpan
    <2>3. Sound(rows.rows)
      BY <1>0, <1>3, <1>5, SpanSound
    <2>4. isGauge => \A r \in rows.rows : r.id # Blank
      BY <1>0, <1>3, <1>5, IdsKept
    <2> QED BY <2>1, <2>2, <2>3, <2>4
  <1>7. depth.ok
    <2>1. ASSUME NEW other \in {ById, ByNone}
          PROVE  LET answer == QueueDepthRows(lo, hi, q, other)
                 IN  answer.ok /\ answer.rows = Span(AllRows(other), lo, hi)
      <3> DEFINE answer == QueueDepthRows(lo, hi, q, other)
      <3>1. answer = Sliced(lo, hi, FloorBucket(q.s.span), [v \in Parts(lo, hi) |->
                       OnBuckets(v[1], v[2], [u \in Parts(v[1], v[2]) |->
                         Strict(Answer(u[1], u[2], lo, hi, q, other), u[1], u[2], q.s.page)])])
        BY <1>0 DEF QueueDepthRows
      <3> HIDE DEF answer, lo, hi
      <3>2. answer.ok /\ answer.rows = Span(AllRows(other), lo, hi)
        BY <1>0, <1>1, <3>1, SlicedOk
      <3> QED BY <3>2 DEF answer
    <2> DEFINE lag == IF {"depth", "resource"} \subseteq q.s.offered /\ q.s.fields > 2
                      THEN QueueDepthRows(lo, hi, q, ById) ELSE Rows({})
               bill == IF "actions" \in q.s.offered /\ q.s.fields >= 5
                       THEN QueueDepthRows(lo, hi, q, ByNone) ELSE Rows({})
               newest == NewestOf(lag.rows)
    <2>2. lag.ok /\ lag.rows \in SUBSET Span(AllRows(ById), lo, hi)
      BY <2>1 DEF Rows
    <2>3. bill.ok /\ bill.rows \in SUBSET Span(AllRows(ByNone), lo, hi)
      BY <2>1 DEF Rows
    <2>4. newest \in SUBSET Span(AllRows(ById), lo, hi)
      BY <2>2 DEF NewestOf
    <2> HIDE DEF lag, bill, newest
    <2>5. Sound(newest) /\ ~Twice(lag.rows) /\ Sound(bill.rows) /\ ~Twice(bill.rows)
      BY <1>0, <2>2, <2>3, <2>4, SpanSound
    <2>6. \A r \in lag.rows : r.id # Blank
      BY <1>0, <2>2, IdsKept
    <2>7. QueueDepth(lo, hi, q) =
            IF ~lag.ok \/ Twice(lag.rows) \/ (\E r \in lag.rows : r.id = Blank)
                 \/ ~Sound(newest) \/ ~bill.ok \/ ~Sound(bill.rows) \/ Twice(bill.rows)
            THEN Failed
            ELSE Series(Gauges(newest, DepthLevel, ByAccount(lag.rows))
                          \cup Counters(bill.rows, Depth, ByAccount(bill.rows)))
      BY DEF QueueDepth, lag, bill, newest
    <2>8. QueueDepth(lo, hi, q).ok
      BY <2>2, <2>3, <2>5, <2>6, <2>7 DEF Series
    <2>9. Series({}).ok
      BY DEF Series
    <2> QED BY <2>8, <2>9
  <1>8. w = WithDepth(hi, named, depth, IF SeriesCap = 0 THEN DefaultCap ELSE SeriesCap)
    <2> HIDE DEF rows, named, depth
    <2> QED BY <1>0, <1>2, <1>5, <1>6, <1>7 DEF QueueWindow, rows, named, depth, plan
  <1> HIDE DEF w, named, depth
  <1> QED BY <1>8 DEF WithDepth, Deliver, w

\* The answer of a dataset without buckets, in full.
LEMMA CalmTallies ==
  ASSUME NEW from, NEW to, NEW q, Calm(from, to, q), kind \in Raw, NEW key \in {ById, ByNone}, NEW a, NEW b
  PROVE  ~(Cardinality(Tallies(a, b, q, key)) >= QueryLimit) /\ Sound(Tallies(a, b, q, key))
  <1> DEFINE rows == Tallies(a, b, q, key)
             ids == {r.id : r \in world}
             idOf == [r \in world |-> r.id]
  <1>0. Data /\ ~q.bad /\ Cardinality(ids) < QueryLimit /\ QueryLimit \in Nat
    BY CalmFacts, LimitAssumption DEF Calm, Healthy
  <1>1. IsFiniteSet(world)
    BY <1>0, WorldFacts DEF Tallied
  <1>2. IsFiniteSet(ids)
    <2>1. ids = {idOf[r] : r \in world}
      OBVIOUS
    <2> HIDE DEF ids, idOf
    <2> QED BY <1>1, <2>1, FiniteValues
  <1>3. /\ Tallied(Tallies(a, b, q, key)) /\ SumN(Tallies(a, b, q, key)) = SumN(Between(a, b))
        /\ Cardinality(Tallies(a, b, q, key)) <= Cardinality({r.id : r \in world})
        /\ \A g \in Tallies(a, b, q, key) :
             /\ g.valid = ~q.bad
             /\ \E T \in SUBSET Between(a, b) : T # {} /\ g.n = SumN(T)
    <2>1. Data
      BY <1>0
    <2> QED BY ONLY <2>1, key \in {ById, ByNone}, TalliesFacts
  <1>4. IsFiniteSet(rows) /\ Cardinality(rows) <= Cardinality(ids)
    BY <1>3 DEF Tallied
  <1>5. \A g \in rows : g.valid
    BY <1>0, <1>3
  <1> HIDE DEF rows, ids
  <1>6. Cardinality(rows) \in Nat /\ Cardinality(ids) \in Nat
    BY <1>2, <1>4, FS_CardinalityType
  <1>7. ~(Cardinality(rows) >= QueryLimit)
    BY <1>0, <1>4, <1>6
  <1> QED BY <1>5, <1>7 DEF Sound, rows

LEMMA RawAdvances ==
  ASSUME NEW from, NEW to, NEW q, Calm(from, to, q), kind \in Raw, \A r \in world : r.n > 0
  PROVE  /\ PageloadsWindow(from, to, q).mark = to /\ VitalsWindow(from, to, q).mark = to
         /\ GatewayWindow(from, to, q).mark = to
  <1> DEFINE plan == FieldsForAccount(q.s, {"value"}, <<"resource">>)
             key == Keyed(plan.fields)
             other == Keyed(Chosen(q.s, {"value"}, <<"resource">>))
             rows == Tallies(from, to, q, key)
             recent == Tallies(to - Least(to, Rolling), to, q, key)
             queries == Tallies(from, to, q, other)
  <1>0. /\ Ready(from, to, q) /\ Data /\ Limited(q.s) /\ Entitled(q.s, {"value"}) /\ q.s.fields \in Nat /\ q.s.fields >= 5
        /\ q \in Requests
    BY CalmFacts DEF Ready
  <1>1. from \in Nat /\ to \in Nat /\ ~(from >= to)
    BY <1>0 DEF Ready
  <1>2. plan.ok
    <2>1. q.s.fields # 0
      BY <1>0
    <2> DEFINE unlimited == [q.s EXCEPT !.fields = IF @ = 0 THEN Len(<<"resource">>) + Cardinality({"value"}) ELSE @]
    <2>2. q.s \in [read : BOOLEAN, enabled : BOOLEAN, fields : Nat, page : Nat, span : Nat, retention : Nat,
                   offered : SUBSET STRING]
      BY <1>0, SettingsAssumption DEF Requests
    <2>3. unlimited.read = q.s.read /\ unlimited.enabled = q.s.enabled /\ unlimited.fields = q.s.fields
          /\ unlimited.offered = q.s.offered
      BY <2>1, <2>2
    <2> HIDE DEF unlimited
    <2>4. Entitled(unlimited, {"value"})
      BY <1>0, <2>3 DEF Entitled
    <2> QED BY <2>4 DEF FieldsForAccount, unlimited
  <1>3. key \in {ById, ByNone} /\ other \in {ById, ByNone}
    BY KeyedFacts
  <1> HIDE DEF plan, key, other
  <1>4. /\ ~(Cardinality(rows) >= QueryLimit) /\ Sound(rows)
        /\ ~(Cardinality(recent) >= QueryLimit) /\ Sound(recent)
        /\ ~(Cardinality(queries) >= QueryLimit) /\ Sound(queries)
    BY <1>3, CalmTallies
  <1>5. ~ \E g \in queries : g.n = 0
    <2> SUFFICES ASSUME NEW g \in queries PROVE g.n # 0
      OBVIOUS
    <2>1. /\ Tallied(Tallies(from, to, q, other)) /\ SumN(Tallies(from, to, q, other)) = SumN(Between(from, to))
          /\ Cardinality(Tallies(from, to, q, other)) <= Cardinality({r.id : r \in world})
          /\ \A x \in Tallies(from, to, q, other) :
               /\ x.valid = ~q.bad
               /\ \E T \in SUBSET Between(from, to) : T # {} /\ x.n = SumN(T)
      <3>1. Data
        BY <1>0
      <3>2. other \in {ById, ByNone}
        BY <1>3
      <3> QED BY ONLY <3>1, <3>2, TalliesFacts
    <2>2. PICK T \in SUBSET Between(from, to) : T # {} /\ g.n = SumN(T)
      BY <2>1
    <2>3. T \in SUBSET world /\ Tallied(T)
      <3>1. Tallied(world) /\ Between(from, to) \in SUBSET world
        BY <1>0, WorldFacts DEF Between
      <3> QED BY <3>1, SumFacts
    <2>4. PICK r \in T : TRUE
      BY <2>2
    <2> DEFINE one == {r}
    <2>5. one \in SUBSET T
      BY <2>4
    <2> HIDE DEF one
    <2>6. SumN(T) \in Nat /\ SumN(one) \in Nat /\ SumN(one) = Total(one, NOf(T)) /\ SumN(one) <= SumN(T)
      BY <2>3, <2>5, SumFacts
    <2>7. NOf(T)[r] = r.n /\ r.n \in Nat /\ r.n > 0
      BY <1>0, <2>3, <2>4, WorldFacts DEF NOf
    <2>8. Total({r}, NOf(T)) = NOf(T)[r]
      BY <2>7, TotalOne
    <2>9. SumN(one) > 0
      BY <2>6, <2>7, <2>8 DEF one
    <2> QED BY <2>2, <2>6, <2>9
  <1> HIDE DEF rows, recent, queries
  <1>6. PageloadsWindow(from, to, q).mark = to
    BY <1>1, <1>2, <1>4 DEF PageloadsWindow, plan, key, rows, Deliver
  <1>7. VitalsWindow(from, to, q).mark = to
    BY <1>1, <1>2, <1>4 DEF VitalsWindow, plan, key, recent, Deliver
  <1>8. GatewayWindow(from, to, q).mark = to
    BY <1>0, <1>1, <1>4, <1>5 DEF GatewayWindow, other, queries, Deliver
  <1> QED BY <1>6, <1>7, <1>8

-----------------------------------------------------------------------------
(* No cursor is stuck. *)

\* What configuration validation and the dataset guarantee.
WideEnough ==
  /\ 2 * Bucket <= MaxWindow + 1 /\ SeriesCap > 0
  /\ \A rows \in Worlds : \A r \in rows : r.n > 0

Identified == kind \in {"queues.message_operations", "queues.backlog"} => \A r \in world : r.id # Blank

\* A whole bucket between the cursor and the lag leaves room for a window.
LEMMA RoomThere ==
  ASSUME Cursor, Available, 2 * Bucket <= MaxWindow + 1
  PROVE  mark < Until /\ (kind \notin Raw => ~Empty(mark, Until))
  <1>0. /\ now \in Nat /\ Holdback <= now /\ mark \in Nat /\ Holdback \in Nat /\ MaxWindow \in Nat
        /\ Bucket \in Nat \ {0} /\ MaxTime \in Nat
    BY LimitAssumption, BucketAssumption DEF Cursor
  <1>1. Until \in Nat
    BY <1>0, UntilFacts
  <1>2. CASE kind \in Raw
    <2>1. mark + Holdback < now /\ Lag = Holdback
      BY <1>2 DEF Available, Lag
    <2>2. now - Holdback \in Nat /\ mark < now - Holdback /\ mark < mark + MaxWindow
      BY <1>0, <2>1
    <2> QED BY <1>2, <2>1, <2>2 DEF Until, Least
  <1>3. CASE kind \notin Raw
    <2>1. PICK b \in 0 .. MaxTime : mark <= b * Bucket /\ (b + 1) * Bucket + Holdback <= now
      BY <1>3 DEF Available
    <2> DEFINE x == Bucket * b
               behind == now - Holdback
               low == FloorBucket(behind)
               lo == Lo(mark)
               far == mark + MaxWindow
    <2>2. b \in Nat /\ b * Bucket = x /\ (b + 1) * Bucket = x + Bucket
      BY <1>0
    <2>3. x \in Nat /\ Aligned(x)
      BY <2>2, TimesBucket
    <2> HIDE DEF x
    <2>4. mark <= x /\ x + Bucket + Holdback <= now
      BY <2>1, <2>2
    <2>5. behind \in Nat /\ x + Bucket <= behind
      BY <1>0, <2>3, <2>4
    <2> HIDE DEF behind
    <2>6. /\ low \in Nat /\ low <= behind /\ behind < low + Bucket /\ Aligned(low)
      BY <2>5, BucketFacts
    <2>7. lo \in Nat /\ Aligned(lo) /\ mark <= lo /\ lo < mark + Bucket /\ lo <= x
      <3>1. FloorBucket(x) = x
        BY <2>3, BucketFacts
      <3> QED BY <1>0, <2>3, <2>4, <3>1, CeilFacts DEF Lo
    <2>8. Aligned(lo + Bucket)
      <3>1. Bucket % Bucket = 0 /\ Aligned(Bucket)
        BY <1>0 DEF Aligned
      <3> HIDE DEF lo
      <3> QED BY <1>0, <2>7, <3>1, AlignedSteps
    <2>9. lo + Bucket <= behind
      <3> HIDE DEF lo
      <3> QED BY <1>0, <2>3, <2>5, <2>7
    <2>10. lo + Bucket <= low
      <3> HIDE DEF lo, low
      <3>1. lo + Bucket \in Nat
        BY <1>0, <2>7
      <3> QED BY <2>5, <2>8, <2>9, <3>1, BucketOrder DEF low
    <2>11. far \in Nat /\ lo + Bucket <= far
      <3> HIDE DEF lo
      <3> QED BY <1>0, <2>7
    <2>12. now - Lag = low
      <3>1. Lag = now - low
        BY <1>3 DEF Lag, LagAt, low, behind
      <3> HIDE DEF low
      <3> QED BY <1>0, <2>6, <3>1
    <2>13. Until = Least(low, far)
      BY <2>12 DEF Until
    <2>14. lo + Bucket <= Until
      <3> HIDE DEF lo, low, far
      <3> QED BY <2>10, <2>11, <2>13 DEF Least
    <2>15. lo + Bucket <= Hi(Until)
      <3> HIDE DEF lo
      <3>1. lo + Bucket \in Nat
        BY <1>0, <2>7
      <3> QED BY <1>1, <2>8, <2>14, <3>1, BucketOrder DEF Hi
    <2>16. Hi(Until) \in Nat
      BY <1>1, BucketFacts DEF Hi
    <2>17. mark < Until /\ lo < Hi(Until)
      <3> HIDE DEF lo
      <3> QED BY <1>0, <1>1, <2>7, <2>14, <2>15, <2>16
    <2>18. ~(mark >= Until) /\ ~(lo >= Hi(Until))
      <3> HIDE DEF lo
      <3> QED BY <1>0, <1>1, <2>7, <2>16, <2>17
    <2> QED BY <2>17, <2>18 DEF Empty
  <1> QED BY <1>2, <1>3

LEMMA WindowAdvances ==
  ASSUME NEW from, NEW to, NEW q, Calm(from, to, q), kind \in Kinds, kind \notin Raw => ~Empty(from, to),
         Identified, \A r \in world : r.n > 0
  PROVE  Window(from, to, q).mark = EndOf(to)
  <1>1. CASE kind \in {"d1.analytics", "d1.storage"}
    <2>1. kind \notin Raw /\ Window(from, to, q) = D1Window(from, to, kind = "d1.storage", q)
      BY <1>1 DEF Window, Raw
    <2> QED BY <2>1, D1Advances DEF EndOf
  <1>2. CASE kind \in {"kv.operations", "kv.storage"}
    <2>1. kind \notin Raw /\ Window(from, to, q) = KVWindow(from, to, kind = "kv.storage", q)
      BY <1>2 DEF Window, Raw
    <2> QED BY <2>1, KVAdvances DEF EndOf
  <1>3. CASE kind \in {"queues.message_operations", "queues.backlog"}
    <2> DEFINE isGauge == kind = "queues.backlog"
    <2>1. kind \notin Raw /\ Window(from, to, q) = QueueWindow(from, to, isGauge, q)
      BY <1>3 DEF Window, Raw
    <2>2. isGauge \in BOOLEAN /\ \A r \in world : r.id # Blank
      BY <1>3 DEF Identified
    <2> HIDE DEF isGauge
    <2> QED BY <2>1, <2>2, QueueAdvances DEF EndOf
  <1>4. CASE kind \in {"durableobjects.invocations", "durableobjects.sql_storage"}
    <2>1. kind \notin Raw /\ Window(from, to, q) = DOWindow(from, to, kind = "durableobjects.sql_storage", q)
      BY <1>4 DEF Window, Raw
    <2> QED BY <2>1, DOAdvances DEF EndOf
  <1>5. CASE kind \in {"r2.operations", "r2.storage"}
    <2>1. kind \notin Raw /\ Window(from, to, q) = R2Window(from, to, kind = "r2.storage", q)
      BY <1>5 DEF Window, Raw
    <2> QED BY <2>1, R2Advances DEF EndOf
  <1>6. CASE kind = "workersai.metrics"
    <2>1. kind \notin Raw /\ Window(from, to, q) = AIWindow(from, to, q)
      BY <1>6 DEF Window, Raw
    <2> QED BY <2>1, AIAdvances DEF EndOf
  <1>7. CASE kind = "workers.overview"
    <2>1. kind \notin Raw /\ Window(from, to, q) = OverviewWindow(from, to, q)
      BY <1>7 DEF Window, Raw
    <2> QED BY <2>1, OverviewAdvances DEF EndOf
  <1>8. CASE kind = "workers.invocations"
    <2>1. kind \notin Raw /\ Window(from, to, q) = InvocationsWindow(from, to, q)
      BY <1>8 DEF Window, Raw
    <2> QED BY <2>1, InvocationsAdvances DEF EndOf
  <1>9. CASE kind = "turnstile.events"
    <2>1. kind \notin Raw /\ Window(from, to, q) = TurnstileWindow(from, to, q)
      BY <1>9 DEF Window, Raw
    <2> QED BY <2>1, TurnstileAdvances DEF EndOf
  <1>10. CASE kind \in Raw
    <2>1. \/ Window(from, to, q) = PageloadsWindow(from, to, q)
          \/ Window(from, to, q) = VitalsWindow(from, to, q)
          \/ Window(from, to, q) = GatewayWindow(from, to, q)
      <3>1. CASE kind = "rum.pageloads"
        BY <3>1 DEF Window
      <3>2. CASE kind = "rum.web_vitals"
        BY <3>2 DEF Window
      <3>3. CASE kind = "gateway.dns"
        BY <3>3 DEF Window
      <3> QED BY <1>10, <3>1, <3>2, <3>3 DEF Raw
    <2> QED BY <1>10, <2>1, RawAdvances DEF EndOf
  <1>11. \/ kind \in {"d1.analytics", "d1.storage"} \/ kind \in {"kv.operations", "kv.storage"}
         \/ kind \in {"queues.message_operations", "queues.backlog"}
         \/ kind \in {"durableobjects.invocations", "durableobjects.sql_storage"}
         \/ kind \in {"r2.operations", "r2.storage"} \/ kind = "workersai.metrics" \/ kind = "workers.overview"
         \/ kind = "workers.invocations" \/ kind = "turnstile.events" \/ kind \in Raw
    BY KindAssumption
  <1> QED BY <1>1, <1>2, <1>3, <1>4, <1>5, <1>6, <1>7, <1>8, <1>9, <1>10, <1>11

LEMMA InvMoves ==
  ASSUME WideEnough, GroupedInv, Identified
  PROVE  NeverStuck
  <1> SUFFICES ASSUME Available, NEW q \in Requests, Healthy(q) PROVE Window(mark, Until, q).mark > mark
    BY DEF NeverStuck
  <1>1. /\ Cursor /\ Names /\ kind \in Kinds /\ 2 * Bucket <= MaxWindow + 1 /\ SeriesCap > 0
        /\ \A r \in world : r.n > 0
    BY DEF WideEnough, GroupedInv, Cursor
  <1>2. mark < Until /\ (kind \notin Raw => ~Empty(mark, Until))
    BY <1>1, RoomThere
  <1>3. Ready(mark, Until, q) /\ EndOf(Until) \in Nat
    BY <1>1, <1>2, PollReady
  <1>4. Calm(mark, Until, q)
    BY <1>1, <1>3 DEF Calm
  <1>5. Window(mark, Until, q).mark = EndOf(Until)
    BY <1>1, <1>2, <1>4, WindowAdvances
  <1>6. mark < EndOf(Until)
    <2>1. CASE kind \in Raw
      BY <1>2, <2>1 DEF EndOf
    <2>2. CASE kind \notin Raw
      BY <1>2, <1>3, <2>2, Bounds DEF EndOf
    <2> QED BY <2>1, <2>2
  <1>7. mark \in Nat
    BY <1>1 DEF Cursor
  <1> QED BY <1>3, <1>5, <1>6, <1>7

LEMMA StaysIdentified ==
  Spec => []Identified
  <1>1. Init => Identified
    BY DEF Init, Identified
  <1>2. ASSUME Identified, [Next]_vars PROVE Identified'
    <2>1. kind' = kind /\ world' = world
      BY <1>2 DEF Next, Tick, Poll, vars
    <2> QED BY <1>2, <2>1 DEF Identified
  <1> QED BY <1>1, <1>2, PTL DEF Spec

\* With a max_window that holds a whole bucket wherever the cursor stands, a
\* positive series cap and rows that stand for events, no cursor is stuck: a
\* healthy poll with a whole bucket before the lag moves it (runWindow's bound
\* and the early returns of each CollectWindow).
THEOREM NeverStuckHolds ==
  ASSUME WideEnough
  PROVE  Spec => []NeverStuck
  <1>1. GroupedInv /\ Identified => NeverStuck
    BY InvMoves
  <1> QED BY <1>1, GroupedInvariant, StaysIdentified, PTL
==============================================================================
