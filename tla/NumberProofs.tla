---------------------------- MODULE NumberProofs ----------------------------
(***************************************************************************)
(* Facts the other proofs share: least and greatest numbers, division,     *)
(* buckets and windows, the recursion of a bisection, the sizes of finite  *)
(* sets, and sums over them.                                               *)
(***************************************************************************)
EXTENDS Windows, Sums, FiniteSetTheorems, WellFoundedInduction, TLAPS

-----------------------------------------------------------------------------
(* Numbers. *)

LEMMA LeastNumber ==
  ASSUME NEW T \in SUBSET Nat, T # {}
  PROVE  \E x \in T : \A y \in T : x <= y
  <1>1. IsWellFoundedOn(OpToRel(<, Nat), Nat)
    BY NatLessThanWellFounded
  <1>2. PICK x \in T : \A y \in T : ~ (<<y, x>> \in OpToRel(<, Nat))
    BY <1>1, WFMin
  <1>3. \A y \in T : ~ (y < x)
    BY <1>2 DEF OpToRel
  <1> QED BY <1>3

\* The first failing zone of a window is one of them.
LEMMA LeastZone ==
  ASSUME NEW T \in SUBSET Nat, T # {}
  PROVE  Min(T) \in T
  BY LeastNumber DEF Min

\* Of some integers up to a bound one is the greatest.
LEMMA GreatestFloor ==
  ASSUME NEW T \in SUBSET Int, T # {}, NEW top \in Int, \A x \in T : x <= top
  PROVE  Max(T) \in T
  <1> DEFINE U == {top - x : x \in T}
  <1>1. U \in SUBSET Nat /\ U # {}
    <2>1. ASSUME NEW x \in T PROVE top - x \in Nat
      <3>1. x \in Int /\ x <= top
        OBVIOUS
      <3> QED BY <3>1
    <2>2. U # {}
      OBVIOUS
    <2> QED BY <2>1, <2>2
  <1>2. PICK u \in U : \A v \in U : u <= v
    <2> HIDE DEF U
    <2> QED BY <1>1, LeastNumber
  <1>3. PICK x \in T : u = top - x
    BY <1>2
  <1>4. \A y \in T : y <= x
    <2> TAKE y \in T
    <2>1. u <= top - y
      BY <1>2
    <2> HIDE DEF U
    <2> QED BY <1>3, <2>1
  <1> QED BY <1>4 DEF Max

\* A finite set of numbers has a greatest one.
LEMMA GreatestNumber ==
  ASSUME NEW T \in SUBSET Nat, IsFiniteSet(T), T # {}
  PROVE  \E x \in T : \A y \in T : y <= x
  <1> DEFINE Topped(U) == \E x \in U : \A y \in U : y <= x
             Sizes == {n \in Nat : \E U \in SUBSET Nat : IsFiniteSet(U) /\ U # {} /\ Cardinality(U) = n /\ ~Topped(U)}
  <1>1. Sizes = {}
    <2> SUFFICES ASSUME Sizes # {} PROVE FALSE
      OBVIOUS
    <2>1. PICK n \in Sizes : \A m \in Sizes : n <= m
      <3>1. Sizes \in SUBSET Nat
        OBVIOUS
      <3> HIDE DEF Sizes
      <3> QED BY <3>1, LeastNumber
    <2>2. PICK U \in SUBSET Nat : IsFiniteSet(U) /\ U # {} /\ Cardinality(U) = n /\ ~Topped(U)
      <3> HIDE DEF Topped
      <3> QED OBVIOUS
    <2>3. PICK x : x \in U
      BY <2>2
    <2> DEFINE V == U \ {x}
    <2>4. IsFiniteSet(V) /\ Cardinality(V) = n - 1 /\ n \in Nat /\ V \in SUBSET Nat /\ Cardinality(V) \in Nat
      <3>1. IsFiniteSet(V) /\ Cardinality(V) = n - 1
        BY <2>2, <2>3, FS_RemoveElement
      <3>2. Cardinality(V) \in Nat
        <4> HIDE DEF V
        <4> QED BY <3>1, FS_CardinalityType
      <3> QED BY <3>1, <3>2
    <2>5. V = {} \/ Topped(V)
      <3> HIDE DEF V, Topped
      <3>1. Cardinality(V) \notin Sizes
        <4> HIDE DEF Sizes
        <4> QED BY <2>1, <2>4
      <3> QED BY <2>4, <3>1
    <2>6. Topped(U)
      <3>1. x \in Nat /\ \A y \in U : y \in Nat /\ (y = x \/ y \in V)
        BY <2>3
      <3>2. CASE V = {}
        BY <2>3, <3>1, <3>2
      <3>3. CASE Topped(V)
        <4>1. PICK top \in V : \A y \in V : y <= top
          BY <3>3
        <4>2. top \in U /\ top \in Nat
          OBVIOUS
        <4> HIDE DEF V
        <4>3. CASE top <= x
          <5>1. \A y \in U : y <= x
            BY <2>4, <3>1, <4>1, <4>2, <4>3
          <5> QED BY <2>3, <5>1
        <4>4. CASE x <= top
          <5>1. \A y \in U : y <= top
            BY <3>1, <4>1, <4>2, <4>4
          <5> QED BY <4>2, <5>1
        <4> QED BY <3>1, <4>2, <4>3, <4>4
      <3> QED BY <2>5, <3>2, <3>3
    <2> HIDE DEF Topped
    <2> QED BY <2>2, <2>6
  <1>2. Cardinality(T) \in Nat
    BY FS_CardinalityType
  <1>3. Cardinality(T) \notin Sizes
    BY <1>1
  <1> HIDE DEF Topped
  <1>4. Topped(T)
    BY <1>2, <1>3
  <1> QED BY <1>4 DEF Topped

\* Euclidean division, for times and bucket widths.
LEMMA DivFacts ==
  ASSUME NEW n \in Nat \ {0}, NEW t \in Nat
  PROVE  /\ t \div n \in Nat
         /\ t % n \in 0 .. n - 1
         /\ t = n * (t \div n) + (t % n)
  <1>1. t \div n \in Int /\ t % n \in 0 .. n - 1 /\ t = n * (t \div n) + (t % n)
    OBVIOUS
  <1>2. t \div n >= 0
    OBVIOUS
  <1> QED BY <1>1, <1>2

\* Multiples of a number are at least as far apart.
LEMMA Multiples ==
  ASSUME NEW n \in Nat \ {0}, NEW a \in Nat, NEW b \in Nat, n * a < n * b
  PROVE  n * a + n <= n * b
  <1>1. \A x, y \in Nat : x <= y => n * x <= n * y
    OBVIOUS
  <1>2. a < b
    <2>1. ~(b <= a)
      <3>1. b <= a => n * b <= n * a
        BY <1>1
      <3>2. n * a \in Int /\ n * b \in Int
        OBVIOUS
      <3> QED BY <3>1, <3>2
    <2> QED BY <2>1
  <1>3. n * (a + 1) <= n * b
    BY <1>1, <1>2
  <1>4. n * (a + 1) = n * a + n
    OBVIOUS
  <1> QED BY <1>3, <1>4

\* Rounding down to a multiple.
LEMMA Rounded ==
  ASSUME NEW n \in Nat \ {0}, NEW t \in Nat
  PROVE  /\ t - (t % n) \in Nat /\ t - (t % n) <= t /\ t < t - (t % n) + n
         /\ (t - (t % n)) % n = 0
         /\ t % n = 0 <=> t - (t % n) = t
  <1> DEFINE q == t \div n
             m == t % n
             low == t - m
             k == low \div n
             rest == low % n
  <1>1. q \in Nat /\ m \in 0 .. n - 1 /\ t = n * q + m
    BY DivFacts
  <1>2. n * q \in Nat
    <2> HIDE DEF q
    <2> QED BY <1>1
  <1>3. low = n * q /\ low \in Nat
    <2> HIDE DEF q, m
    <2> QED BY <1>1, <1>2
  <1>4. k \in Nat /\ rest \in 0 .. n - 1 /\ low = n * k + rest
    <2> HIDE DEF low
    <2> QED BY <1>3, DivFacts
  <1> HIDE DEF q, m, low, k, rest
  <1>5. n * k \in Nat
    BY <1>4
  <1>6. ~(n * k < n * q)
    <2>1. n * k < n * q => n * k + n <= n * q
      BY <1>1, <1>4, Multiples
    <2> QED BY <1>2, <1>3, <1>4, <1>5, <2>1
  <1>7. rest = 0
    BY <1>3, <1>4, <1>5, <1>6
  <1>8. low \in Nat /\ low <= t /\ t < low + n
    BY <1>1, <1>3
  <1>9. m = 0 <=> low = t
    BY <1>1, <1>3
  <1> QED BY <1>7, <1>8, <1>9 DEF rest, low, m

\* No multiple lies inside a stretch between two.
LEMMA RoundedOrder ==
  ASSUME NEW n \in Nat \ {0}, NEW s \in Nat, NEW t \in Nat, s % n = 0, s <= t
  PROVE  s <= t - (t % n)
  <1> DEFINE a == s \div n
             b == t \div n
             m == t % n
  <1>1. a \in Nat /\ s = n * a
    <2>1. a \in Nat /\ s = n * a + (s % n)
      BY DivFacts
    <2>2. n * a \in Nat
      <3> HIDE DEF a
      <3> QED BY <2>1
    <2> HIDE DEF a
    <2> QED BY <2>1, <2>2
  <1>2. b \in Nat /\ m \in 0 .. n - 1 /\ t = n * b + m
    BY DivFacts
  <1> HIDE DEF a, b, m
  <1>3. n * b \in Nat
    BY <1>2
  <1>4. n * b < n * a => n * b + n <= n * a
    BY <1>1, <1>2, Multiples
  <1>5. s <= n * b
    BY <1>1, <1>2, <1>3, <1>4
  <1> QED BY <1>2, <1>3, <1>5 DEF m

-----------------------------------------------------------------------------
(* Buckets. *)

Aligned(t) == t % Bucket = 0

\* A bucket starts at or before the times of it, and ends after them.
LEMMA BucketFacts ==
  ASSUME NEW t \in Nat
  PROVE  /\ FloorBucket(t) \in Nat /\ FloorBucket(t) <= t /\ t < FloorBucket(t) + Bucket
         /\ Aligned(FloorBucket(t))
         /\ Aligned(t) <=> FloorBucket(t) = t
         /\ Bucket \in Nat \ {0}
  BY Rounded, BucketAssumption DEF FloorBucket, Aligned

LEMMA BucketOrder ==
  ASSUME NEW s \in Nat, NEW t \in Nat, Aligned(s)
  PROVE  /\ s <= t => s <= FloorBucket(t)
         /\ t < s => FloorBucket(t) + Bucket <= s
  <1>1. s <= t => s <= FloorBucket(t)
    BY RoundedOrder, BucketAssumption DEF FloorBucket, Aligned
  <1>2. ASSUME t < s PROVE FloorBucket(t) + Bucket <= s
    <2> DEFINE f == FloorBucket(t)
    <2>1. f \in Nat /\ f <= t /\ t < f + Bucket /\ Aligned(f) /\ Bucket \in Nat \ {0}
      BY BucketFacts
    <2> HIDE DEF f
    <2> DEFINE a == f \div Bucket
               b == s \div Bucket
    <2>2. a \in Nat /\ f = Bucket * a + (f % Bucket) /\ b \in Nat /\ s = Bucket * b + (s % Bucket)
      BY <2>1, DivFacts
    <2> HIDE DEF a, b
    <2>3. Bucket * a \in Nat /\ Bucket * b \in Nat
      BY <2>1, <2>2
    <2>4. f = Bucket * a /\ s = Bucket * b
      BY <2>1, <2>2, <2>3 DEF Aligned
    <2>5. Bucket * a < Bucket * b
      BY <1>2, <2>1, <2>4
    <2>6. Bucket * a + Bucket <= Bucket * b
      BY <2>1, <2>2, <2>5, Multiples
    <2> QED BY <2>4, <2>6 DEF f
  <1> QED BY <1>1, <1>2

\* The first whole bucket of a window: the rows from there are the whole buckets.
LEMMA CeilFacts ==
  ASSUME NEW t \in Nat
  PROVE  /\ CeilBucket(t) \in Nat /\ t <= CeilBucket(t) /\ Aligned(CeilBucket(t))
         /\ CeilBucket(t) < t + Bucket
         /\ \A r \in Nat : t <= FloorBucket(r) <=> CeilBucket(t) <= r
  <1> DEFINE f == FloorBucket(t)
             next == f + Bucket
             last == FloorBucket(next)
  <1>1. /\ f \in Nat /\ f <= t /\ t < f + Bucket /\ Aligned(f)
        /\ (Aligned(t) <=> f = t) /\ Bucket \in Nat \ {0}
    BY BucketFacts
  <1>2. CeilBucket(t) = IF Aligned(t) THEN t ELSE next
    BY <1>1 DEF CeilBucket
  <1> HIDE DEF f
  <1>3. next \in Nat
    BY <1>1
  <1>4. Aligned(next)
    <2>1. last \in Nat /\ last <= next /\ next < last + Bucket /\ Aligned(last) /\ (Aligned(next) <=> last = next)
      <3> HIDE DEF next
      <3> QED BY <1>3, BucketFacts
    <2>2. FloorBucket(f) = f
      BY <1>1, BucketFacts
    <2>3. f < last => f + Bucket <= last
      <3> HIDE DEF last
      <3> QED BY <1>1, <2>1, <2>2, BucketOrder
    <2> HIDE DEF last
    <2> QED BY <1>1, <1>3, <2>1, <2>3
  <1>5. ASSUME NEW r \in Nat
        PROVE  t <= FloorBucket(r) <=> CeilBucket(t) <= r
    <2> DEFINE low == FloorBucket(r)
    <2>1. low \in Nat /\ low <= r /\ Aligned(low)
      BY BucketFacts
    <2>2. FloorBucket(f) = f
      BY <1>1, BucketFacts
    <2>3. Aligned(t) /\ t <= r => t <= low
      BY BucketOrder
    <2> HIDE DEF next
    <2>4. next <= r => next <= low
      BY <1>3, <1>4, BucketOrder
    <2> HIDE DEF low
    <2>5. f < low => f + Bucket <= low
      BY <1>1, <2>1, <2>2, BucketOrder
    <2>6. f < t \/ Aligned(t)
      BY <1>1
    <2> QED BY <1>1, <1>2, <1>3, <2>1, <2>3, <2>4, <2>5, <2>6 DEF next, low
  <1> QED BY <1>1, <1>2, <1>3, <1>4, <1>5

\* Multiples of a bucket are bucket starts, and so is what lies an aligned
\* number of steps further.
LEMMA TimesBucket ==
  ASSUME NEW n \in Nat
  PROVE  Bucket * n \in Nat /\ Aligned(Bucket * n)
  <1> DEFINE t == Bucket * n
             f == FloorBucket(t)
             k == f \div Bucket
  <1>0. Bucket \in Nat \ {0}
    BY BucketAssumption
  <1>1. t \in Nat
    BY <1>0
  <1>2. f \in Nat /\ f <= t /\ t < f + Bucket /\ Aligned(f) /\ (Aligned(t) <=> f = t)
    <2> HIDE DEF t
    <2> QED BY <1>1, BucketFacts
  <1> HIDE DEF f
  <1>3. k \in Nat /\ f = Bucket * k
    <2>1. k \in Nat /\ f = Bucket * k + (f % Bucket) /\ f % Bucket = 0
      BY <1>0, <1>2, DivFacts DEF Aligned
    <2> HIDE DEF k
    <2>2. Bucket * k \in Nat
      BY <1>0, <2>1
    <2> QED BY <2>1, <2>2
  <1> HIDE DEF k
  <1>4. Bucket * k < Bucket * n => Bucket * k + Bucket <= Bucket * n
    BY <1>0, <1>3, Multiples
  <1>5. f = t
    <2> DEFINE x == Bucket * k
    <2>1. x < t => x + Bucket <= t
      BY <1>4
    <2>2. f = x
      BY <1>3
    <2> HIDE DEF x, t
    <2> QED BY <1>0, <1>1, <1>2, <2>1, <2>2
  <1> QED BY <1>1, <1>2, <1>5

LEMMA AlignedSteps ==
  ASSUME NEW x \in Nat, Aligned(x), NEW span \in Nat \ {0}, Aligned(span), NEW d \in Nat, d % span = 0
  PROVE  Aligned(x + d)
  <1> DEFINE k == x \div Bucket
             m == span \div Bucket
             e == d \div span
  <1>0. Bucket \in Nat \ {0}
    BY BucketAssumption
  <1>1. k \in Nat /\ x = Bucket * k + (x % Bucket) /\ m \in Nat /\ span = Bucket * m + (span % Bucket)
    BY <1>0, DivFacts
  <1>2. e \in Nat /\ d = span * e + (d % span)
    BY DivFacts
  <1>3. x % Bucket = 0 /\ span % Bucket = 0
    BY DEF Aligned
  <1> HIDE DEF k, m, e
  <1>4. Bucket * k \in Nat /\ Bucket * m \in Nat /\ span * e \in Nat /\ m * e \in Nat /\ k + m * e \in Nat
    BY <1>0, <1>1, <1>2
  <1>5. x = Bucket * k /\ span = Bucket * m /\ d = span * e
    BY <1>1, <1>2, <1>3, <1>4
  <1>6. (Bucket * m) * e = Bucket * (m * e)
    BY <1>0, <1>1, <1>2
  <1>7. Bucket * k + Bucket * (m * e) = Bucket * (k + m * e)
    BY <1>0, <1>1, <1>4
  <1>8. x + d = Bucket * (k + m * e)
    BY <1>5, <1>6, <1>7
  <1>9. Aligned(Bucket * (k + m * e))
    BY <1>4, TimesBucket
  <1> QED BY <1>8, <1>9

-----------------------------------------------------------------------------
(* Bisection. *)

\* A window is split inside.
LEMMA SplitInside ==
  ASSUME NEW from \in Nat, NEW to \in Nat, NEW step \in Nat \ {0}, NEW minimum \in Nat,
         SplitWindow(from, to, step, minimum) # None
  PROVE  /\ SplitWindow(from, to, step, minimum) \in Nat
         /\ from < SplitWindow(from, to, step, minimum)
         /\ SplitWindow(from, to, step, minimum) < to
  <1> DEFINE half == from + ((to - from) \div 2)
             mid == Truncate(half, step)
  <1>1. CASE to - from <= minimum
    BY <1>1 DEF SplitWindow
  <1>2. CASE ~(to - from <= minimum)
    <2>1. half \in Nat
      BY <1>2
    <2>2. mid \in Int
      <3> HIDE DEF half
      <3>1. half % step \in Int
        BY <2>1
      <3> QED BY <2>1, <3>1 DEF Truncate
    <2> QED BY <1>2, <2>2 DEF SplitWindow
  <1> QED BY <1>1, <1>2

\* The value Bisect gives a part of a window, from those of smaller parts.
Width(w) == IF w[1] < w[2] THEN w[2] - w[1] ELSE 0

Value(f, w, step, minimum, query) ==
  LET mid == SplitWindow(w[1], w[2], step, minimum)
      left == f[<<w[1], mid>>]
      right == f[<<mid, w[2]>>]
  IN  IF ~query[w].saturated THEN query[w]
      ELSE IF mid = None THEN QueryFailed
      ELSE IF ~left.ok THEN left
      ELSE IF ~right.ok THEN right
      ELSE Rows(left.rows \cup right.rows)

\* The two halves of a part that is split.
LEMMA Halves ==
  ASSUME NEW from \in Nat, NEW to \in Nat, NEW step \in Nat \ {0}, NEW minimum \in Nat,
         NEW w \in Parts(from, to), NEW mid, mid = SplitWindow(w[1], w[2], step, minimum), mid # None
  PROVE  /\ mid \in Nat /\ w[1] < mid /\ mid < w[2] /\ w[1] \in Nat /\ w[2] \in Nat
         /\ <<w[1], mid>> \in Parts(from, to) /\ Width(<<w[1], mid>>) < Width(w)
         /\ <<mid, w[2]>> \in Parts(from, to) /\ Width(<<mid, w[2]>>) < Width(w)
  <1>1. w[1] \in Nat /\ w[2] \in Nat /\ w[1] \in from .. to /\ w[2] \in from .. to
    BY DEF Parts
  <1>2. mid \in Nat /\ w[1] < mid /\ mid < w[2]
    BY <1>1, SplitInside
  <1> QED BY <1>1, <1>2 DEF Parts, Width

\* The value of a part depends on the narrower parts only, so the recursion is
\* well founded.
LEMMA ValueOfHalves ==
  ASSUME NEW from \in Nat, NEW to \in Nat, NEW step \in Nat \ {0}, NEW minimum \in Nat,
         NEW w \in Parts(from, to), NEW query, NEW f, NEW g,
         \A v \in Parts(from, to) : Width(v) < Width(w) => f[v] = g[v]
  PROVE  Value(f, w, step, minimum, query) = Value(g, w, step, minimum, query)
  <1> DEFINE mid == SplitWindow(w[1], w[2], step, minimum)
  <1>1. CASE mid = None
    BY <1>1 DEF Value
  <1>2. CASE mid # None
    <2>1. f[<<w[1], mid>>] = g[<<w[1], mid>>] /\ f[<<mid, w[2]>>] = g[<<mid, w[2]>>]
      BY <1>2, Halves
    <2> QED BY <2>1 DEF Value
  <1> QED BY <1>1, <1>2

\* The recursion of Bisect has a solution.
LEMMA BisectSolved ==
  ASSUME NEW from \in Nat, NEW to \in Nat, from <= to, NEW step \in Nat \ {0}, NEW minimum \in Nat,
         NEW query
  PROVE  \E f : /\ Bisect(from, to, step, minimum, query) = f[<<from, to>>]
                /\ \A w \in Parts(from, to) : f[w] = Value(f, w, step, minimum, query)
  <1> DEFINE value(f, w) == Value(f, w, step, minimum, query)
             part == CHOOSE f : f = [w \in Parts(from, to) |-> value(f, w)]
             Solved(f, n) == \A w \in Parts(from, to) : Width(w) < n => f[w] = value(f, w)
             Open == {n \in Nat : ~ \E f : Solved(f, n)}
  <1>1. Bisect(from, to, step, minimum, query) = part[<<from, to>>]
    BY DEF Bisect, Value
  <1>2. \A w \in Parts(from, to) : Width(w) \in Nat /\ Width(w) < to - from + 1
    BY DEF Parts, Width
  <1>3. ASSUME NEW n \in Nat, NEW f, Solved(f, n) PROVE \E g : Solved(g, n + 1)
    <2> DEFINE g == [w \in Parts(from, to) |-> IF Width(w) < n THEN f[w] ELSE value(f, w)]
    <2>1. \A w \in Parts(from, to) : g[w] = IF Width(w) < n THEN f[w] ELSE value(f, w)
      OBVIOUS
    <2> HIDE DEF g
    <2>2. ASSUME NEW w \in Parts(from, to), Width(w) < n + 1 PROVE g[w] = value(g, w)
      <3>1. \A v \in Parts(from, to) : Width(v) < Width(w) => f[v] = g[v]
        BY <1>2, <2>1, <2>2
      <3>2. value(f, w) = value(g, w)
        BY <3>1, ValueOfHalves
      <3>3. g[w] = value(f, w)
        <4> HIDE DEF value
        <4> QED BY <1>3, <2>1
      <3> QED BY <3>2, <3>3
    <2> HIDE DEF value
    <2> QED BY <2>2
  <1> HIDE DEF value
  <1>4. Open = {}
    <2> SUFFICES ASSUME Open # {} PROVE FALSE
      OBVIOUS
    <2>1. PICK n \in Open : \A m \in Open : n <= m
      <3>1. Open \in SUBSET Nat
        OBVIOUS
      <3> HIDE DEF Open
      <3> QED BY <3>1, LeastNumber
    <2>2. n # 0
      <3>1. \A f : Solved(f, 0)
        BY <1>2
      <3> QED BY <3>1
    <2>3. n - 1 \in Nat /\ n - 1 \notin Open /\ n - 1 + 1 = n
      <3> HIDE DEF Solved
      <3> QED BY <2>1, <2>2
    <2> DEFINE m == n - 1
    <2>4. m \in Nat /\ m + 1 = n /\ \E f : Solved(f, m)
      <3> HIDE DEF Solved
      <3> QED BY <2>3
    <2> HIDE DEF m
    <2>5. \E g : Solved(g, m + 1)
      BY <1>3, <2>4
    <2> HIDE DEF Solved
    <2> QED BY <2>4, <2>5
  <1>5. PICK f : Solved(f, to - from + 1)
    <2> HIDE DEF Solved
    <2> QED BY <1>4
  <1>6. \E h : h = [w \in Parts(from, to) |-> value(h, w)]
    <2> DEFINE h == [w \in Parts(from, to) |-> f[w]]
    <2>1. \A w \in Parts(from, to) : h[w] = value(f, w)
      BY <1>2, <1>5
    <2>2. \A w \in Parts(from, to) : h[w] = f[w]
      OBVIOUS
    <2> HIDE DEF h
    <2>3. ASSUME NEW w \in Parts(from, to) PROVE value(f, w) = value(h, w)
      BY <2>2, ValueOfHalves DEF value
    <2>4. h = [w \in Parts(from, to) |-> value(h, w)]
      BY <2>1, <2>3 DEF h
    <2> QED BY <2>4
  <1>7. part = [w \in Parts(from, to) |-> value(part, w)]
    BY <1>6
  <1> HIDE DEF part
  <1>8. \A w \in Parts(from, to) : part[w] = value(part, w)
    BY <1>7
  <1> QED BY <1>1, <1>8 DEF value

\* A window whose own query is not saturated is not split.
LEMMA Unsplit ==
  ASSUME NEW from \in Nat, NEW to \in Nat, from <= to, NEW step \in Nat \ {0}, NEW minimum \in Nat,
         NEW query, ~query[<<from, to>>].saturated
  PROVE  Bisect(from, to, step, minimum, query) = query[<<from, to>>]
  <1>1. PICK f : /\ Bisect(from, to, step, minimum, query) = f[<<from, to>>]
                 /\ \A w \in Parts(from, to) : f[w] = Value(f, w, step, minimum, query)
    BY BisectSolved
  <1> DEFINE w == <<from, to>>
  <1>2. w \in Parts(from, to)
    BY DEF Parts
  <1> HIDE DEF w
  <1>3. f[w] = Value(f, w, step, minimum, query) /\ ~query[w].saturated
    BY <1>1, <1>2 DEF w
  <1>4. f[w] = query[w]
    BY <1>3 DEF Value
  <1> QED BY <1>1, <1>4 DEF w

-----------------------------------------------------------------------------
(* Finite sets. *)

\* A finite set in two parts.
LEMMA Divided ==
  ASSUME NEW S, IsFiniteSet(S), NEW T \in SUBSET S
  PROVE  /\ Cardinality(S) = Cardinality(T) + Cardinality(S \ T)
         /\ IsFiniteSet(T) /\ IsFiniteSet(S \ T)
         /\ Cardinality(T) \in Nat /\ Cardinality(S \ T) \in Nat
  <1>1. IsFiniteSet(T) /\ IsFiniteSet(S \ T)
    BY FS_Subset
  <1>2. Cardinality(S \ T) = Cardinality(S) - Cardinality(S \cap T)
    BY FS_Difference
  <1>3. S \cap T = T
    OBVIOUS
  <1>4. Cardinality(S \cap T) = Cardinality(T)
    BY <1>3, Zenon
  <1>5. Cardinality(S) \in Nat /\ Cardinality(T) \in Nat /\ Cardinality(S \ T) \in Nat
    BY <1>1, FS_CardinalityType
  <1> QED BY <1>1, <1>2, <1>4, <1>5

LEMMA FiniteValues ==
  ASSUME NEW S, IsFiniteSet(S), NEW f
  PROVE  IsFiniteSet({f[x] : x \in S}) /\ Cardinality({f[x] : x \in S}) <= Cardinality(S)
  <1> DEFINE values == {f[x] : x \in S}
             g == [x \in S |-> f[x]]
  <1>1. g \in Surjection(S, values)
    BY DEF Surjection
  <1> HIDE DEF values, g
  <1> QED BY <1>1, FS_Surjection DEF values

\* There are at most n elements with less than n smaller ones.
LEMMA LowestFew ==
  ASSUME NEW T \in SUBSET Nat, IsFiniteSet(T), NEW n \in Nat, NEW B,
         B \in SUBSET T, \A k \in B : Cardinality({m \in T : m < k}) < n
  PROVE  IsFiniteSet(B) /\ Cardinality(B) <= n
  <1>1. IsFiniteSet(B) /\ Cardinality(B) \in Nat /\ B \in SUBSET Nat
    <2>1. IsFiniteSet(B)
      BY FS_Subset
    <2> QED BY <2>1, FS_CardinalityType
  <1>2. CASE B = {}
    BY <1>1, <1>2, FS_EmptySet
  <1>3. CASE B # {}
    <2>1. PICK x \in B : \A y \in B : y <= x
      BY <1>1, <1>3, GreatestNumber
    <2> DEFINE below == {m \in T : m < x}
               rest == B \ {x}
    <2>2. IsFiniteSet(below)
      <3>1. below \in SUBSET T
        OBVIOUS
      <3> HIDE DEF below
      <3> QED BY <3>1, FS_Subset
    <2>3. rest \in SUBSET below
      <3>1. ASSUME NEW y \in rest PROVE y < x
        <4>1. y \in Nat /\ x \in Nat /\ y <= x /\ y # x
          BY <1>1, <2>1
        <4> QED BY <4>1
      <3> QED BY <3>1
    <2>4. Cardinality(rest) = Cardinality(B) - 1
      BY <1>1, FS_RemoveElement
    <2>5. Cardinality(below) < n
      OBVIOUS
    <2> HIDE DEF below, rest
    <2>6. Cardinality(rest) <= Cardinality(below) /\ Cardinality(below) \in Nat
      BY <2>2, <2>3, FS_Subset, FS_CardinalityType
    <2> QED BY <1>1, <2>4, <2>5, <2>6
  <1> QED BY <1>2, <1>3

\* Both forms of admission fill the room that is left, and no more.
LEMMA Admission ==
  ASSUME NEW fresh \in SUBSET Nat, IsFiniteSet(fresh), NEW old, IsFiniteSet(old),
         NEW limit \in Nat, Cardinality(old) <= limit, NEW new,
         new \in SUBSET fresh,
         \A k \in new : Cardinality({m \in fresh : m < k}) + Cardinality(old) < limit
  PROVE  IsFiniteSet(old \cup new) /\ Cardinality(old \cup new) <= limit
  <1> DEFINE room == limit - Cardinality(old)
  <1>1. Cardinality(old) \in Nat
    BY FS_CardinalityType
  <1>2. room \in Nat
    BY <1>1
  <1>3. \A k \in new : Cardinality({m \in fresh : m < k}) < room
    <2> TAKE k \in new
    <2> DEFINE below == {m \in fresh : m < k}
    <2>1. Cardinality(below) \in Nat
      <3>1. below \in SUBSET fresh
        OBVIOUS
      <3> HIDE DEF below
      <3>2. IsFiniteSet(below)
        BY <3>1, FS_Subset
      <3> QED BY <3>2, FS_CardinalityType
    <2>2. Cardinality(below) + Cardinality(old) < limit
      OBVIOUS
    <2> HIDE DEF below
    <2>3. Cardinality(below) < room
      BY <1>1, <2>1, <2>2
    <2> QED BY <2>3 DEF below
  <1> HIDE DEF room
  <1>4. IsFiniteSet(new) /\ Cardinality(new) <= room
    BY <1>2, <1>3, LowestFew
  <1>5. Cardinality(new) \in Nat /\ Cardinality(old \cap new) \in Nat
    <2>1. IsFiniteSet(old \cap new)
      BY <1>4, FS_Subset
    <2> QED BY <1>4, <2>1, FS_CardinalityType
  <1>6. IsFiniteSet(old \cup new) /\ Cardinality(old \cup new) = Cardinality(old) + Cardinality(new) - Cardinality(old \cap new)
    BY <1>4, FS_Union
  <1> QED BY <1>1, <1>2, <1>4, <1>5, <1>6 DEF room

-----------------------------------------------------------------------------
(* Sums.  Induction over a finite set is stated with a set of its subsets.   *)

LEMMA FiniteInduction ==
  ASSUME NEW S, IsFiniteSet(S), NEW Good, {} \in Good,
         \A T \in SUBSET S : \A x \in S \ T : T \in Good => T \cup {x} \in Good
  PROVE  S \in Good
  <1> DEFINE Sizes == {n \in Nat : \E T \in SUBSET S : T \notin Good /\ Cardinality(T) = n}
  <1>1. Sizes = {}
    <2> SUFFICES ASSUME Sizes # {} PROVE FALSE
      OBVIOUS
    <2>1. PICK n \in Sizes : \A m \in Sizes : n <= m
      <3>1. Sizes \in SUBSET Nat
        OBVIOUS
      <3> HIDE DEF Sizes
      <3> QED BY <3>1, LeastNumber
    <2>2. PICK T \in SUBSET S : T \notin Good /\ Cardinality(T) = n
      OBVIOUS
    <2>3. PICK x \in T : TRUE
      BY <2>2
    <2> DEFINE U == T \ {x}
    <2>4. IsFiniteSet(T)
      BY FS_Subset
    <2>5. IsFiniteSet(U) /\ Cardinality(U) = n - 1 /\ Cardinality(U) \in Nat /\ n \in Nat
      <3>1. IsFiniteSet(U) /\ Cardinality(U) = n - 1
        BY <2>2, <2>3, <2>4, FS_RemoveElement
      <3> HIDE DEF U
      <3>2. Cardinality(U) \in Nat
        BY <3>1, FS_CardinalityType
      <3> QED BY <3>1, <3>2
    <2>6. U \in SUBSET S /\ x \in S \ U /\ T = U \cup {x}
      BY <2>3
    <2> HIDE DEF U
    <2>7. U \in Good
      <3>1. Cardinality(U) \notin Sizes
        <4> HIDE DEF Sizes
        <4> QED BY <2>1, <2>5
      <3> QED BY <2>5, <2>6, <3>1
    <2> QED BY <2>2, <2>6, <2>7
  <1>2. Cardinality(S) \in Nat
    BY FS_CardinalityType
  <1>3. Cardinality(S) \notin Sizes
    BY <1>1
  <1> QED BY <1>2, <1>3

\* One element of a set, and the sum of the others and it.
OneOf(s) == CHOOSE x \in s : TRUE
SumFrom(g, f, s) == IF s = {} THEN 0 ELSE f[OneOf(s)] + g[s \ {OneOf(s)}]

LEMMA OneLess ==
  ASSUME NEW S, IsFiniteSet(S), NEW s \in SUBSET S, s # {}
  PROVE  /\ OneOf(s) \in s /\ s \ {OneOf(s)} \in SUBSET S
         /\ Cardinality(s) \in Nat /\ Cardinality(s \ {OneOf(s)}) \in Nat
         /\ Cardinality(s \ {OneOf(s)}) < Cardinality(s)
  <1>1. OneOf(s) \in s
    BY DEF OneOf
  <1>2. IsFiniteSet(s)
    BY FS_Subset
  <1> DEFINE x == OneOf(s)
             rest == s \ {x}
  <1>3. IsFiniteSet(rest) /\ Cardinality(rest) = Cardinality(s) - 1
    BY <1>1, <1>2, FS_RemoveElement
  <1>4. rest \in SUBSET S
    OBVIOUS
  <1>5. Cardinality(s) \in Nat /\ Cardinality(rest) \in Nat
    <2> HIDE DEF rest
    <2> QED BY <1>2, <1>3, FS_CardinalityType
  <1> QED BY <1>1, <1>3, <1>4, <1>5

\* The recursion of a sum has a solution.
LEMMA TotalSolved ==
  ASSUME NEW S, IsFiniteSet(S), NEW f
  PROVE  \E g : /\ Total(S, f) = g[S]
                /\ \A s \in SUBSET S : g[s] = SumFrom(g, f, s)
  <1> DEFINE sum == CHOOSE g : g = [s \in SUBSET S |-> SumFrom(g, f, s)]
             Solved(g, n) == \A s \in SUBSET S : Cardinality(s) < n => g[s] = SumFrom(g, f, s)
             Open == {n \in Nat : ~ \E g : Solved(g, n)}
  <1>1. Total(S, f) = sum[S]
    BY DEF Total, MapThenSumSet, MapThenFoldSet, SumFrom, OneOf
  <1>2. \A s \in SUBSET S : Cardinality(s) \in Nat /\ Cardinality(s) <= Cardinality(S)
    BY FS_Subset, FS_CardinalityType
  <1>3. ASSUME NEW s \in SUBSET S, NEW g, NEW h,
               \A t \in SUBSET S : Cardinality(t) < Cardinality(s) => g[t] = h[t]
        PROVE  SumFrom(g, f, s) = SumFrom(h, f, s)
    <2>1. CASE s = {}
      BY <2>1 DEF SumFrom
    <2>2. CASE s # {}
      <3> DEFINE rest == s \ {OneOf(s)}
      <3>1. rest \in SUBSET S /\ Cardinality(rest) < Cardinality(s)
        BY <2>2, OneLess
      <3>2. g[rest] = h[rest]
        <4> HIDE DEF rest
        <4> QED BY <1>3, <3>1
      <3> QED BY <2>2, <3>2 DEF SumFrom
    <2> QED BY <2>1, <2>2
  <1>4. ASSUME NEW n \in Nat, NEW g, Solved(g, n) PROVE \E h : Solved(h, n + 1)
    <2> DEFINE h == [s \in SUBSET S |-> IF Cardinality(s) < n THEN g[s] ELSE SumFrom(g, f, s)]
    <2>1. \A s \in SUBSET S : h[s] = IF Cardinality(s) < n THEN g[s] ELSE SumFrom(g, f, s)
      OBVIOUS
    <2> HIDE DEF h
    <2>2. ASSUME NEW s \in SUBSET S, Cardinality(s) < n + 1 PROVE h[s] = SumFrom(h, f, s)
      <3>1. \A t \in SUBSET S : Cardinality(t) < Cardinality(s) => g[t] = h[t]
        <4> TAKE t \in SUBSET S
        <4> HAVE Cardinality(t) < Cardinality(s)
        <4>1. Cardinality(t) < n
          BY <1>2, <2>2
        <4> QED BY <2>1, <4>1
      <3>2. SumFrom(g, f, s) = SumFrom(h, f, s)
        BY <1>3, <3>1
      <3>3. h[s] = SumFrom(g, f, s)
        BY <1>4, <2>1
      <3> QED BY <3>2, <3>3
    <2> QED BY <2>2
  <1>5. Open = {}
    <2> SUFFICES ASSUME Open # {} PROVE FALSE
      OBVIOUS
    <2>1. PICK n \in Open : \A m \in Open : n <= m
      <3>1. Open \in SUBSET Nat
        OBVIOUS
      <3> HIDE DEF Open
      <3> QED BY <3>1, LeastNumber
    <2>2. n # 0
      <3>1. \A g : Solved(g, 0)
        BY <1>2
      <3> QED BY <3>1
    <2> DEFINE m == n - 1
    <2>3. m \in Nat /\ m + 1 = n /\ m \notin Open
      <3> HIDE DEF Solved
      <3> QED BY <2>1, <2>2
    <2>4. \E g : Solved(g, m)
      <3> HIDE DEF Solved, m
      <3> QED BY <2>3
    <2> HIDE DEF m
    <2>5. \E h : Solved(h, m + 1)
      <3> HIDE DEF Solved
      <3> QED BY <1>4, <2>3, <2>4
    <2> HIDE DEF Solved
    <2> QED BY <2>3, <2>5
  <1>6. PICK g : Solved(g, Cardinality(S) + 1)
    <2>1. Cardinality(S) + 1 \in Nat
      BY FS_CardinalityType
    <2> HIDE DEF Solved
    <2> QED BY <1>5, <2>1
  <1>7. \E h : h = [s \in SUBSET S |-> SumFrom(h, f, s)]
    <2> DEFINE h == [s \in SUBSET S |-> g[s]]
    <2>1. \A s \in SUBSET S : h[s] = g[s]
      OBVIOUS
    <2>2. \A s \in SUBSET S : g[s] = SumFrom(g, f, s)
      <3>1. \A s \in SUBSET S : Cardinality(s) < Cardinality(S) + 1
        BY <1>2, FS_CardinalityType
      <3> QED BY <1>6, <3>1
    <2> HIDE DEF h
    <2>3. ASSUME NEW s \in SUBSET S PROVE SumFrom(g, f, s) = SumFrom(h, f, s)
      <3>1. \A t \in SUBSET S : Cardinality(t) < Cardinality(s) => g[t] = h[t]
        BY <2>1
      <3> QED BY <1>3, <3>1
    <2>4. h = [s \in SUBSET S |-> SumFrom(h, f, s)]
      <3>1. h = [s \in SUBSET S |-> g[s]]
        BY DEF h
      <3> QED BY <2>2, <2>3, <3>1
    <2> QED BY <2>4
  <1>8. sum = [s \in SUBSET S |-> SumFrom(sum, f, s)]
    BY <1>7
  <1> HIDE DEF sum
  <1>9. \A s \in SUBSET S : sum[s] = SumFrom(sum, f, s)
    BY <1>8
  <1> QED BY <1>1, <1>9

\* The solution is the sum of each subset.
LEMMA TotalOfSubsets ==
  ASSUME NEW S, IsFiniteSet(S), NEW f, NEW g, \A s \in SUBSET S : g[s] = SumFrom(g, f, s)
  PROVE  \A s \in SUBSET S : Total(s, f) = g[s]
  <1> SUFFICES ASSUME NEW s \in SUBSET S PROVE Total(s, f) = g[s]
    OBVIOUS
  <1>1. IsFiniteSet(s)
    BY FS_Subset
  <1>2. \E h : Total(s, f) = h[s] /\ \A t \in SUBSET s : h[t] = SumFrom(h, f, t)
    <2>1. ASSUME NEW u, IsFiniteSet(u)
          PROVE  \E h : Total(u, f) = h[u] /\ \A t \in SUBSET u : h[t] = SumFrom(h, f, t)
      BY ONLY <2>1, TotalSolved
    <2> QED BY <1>1, <2>1
  <1>2a. PICK h : Total(s, f) = h[s] /\ \A t \in SUBSET s : h[t] = SumFrom(h, f, t)
    BY <1>2
  <1> DEFINE Bad == {n \in Nat : \E t \in SUBSET s : g[t] # h[t] /\ Cardinality(t) = n}
  <1>3. Bad = {}
    <2> SUFFICES ASSUME Bad # {} PROVE FALSE
      OBVIOUS
    <2>1. PICK n \in Bad : \A m \in Bad : n <= m
      <3>1. Bad \in SUBSET Nat
        OBVIOUS
      <3> HIDE DEF Bad
      <3> QED BY <3>1, LeastNumber
    <2>2. PICK t \in SUBSET s : g[t] # h[t] /\ Cardinality(t) = n
      OBVIOUS
    <2>3. t \in SUBSET S /\ g[t] = SumFrom(g, f, t) /\ h[t] = SumFrom(h, f, t)
      BY <1>2a
    <2>4. t # {}
      BY <2>2, <2>3 DEF SumFrom
    <2> DEFINE rest == t \ {OneOf(t)}
    <2>5. /\ rest \in SUBSET s /\ Cardinality(rest) \in Nat /\ Cardinality(rest) < n /\ n \in Nat
      BY <1>1, <2>2, <2>4, OneLess
    <2>6. g[rest] = h[rest]
      <3> HIDE DEF rest
      <3>1. Cardinality(rest) \notin Bad
        <4> HIDE DEF Bad
        <4> QED BY <2>1, <2>5
      <3> QED BY <2>5, <3>1
    <2> QED BY <2>2, <2>3, <2>4, <2>6 DEF SumFrom
  <1>4. Cardinality(s) \in Nat
    BY <1>1, FS_CardinalityType
  <1>5. g[s] = h[s]
    BY <1>3, <1>4
  <1> QED BY <1>2a, <1>5

LEMMA TotalStep ==
  ASSUME NEW S, IsFiniteSet(S), NEW f
  PROVE  /\ Total({}, f) = 0
         /\ S # {} => Total(S, f) = f[OneOf(S)] + Total(S \ {OneOf(S)}, f)
  <1>1. PICK g : Total(S, f) = g[S] /\ \A s \in SUBSET S : g[s] = SumFrom(g, f, s)
    BY TotalSolved
  <1>2. \A s \in SUBSET S : Total(s, f) = g[s]
    BY <1>1, TotalOfSubsets
  <1>3. g[{}] = 0
    BY <1>1 DEF SumFrom
  <1> DEFINE rest == S \ {OneOf(S)}
  <1>4. rest \in SUBSET S /\ g[S] = IF S = {} THEN 0 ELSE f[OneOf(S)] + g[rest]
    BY <1>1 DEF SumFrom
  <1> HIDE DEF rest
  <1>5. Total(rest, f) = g[rest]
    BY <1>2, <1>4
  <1>6. Total({}, f) = g[{}]
    BY <1>2
  <1> QED BY <1>1, <1>3, <1>4, <1>5, <1>6 DEF rest

\* A value for every element of a set.
Counts(S, f) == \A x \in S : f[x] \in Nat

LEMMA TotalRemove ==
  ASSUME NEW S, IsFiniteSet(S), NEW f, Counts(S, f)
  PROVE  /\ Total(S, f) \in Nat
         /\ \A x \in S : Total(S, f) = f[x] + Total(S \ {x}, f)
  <1> DEFINE Right(s) == /\ Total(s, f) \in Nat
                         /\ \A x \in s : Total(s, f) = f[x] + Total(s \ {x}, f)
             Bad == {n \in Nat : \E s \in SUBSET S : ~Right(s) /\ Cardinality(s) = n}
  <1>1. Bad = {}
    <2> SUFFICES ASSUME Bad # {} PROVE FALSE
      OBVIOUS
    <2>1. PICK n \in Bad : \A m \in Bad : n <= m
      <3>1. Bad \in SUBSET Nat
        OBVIOUS
      <3> HIDE DEF Bad
      <3> QED BY <3>1, LeastNumber
    <2>2. PICK s \in SUBSET S : ~Right(s) /\ Cardinality(s) = n
      <3> HIDE DEF Right
      <3> QED OBVIOUS
    <2>3. IsFiniteSet(s) /\ n \in Nat
      BY <2>1, <2>2, FS_Subset
    <2>4. \A t \in SUBSET S : Cardinality(t) \in Nat /\ Cardinality(t) < n => Right(t)
      <3> TAKE t \in SUBSET S
      <3> HAVE Cardinality(t) \in Nat /\ Cardinality(t) < n
      <3>1. Cardinality(t) \notin Bad
        <4> HIDE DEF Bad
        <4> QED BY <2>1, <2>3
      <3> HIDE DEF Right
      <3> QED BY <3>1
    <2>5. \A x \in s : Right(s \ {x}) /\ IsFiniteSet(s \ {x}) /\ s \ {x} \in SUBSET S
      <3> TAKE x \in s
      <3> DEFINE rest == s \ {x}
      <3>1. IsFiniteSet(rest) /\ Cardinality(rest) = n - 1
        BY <2>2, <2>3, FS_RemoveElement
      <3>2. Cardinality(rest) \in Nat
        <4> HIDE DEF rest
        <4> QED BY <3>1, FS_CardinalityType
      <3>3. rest \in SUBSET S
        OBVIOUS
      <3> HIDE DEF rest, Right
      <3>4. Right(rest)
        BY <2>3, <2>4, <3>1, <3>2, <3>3
      <3> QED BY <3>1, <3>3, <3>4 DEF rest
    <2>6. s # {}
      <3>1. Total({}, f) = 0
        BY <2>3, TotalStep
      <3> QED BY <2>2, <3>1
    <2> DEFINE one == OneOf(s)
               others == s \ {one}
    <2>7. one \in s /\ Total(s, f) = f[one] + Total(others, f)
      BY <2>3, <2>6, TotalStep DEF OneOf
    <2>8. Total(others, f) \in Nat /\ f[one] \in Nat
      BY <2>5, <2>7 DEF Counts
    <2>9. ASSUME NEW x \in s PROVE Total(s, f) = f[x] + Total(s \ {x}, f)
      <3>1. CASE x = one
        BY <2>7, <3>1
      <3>2. CASE x # one
        <4> DEFINE rest == s \ {x}
                   both == others \ {x}
        <4>1. both = rest \ {one} /\ x \in others /\ one \in rest
          BY <2>7, <3>2
        <4>2. Total(others, f) = f[x] + Total(both, f)
          <5>1. Right(others) /\ x \in others
            BY <2>5, <2>7, <4>1
          <5> HIDE DEF others
          <5> QED BY <5>1
        <4>3. Total(rest, f) = f[one] + Total(both, f)
          <5>1. Right(rest) /\ one \in rest
            BY <2>5, <4>1
          <5>2. Total(rest, f) = f[one] + Total(rest \ {one}, f)
            <6> HIDE DEF rest, one
            <6> QED BY <5>1
          <5> HIDE DEF rest, one, both
          <5> QED BY <4>1, <5>2
        <4>4. Total(both, f) \in Nat /\ f[x] \in Nat
          <5>1. Right(others) /\ x \in others /\ IsFiniteSet(others) /\ others \in SUBSET S
            BY <2>5, <2>7, <4>1
          <5>2. IsFiniteSet(both) /\ both \in SUBSET S /\ Cardinality(both) \in Nat /\ Cardinality(both) < n
            <6>1. Cardinality(others) = n - 1
              BY <2>2, <2>3, <2>7, FS_RemoveElement
            <6>2. others \in SUBSET S /\ IsFiniteSet(others)
              BY <5>1
            <6> HIDE DEF others
            <6>3. both \in SUBSET others
              OBVIOUS
            <6>4. both \in SUBSET S
              BY <6>2
            <6> HIDE DEF both
            <6>5. IsFiniteSet(both) /\ Cardinality(both) <= Cardinality(others)
              BY <6>2, <6>3, FS_Subset
            <6>6. Cardinality(both) \in Nat
              BY <6>5, FS_CardinalityType
            <6> QED BY <2>3, <6>1, <6>4, <6>5, <6>6
          <5>3. Right(both)
            <6> HIDE DEF both, Right
            <6> QED BY <2>4, <5>2
          <5> HIDE DEF both
          <5> QED BY <5>3 DEF Counts
        <4> HIDE DEF others, rest, both, one
        <4>5. f[one] + Total(others, f) = f[x] + Total(rest, f)
          BY <2>8, <4>2, <4>3, <4>4
        <4> QED BY <2>7, <4>5 DEF rest
      <3> QED BY <3>1, <3>2
    <2>10. Total(s, f) \in Nat
      <3> HIDE DEF others, one
      <3> QED BY <2>7, <2>8
    <2> QED BY <2>2, <2>9, <2>10
  <1>2. Cardinality(S) \in Nat
    BY FS_CardinalityType
  <1>3. Right(S)
    <2>1. Cardinality(S) \notin Bad
      BY <1>1
    <2> HIDE DEF Right
    <2> QED BY <1>2, <2>1
  <1> QED BY <1>3

\* One element more.
LEMMA TotalAdd ==
  ASSUME NEW S, IsFiniteSet(S), NEW f, NEW x, x \notin S, Counts(S \cup {x}, f)
  PROVE  /\ IsFiniteSet(S \cup {x})
         /\ Total(S, f) \in Nat /\ f[x] \in Nat /\ Total(S \cup {x}, f) = f[x] + Total(S, f)
  <1> DEFINE more == S \cup {x}
  <1>1. IsFiniteSet(more)
    BY FS_AddElement
  <1>2. more \ {x} = S /\ x \in more /\ Counts(S, f) /\ f[x] \in Nat
    BY DEF Counts
  <1>3. Total(S, f) \in Nat
    BY <1>2, TotalRemove
  <1>4. Total(more, f) = f[x] + Total(more \ {x}, f)
    <2> HIDE DEF more
    <2> QED BY <1>1, <1>2, TotalRemove
  <1> QED BY <1>1, <1>2, <1>3, <1>4

LEMMA TotalEmpty ==
  ASSUME NEW f
  PROVE  Total({}, f) = 0
  <1>1. IsFiniteSet({})
    BY FS_EmptySet
  <1> QED BY <1>1, TotalStep

\* The sum depends on the values only.
LEMMA TotalSame ==
  ASSUME NEW S, IsFiniteSet(S), NEW f, Counts(S, f), NEW g, \A x \in S : f[x] = g[x]
  PROVE  Total(S, f) = Total(S, g)
  <1> DEFINE Good == {T \in SUBSET S : Total(T, f) = Total(T, g)}
  <1>1. {} \in Good
    BY TotalEmpty
  <1>2. ASSUME NEW T \in SUBSET S, NEW x \in S \ T, T \in Good PROVE T \cup {x} \in Good
    <2>1. IsFiniteSet(T) /\ x \notin T /\ Counts(T \cup {x}, f) /\ Counts(T \cup {x}, g)
      BY FS_Subset DEF Counts
    <2>2. Total(T \cup {x}, f) = f[x] + Total(T, f)
      BY <2>1, TotalAdd
    <2>3. Total(T \cup {x}, g) = g[x] + Total(T, g)
      BY <2>1, TotalAdd
    <2> QED BY <1>2, <2>2, <2>3
  <1> HIDE DEF Good
  <1>3. S \in Good
    BY <1>1, <1>2, FiniteInduction
  <1> QED BY <1>3 DEF Good

\* Two parts of a set.
LEMMA TotalUnion ==
  ASSUME NEW S, IsFiniteSet(S), NEW T, IsFiniteSet(T), S \cap T = {}, NEW f, Counts(S \cup T, f)
  PROVE  /\ IsFiniteSet(S \cup T)
         /\ Total(S, f) \in Nat /\ Total(T, f) \in Nat
         /\ Total(S \cup T, f) = Total(S, f) + Total(T, f)
  <1> DEFINE Good == {U \in SUBSET T : Total(S \cup U, f) = Total(S, f) + Total(U, f)}
  <1>0. Counts(S, f) /\ Counts(T, f)
    BY DEF Counts
  <1>1. Total(S, f) \in Nat /\ Total(T, f) \in Nat
    BY <1>0, TotalRemove
  <1>2. {} \in Good
    <2>1. S \cup {} = S
      OBVIOUS
    <2> QED BY <1>1, <2>1, TotalEmpty
  <1>3. ASSUME NEW U \in SUBSET T, NEW x \in T \ U, U \in Good PROVE U \cup {x} \in Good
    <2> DEFINE part == S \cup U
    <2>1. IsFiniteSet(U) /\ x \notin U /\ Counts(U \cup {x}, f)
      BY FS_Subset DEF Counts
    <2>2. IsFiniteSet(part) /\ x \notin part /\ Counts(part \cup {x}, f)
      BY <2>1, FS_Union DEF Counts
    <2>3. Total(U \cup {x}, f) = f[x] + Total(U, f) /\ Total(U, f) \in Nat /\ f[x] \in Nat
      BY <2>1, TotalAdd
    <2>4. Total(part \cup {x}, f) = f[x] + Total(part, f)
      <3> HIDE DEF part
      <3> QED BY <2>2, TotalAdd
    <2>5. S \cup (U \cup {x}) = part \cup {x}
      OBVIOUS
    <2>6. Total(part, f) = Total(S, f) + Total(U, f)
      BY <1>3
    <2> HIDE DEF part
    <2>7. Total(S \cup (U \cup {x}), f) = Total(part \cup {x}, f)
      BY <2>5
    <2>8. Total(S \cup (U \cup {x}), f) = Total(S, f) + Total(U \cup {x}, f)
      BY <1>1, <2>3, <2>4, <2>6, <2>7
    <2> QED BY <2>8
  <1> HIDE DEF Good
  <1>4. T \in Good
    BY <1>2, <1>3, FiniteInduction
  <1>5. IsFiniteSet(S \cup T)
    BY FS_Union
  <1> QED BY <1>1, <1>4, <1>5 DEF Good

\* A part adds up to no more than the whole.
LEMMA TotalPart ==
  ASSUME NEW S, IsFiniteSet(S), NEW f, Counts(S, f), NEW T \in SUBSET S
  PROVE  /\ IsFiniteSet(T) /\ IsFiniteSet(S \ T)
         /\ Total(T, f) \in Nat /\ Total(S \ T, f) \in Nat
         /\ Total(S, f) = Total(T, f) + Total(S \ T, f)
  <1> DEFINE rest == S \ T
  <1>1. IsFiniteSet(T) /\ IsFiniteSet(rest)
    BY FS_Subset
  <1>2. T \cap rest = {} /\ T \cup rest = S
    OBVIOUS
  <1> HIDE DEF rest
  <1>3. Counts(T \cup rest, f) /\ T \cap rest = {}
    BY <1>2
  <1>4. Total(T \cup rest, f) = Total(T, f) + Total(rest, f) /\ Total(T, f) \in Nat /\ Total(rest, f) \in Nat
    BY <1>1, <1>3, TotalUnion
  <1> QED BY <1>1, <1>2, <1>4 DEF rest

LEMMA TotalOne ==
  ASSUME NEW f, NEW x, f[x] \in Nat
  PROVE  Total({x}, f) = f[x]
  <1> DEFINE none == {}
  <1>1. IsFiniteSet(none) /\ x \notin none /\ none \cup {x} = {x} /\ Counts(none \cup {x}, f)
    BY FS_EmptySet DEF Counts
  <1> HIDE DEF none
  <1>2. Total(none \cup {x}, f) = f[x] + Total(none, f)
    BY <1>1, TotalAdd
  <1>3. Total(none, f) = 0
    BY TotalEmpty DEF none
  <1> QED BY <1>1, <1>2, <1>3

\* The values of an image that keeps elements apart.
LEMMA TotalImage ==
  ASSUME NEW S, IsFiniteSet(S), NEW h, NEW f, NEW g,
         \A x, y \in S : h[x] = h[y] => x = y,
         Counts(S, g), \A x \in S : f[h[x]] = g[x]
  PROVE  IsFiniteSet({h[x] : x \in S}) /\ Total({h[x] : x \in S}, f) = Total(S, g)
  <1> DEFINE image(T) == {h[x] : x \in T}
             Good == {T \in SUBSET S : IsFiniteSet(image(T)) /\ Total(image(T), f) = Total(T, g)}
  <1>1. {} \in Good
    <2>1. image({}) = {}
      OBVIOUS
    <2> HIDE DEF image
    <2> QED BY <2>1, TotalEmpty, FS_EmptySet
  <1>2. ASSUME NEW T \in SUBSET S, NEW x \in S \ T, T \in Good PROVE T \cup {x} \in Good
    <2>1. IsFiniteSet(T) /\ x \notin T /\ Counts(T \cup {x}, g)
      BY FS_Subset DEF Counts
    <2>2. Total(T \cup {x}, g) = g[x] + Total(T, g)
      BY <2>1, TotalAdd
    <2>3. image(T \cup {x}) = image(T) \cup {h[x]} /\ h[x] \notin image(T)
      OBVIOUS
    <2>4. Counts(image(T) \cup {h[x]}, f)
      BY DEF Counts
    <2>5. IsFiniteSet(image(T)) /\ Total(image(T), f) = Total(T, g)
      BY <1>2
    <2> DEFINE part == image(T)
               y == h[x]
    <2>6. IsFiniteSet(part) /\ y \notin part /\ Counts(part \cup {y}, f) /\ f[y] = g[x]
      BY <2>3, <2>4, <2>5
    <2> HIDE DEF part, y
    <2>7. IsFiniteSet(part \cup {y}) /\ Total(part \cup {y}, f) = f[y] + Total(part, f)
      BY <2>6, TotalAdd
    <2>8. image(T \cup {x}) = part \cup {y} /\ Total(part, f) = Total(T, g)
      BY <2>3, <2>5 DEF part, y
    <2> HIDE DEF image
    <2> QED BY <2>2, <2>6, <2>7, <2>8
  <1> HIDE DEF Good
  <1>3. S \in Good
    BY <1>1, <1>2, FiniteInduction
  <1> QED BY <1>3 DEF Good

\* The classes of a set, each with its own sum.
Classes(S, K, class) ==
  /\ IsFiniteSet(K) /\ \A k \in K : class[k] \in SUBSET S
  /\ \A x \in S : \E k \in K : \A j \in K : x \in class[j] <=> j = k

LEMMA TotalClasses ==
  ASSUME NEW S, IsFiniteSet(S), NEW f, Counts(S, f), NEW K, NEW class, Classes(S, K, class),
         NEW g, \A k \in K : g[k] = Total(class[k], f)
  PROVE  Counts(K, g) /\ Total(K, g) = Total(S, f)
  <1> DEFINE upto(L) == {x \in S : \E k \in L : x \in class[k]}
             Good == {L \in SUBSET K : Total(L, g) = Total(upto(L), f)}
  <1>0. IsFiniteSet(K) /\ \A k \in K : class[k] \in SUBSET S
    BY DEF Classes
  <1>1. \A T \in SUBSET S : IsFiniteSet(T) /\ Counts(T, f) /\ Total(T, f) \in Nat
    <2> TAKE T \in SUBSET S
    <2>1. IsFiniteSet(T) /\ Counts(T, f)
      BY FS_Subset DEF Counts
    <2> QED BY <2>1, TotalRemove
  <1>2. Counts(K, g)
    <2> SUFFICES ASSUME NEW k \in K PROVE g[k] \in Nat
      BY DEF Counts
    <2>1. class[k] \in SUBSET S /\ g[k] = Total(class[k], f)
      BY <1>0
    <2> QED BY <1>1, <2>1
  <1>3. {} \in Good
    <2>1. upto({}) = {}
      OBVIOUS
    <2> HIDE DEF upto
    <2> QED BY <2>1, TotalEmpty
  <1>4. ASSUME NEW L \in SUBSET K, NEW k \in K \ L, L \in Good PROVE L \cup {k} \in Good
    <2>1. IsFiniteSet(L) /\ k \notin L /\ Counts(L \cup {k}, g)
      BY <1>0, <1>2, FS_Subset DEF Counts
    <2>2. Total(L \cup {k}, g) = g[k] + Total(L, g)
      BY <2>1, TotalAdd
    <2> DEFINE old == upto(L)
               new == class[k]
    <2>3. /\ old \in SUBSET S /\ new \in SUBSET S /\ old \cap new = {}
          /\ upto(L \cup {k}) = old \cup new /\ old \cup new \in SUBSET S
      <3>1. \A x \in S : x \in new => x \notin old
        BY DEF Classes
      <3> QED BY <1>0, <3>1
    <2>4. g[k] = Total(new, f) /\ Total(L, g) = Total(old, f)
      BY <1>4
    <2> HIDE DEF old, new, upto
    <2>5. IsFiniteSet(old) /\ IsFiniteSet(new) /\ Counts(old \cup new, f) /\ old \cap new = {}
      BY <1>1, <2>3
    <2>6. Total(old \cup new, f) = Total(old, f) + Total(new, f) /\ Total(old, f) \in Nat /\ Total(new, f) \in Nat
      <3>1. ASSUME NEW A, IsFiniteSet(A), NEW B, IsFiniteSet(B), A \cap B = {}, Counts(A \cup B, f)
            PROVE  /\ Total(A \cup B, f) = Total(A, f) + Total(B, f)
                   /\ Total(A, f) \in Nat /\ Total(B, f) \in Nat
        BY ONLY <3>1, TotalUnion
      <3> QED BY ONLY <2>5, <3>1
    <2>7. Total(upto(L \cup {k}), f) = Total(old \cup new, f)
      BY <2>3
    <2>8. Total(L \cup {k}, g) = Total(upto(L \cup {k}), f)
      BY <2>2, <2>4, <2>6, <2>7
    <2> QED BY <2>8
  <1> HIDE DEF Good
  <1>5. K \in Good
    BY <1>0, <1>3, <1>4, FiniteInduction
  <1>6. upto(K) = S
    BY DEF Classes
  <1> HIDE DEF upto
  <1> QED BY <1>2, <1>5, <1>6 DEF Good

\* A set of records with one for each class, that holds the class's sum.
LEMMA TotalGrouped ==
  ASSUME NEW S, IsFiniteSet(S), NEW f, Counts(S, f), NEW K, NEW class, Classes(S, K, class),
         NEW h, NEW v,
         \A j, k \in K : h[j] = h[k] => j = k,
         \A k \in K : v[h[k]] = Total(class[k], f)
  PROVE  /\ IsFiniteSet({h[k] : k \in K}) /\ Counts({h[k] : k \in K}, v)
         /\ Total({h[k] : k \in K}, v) = Total(S, f)
  <1>0. IsFiniteSet(K)
    BY DEF Classes
  <1> DEFINE g == [k \in K |-> Total(class[k], f)]
  <1>2. \A k \in K : v[h[k]] = g[k]
    OBVIOUS
  <1>3. \A k \in K : g[k] = Total(class[k], f)
    OBVIOUS
  <1> HIDE DEF g
  <1>4. Counts(K, g) /\ Total(K, g) = Total(S, f)
    BY <1>3, TotalClasses
  <1>5. IsFiniteSet({h[k] : k \in K}) /\ Total({h[k] : k \in K}, v) = Total(K, g)
    <2>1. ASSUME NEW T, IsFiniteSet(T), NEW e, NEW u, NEW w, \A x, y \in T : e[x] = e[y] => x = y,
                 Counts(T, w), \A x \in T : u[e[x]] = w[x]
          PROVE  IsFiniteSet({e[x] : x \in T}) /\ Total({e[x] : x \in T}, u) = Total(T, w)
      BY ONLY <2>1, TotalImage
    <2> QED BY ONLY <1>0, <1>2, <1>4, <2>1, \A j, k \in K : h[j] = h[k] => j = k
  <1>6. Counts({h[k] : k \in K}, v)
    BY ONLY <1>2, <1>4 DEF Counts
  <1> QED BY <1>4, <1>5, <1>6
=============================================================================
