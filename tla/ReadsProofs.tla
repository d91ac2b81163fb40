---------------------------- MODULE ReadsProofs -----------------------------
(***************************************************************************)
(* Theorems about what is read from the API in several requests: listings, *)
(* the names of resources, batches of GraphQL selections, the chunks and   *)
(* slices of one query, the snapshots taken from what polls read and the   *)
(* filter such snapshots pass.  For every list, page size, field set,      *)
(* limit, catalog, deny policy, change meanwhile and value of the bounds.  *)
(***************************************************************************)
EXTENDS Listings, NameCache, GraphQLBatch, GraphQLQuery, SnapshotPolls, DenyPolicy,
        NumberProofs, SequenceTheorems

-----------------------------------------------------------------------------
(* Places in a list. *)

\* The items up to one of them are some of the list.
LEMMA RankRange ==
  ASSUME NEW S \in SUBSET Nat, IsFiniteSet(S), NEW i \in Nat
  PROVE  /\ Rank(i, S) \in 0 .. Cardinality(S)
         /\ i \in S => Rank(i, S) # 0
  <1> DEFINE upto == {j \in S : j <= i}
  <1>1. IsFiniteSet(upto) /\ Cardinality(upto) <= Cardinality(S)
    BY FS_Subset
  <1>2. Cardinality(upto) \in Nat /\ Cardinality(S) \in Nat
    BY <1>1, FS_CardinalityType
  <1>3. i \in S => upto # {}
    OBVIOUS
  <1>4. i \in S => Cardinality(upto) # 0
    BY <1>1, <1>3, FS_EmptySet
  <1> QED BY <1>1, <1>2, <1>4 DEF Rank

LEMMA RankNat ==
  ASSUME NEW S \in SUBSET Nat, IsFiniteSet(S), NEW i \in Nat
  PROVE  Rank(i, S) \in Nat
  <1>1. Cardinality(S) \in Nat
    BY FS_CardinalityType
  <1>2. Rank(i, S) \in 0 .. Cardinality(S)
    BY RankRange
  <1> QED BY <1>1, <1>2

\* A place grows with the number, strictly so for what is in the list.
LEMMA RankMono ==
  ASSUME NEW S \in SUBSET Nat, IsFiniteSet(S), NEW i \in Nat, NEW k \in Nat, i < k
  PROVE  /\ Rank(i, S) <= Rank(k, S)
         /\ k \in S => Rank(i, S) < Rank(k, S)
  <1> DEFINE low == {j \in S : j <= i}
             high == {j \in S : j <= k}
  <1>1. IsFiniteSet(high) /\ low \subseteq high
    <2>1. \A j \in S : j <= i => j <= k
      OBVIOUS
    <2>2. high \in SUBSET S /\ low \subseteq high
      BY <2>1
    <2> HIDE DEF high, low
    <2> QED BY <2>2, FS_Subset
  <1>2. /\ IsFiniteSet(low) /\ Cardinality(low) <= Cardinality(high)
        /\ Cardinality(low) = Cardinality(high) => low = high
    BY <1>1, FS_Subset
  <1>3. Cardinality(low) \in Nat /\ Cardinality(high) \in Nat
    BY <1>1, <1>2, FS_CardinalityType
  <1>4. k \in S => low # high
    <2>1. k \in S => k \in high /\ k \notin low
      OBVIOUS
    <2> QED BY <2>1
  <1> QED BY <1>2, <1>3, <1>4 DEF Rank

\* Every place of the list is one item's.
LEMMA RankBijection ==
  ASSUME NEW S \in SUBSET Nat, IsFiniteSet(S)
  PROVE  /\ \A i, k \in S : Rank(i, S) = Rank(k, S) => i = k
         /\ \A n \in 1 .. Cardinality(S) : \E i \in S : Rank(i, S) = n
  <1> DEFINE r == [i \in S |-> Rank(i, S)]
             places == 1 .. Cardinality(S)
  <1>1. Cardinality(S) \in Nat
    BY FS_CardinalityType
  <1>2. \A i \in S : Rank(i, S) \in places
    BY <1>1, RankRange
  <1>3. \A i, k \in S : Rank(i, S) = Rank(k, S) => i = k
    <2> TAKE i, k \in S
    <2>1. i \in Nat /\ k \in Nat
      OBVIOUS
    <2>2. Rank(i, S) \in Int /\ Rank(k, S) \in Int
      BY <1>1, <1>2
    <2>3. i < k => Rank(i, S) < Rank(k, S)
      BY <2>1, RankMono
    <2>4. k < i => Rank(k, S) < Rank(i, S)
      BY <2>1, RankMono
    <2> QED BY <2>1, <2>2, <2>3, <2>4
  <1>4. r \in Injection(S, places)
    BY <1>2, <1>3 DEF Injection, IsInjective
  <1>5. IsFiniteSet(places) /\ Cardinality(places) = Cardinality(S)
    BY <1>1, FS_Interval
  <1>6. r \in Surjection(S, places)
    <2> HIDE DEF r, places
    <2> QED BY <1>4, <1>5, FS_Injection
  <1>7. \A n \in places : \E i \in S : r[i] = n
    BY <1>6 DEF Surjection
  <1> QED BY <1>3, <1>7

\* More listed items leave no item at an earlier place.
LEMMA RankGrows ==
  ASSUME NEW S \in SUBSET Nat, IsFiniteSet(S), NEW T \in SUBSET S, NEW i \in Nat
  PROVE  Rank(i, T) <= Rank(i, S)
  <1> DEFINE all == {j \in S : j <= i}
             some == {j \in T : j <= i}
  <1>1. all \in SUBSET S /\ some \in SUBSET all
    OBVIOUS
  <1> HIDE DEF all, some
  <1>2. IsFiniteSet(all)
    BY <1>1, FS_Subset
  <1>3. Cardinality(some) <= Cardinality(all)
    BY <1>1, <1>2, FS_Subset
  <1> QED BY <1>3 DEF Rank, all, some

\* A page that the list reaches to its end is full.
LEMMA FullPage ==
  ASSUME NEW S \in SUBSET Nat, IsFiniteSet(S), NEW first \in Nat \ {0}, NEW last \in Nat,
         first <= last, last <= Cardinality(S)
  PROVE  Cardinality(Ranked(S, first, last)) = last - first + 1
  <1> DEFINE page == Ranked(S, first, last)
             places == first .. last
             r == [i \in page |-> Rank(i, S)]
  <1>1. Cardinality(S) \in Nat /\ \A i \in S : Rank(i, S) \in Int
    BY FS_CardinalityType, RankRange
  <1>2. r \in [page -> places]
    <2>1. \A i \in page : Rank(i, S) \in places
      BY <1>1 DEF Ranked
    <2> HIDE DEF page, places
    <2> QED BY <2>1
  <1>3. \A i, k \in page : r[i] = r[k] => i = k
    BY RankBijection DEF Ranked
  <1>4. \A n \in places : \E i \in page : r[i] = n
    <2> TAKE n \in places
    <2>1. n \in 1 .. Cardinality(S) /\ first <= n /\ n <= last
      BY <1>1
    <2>2. PICK i \in S : Rank(i, S) = n
      BY <2>1, RankBijection
    <2>3. i \in page
      BY <2>1, <2>2 DEF Ranked
    <2> QED BY <2>2, <2>3
  <1>5. page \in SUBSET S
    BY DEF Ranked
  <1>6. IsFiniteSet(page) /\ IsFiniteSet(places) /\ Cardinality(places) = last - first + 1
    BY <1>5, FS_Subset, FS_Interval
  <1>7. DOMAIN r = page
    OBVIOUS
  <1> HIDE DEF r, page, places
  <1>8. r \in Injection(page, places) /\ r \in Surjection(page, places)
    BY <1>2, <1>3, <1>4, <1>7 DEF Injection, Surjection, IsInjective
  <1>9. Cardinality(page) = Cardinality(places)
    BY <1>6, <1>8, FS_Injection
  <1> QED BY <1>6, <1>9 DEF page

\* After a page that is not full there is nothing.
LEMMA LastPage ==
  ASSUME NEW S \in SUBSET Nat, IsFiniteSet(S), NEW first \in Nat \ {0}, NEW last \in Nat,
         first <= last, Cardinality(Ranked(S, first, last)) < last - first + 1
  PROVE  \A i \in S : Rank(i, S) <= last
  <1>1. Cardinality(S) \in Nat /\ \A i \in S : Rank(i, S) \in 0 .. Cardinality(S)
    BY FS_CardinalityType, RankRange
  <1>2. ~(last <= Cardinality(S))
    BY FullPage
  <1> QED BY <1>1, <1>2

-----------------------------------------------------------------------------
(* Listings. *)

Asks == [at : {"ask"}, how : {"pages", "cursors"}, page : Nat \ {0}, cursor : Nat,
         seen : SUBSET Items, rows : SUBSET Items, twice : SUBSET Items, asked : Seq(Nat)]
Ended == [at : {"rows", "limit", "repeated", "failed"}, how : {"pages", "cursors"},
          rows : SUBSET Items, twice : SUBSET Items, asked : Seq(Nat)]

\* The types, and what the changes of the list have left.
ListsType ==
  /\ listed \in SUBSET Items /\ IsFiniteSet(listed)
  /\ edits \in Nat
  /\ server \in [size : ServerPages, repeats : BOOLEAN]
  /\ steady \subseteq listed /\ listed \subseteq ever /\ ever \in SUBSET Items
  /\ shrunk \in BOOLEAN
  /\ edits = 0 => ~shrunk
  /\ listing \in Asks \cup Ended

\* Pages asked one after the other: every steady item with an earlier place has
\* been read; without a change nothing else has.
PagesInv ==
  Asking /\ listing.how = "pages" =>
    LET read == (listing.page - 1) * server.size
    IN  /\ Len(listing.asked) = listing.page - 1 /\ listing.page <= PageCap
        /\ \A k \in DOMAIN listing.asked : listing.asked[k] = k
        /\ ~shrunk => \A i \in steady : Rank(i, listed) <= read => i \in listing.rows
        /\ edits = 0 => /\ listing.twice = {}
                        /\ \A i \in listing.rows : Rank(i, listed) <= read

\* Cursors followed: every steady item up to the cursor has been read, and the
\* cursor has not been asked with.
CursorsInv ==
  Asking /\ listing.how = "cursors" =>
    /\ Len(listing.asked) < PageCap
    /\ IsInjective(listing.asked)
    /\ \A k \in DOMAIN listing.asked : /\ listing.asked[k] \in listing.seen \cup {0}
                                       /\ listing.asked[k] # listing.cursor
    /\ listing.cursor \in listing.seen \cup {0}
    /\ ~server.repeats => \A i \in steady : i <= listing.cursor => i \in listing.rows
    /\ ~server.repeats /\ edits = 0 =>
         listing.twice = {} /\ \A i \in listing.rows : i <= listing.cursor

\* What the requests so far have read.
ListsInv ==
  /\ ListsType /\ PagesInv /\ CursorsInv
  /\ listing.rows \subseteq ever
  /\ ListingSound

LEMMA ListsStartInv == ListsInit => ListsInv
  <1> SUFFICES ASSUME ListsInit PROVE ListsInv
    OBVIOUS
  <1>0. PICK items \in SUBSET Items, api \in [size : ServerPages, repeats : BOOLEAN], how \in {"pages", "cursors"} :
          IsFiniteSet(items) /\ ListsStart(items, api, how)
    BY DEF ListsInit
  <1> USE <1>0 DEF ListsStart, Call
  <1>1. listing \in Asks
    <2>1. << >> \in Seq(Nat)
      OBVIOUS
    <2> QED BY <2>1 DEF Asks
  <1>2. listing.rows = {} /\ listing.twice = {} /\ listing.asked = << >> /\ listing.at = "ask"
        /\ listing.page = 1 /\ listing.cursor = 0
    OBVIOUS
  <1>3. ListsType
    BY <1>1 DEF ListsType
  <1>4. server.size \in Nat /\ (listing.page - 1) * server.size = 0
    <2>1. server.size \in Nat /\ listing.page - 1 = 0
      <3>1. server.size \in ServerPages
        OBVIOUS
      <3>2. \A n \in ServerPages : n \in Nat
        BY ListingAssumption
      <3> QED BY <1>2, <3>1, <3>2
    <2>2. \A n \in Nat : 0 * n = 0
      OBVIOUS
    <2> QED BY <2>1, <2>2
  <1>5. \A i \in listed : Rank(i, listed) \in Nat \ {0}
    BY RankRange, FS_CardinalityType, ListingAssumption
  <1>6. PagesInv
    BY <1>2, <1>4, <1>5, ListingAssumption DEF PagesInv
  <1>7. CursorsInv
    BY <1>2, ListingAssumption DEF CursorsInv, IsInjective
  <1>8. ListingSound
    BY <1>2, ListingAssumption DEF ListingSound, ListingComplete, AskedOnce, IsInjective
  <1> QED BY <1>2, <1>3, <1>6, <1>7, <1>8 DEF ListsInv

\* A sequence without repetition stays so when something new is appended.
LEMMA AppendNew ==
  ASSUME NEW s \in Seq(Nat), NEW e \in Nat, IsInjective(s), \A k \in DOMAIN s : s[k] # e
  PROVE  /\ Append(s, e) \in Seq(Nat) /\ IsInjective(Append(s, e))
         /\ Len(Append(s, e)) = Len(s) + 1
         /\ \A k \in DOMAIN Append(s, e) :
              (k = Len(s) + 1 /\ Append(s, e)[k] = e) \/ (k \in DOMAIN s /\ Append(s, e)[k] = s[k])
  <1> DEFINE t == Append(s, e)
  <1>1. t \in Seq(Nat) /\ Len(t) = Len(s) + 1 /\ DOMAIN t = 1 .. Len(s) + 1 /\ DOMAIN s = 1 .. Len(s)
    BY AppendProperties
  <1>2. \A k \in DOMAIN t : (k = Len(s) + 1 /\ t[k] = e) \/ (k \in DOMAIN s /\ t[k] = s[k])
    <2>1. t[Len(s) + 1] = e /\ \A k \in 1 .. Len(s) : t[k] = s[k]
      BY AppendProperties
    <2>2. Len(s) \in Nat
      OBVIOUS
    <2> HIDE DEF t
    <2> QED BY <1>1, <2>1, <2>2
  <1> HIDE DEF t
  <1>3. IsInjective(t)
    BY <1>1, <1>2 DEF IsInjective
  <1> QED BY <1>1, <1>2, <1>3 DEF t

\* What a page or a cursor gives is on the list at the moment.
LEMMA PageListed ==
  ASSUME ListsType
  PROVE  /\ listed \in SUBSET Nat /\ server.size \in Nat \ {0}
         /\ \A i \in listed : i \in Nat \ {0}
         /\ \A p : PageRows(p) \subseteq listed
         /\ \A c : /\ CursorPage(c) \subseteq After(c) /\ After(c) \in SUBSET listed
                   /\ IsFiniteSet(After(c))
  <1>1. \A c : After(c) \in SUBSET listed
    BY DEF After
  <1>2. \A c : IsFiniteSet(After(c))
    BY <1>1, FS_Subset DEF ListsType
  <1>3. listed \in SUBSET Nat /\ \A i \in listed : i \in Nat \ {0}
    BY ListingAssumption DEF ListsType
  <1>4. server.size \in Nat \ {0}
    <2>1. server.size \in ServerPages
      BY DEF ListsType
    <2>2. \A n \in ServerPages : n \in Nat \ {0}
      BY ListingAssumption
    <2> QED BY <2>1, <2>2
  <1>5. (\A p : PageRows(p) \subseteq listed) /\ \A c : CursorPage(c) \subseteq After(c)
    BY DEF PageRows, CursorPage, Ranked
  <1> QED BY <1>1, <1>2, <1>3, <1>4, <1>5

\* The end of a listing when the call has not asked anything more.
LEMMA ErrorInv ==
  ASSUME ListsInv, Asking, NEW kind \in {"limit", "repeated", "failed"}, listing' = Error(kind),
         UNCHANGED <<listed, edits, server, steady, ever, shrunk>>
  PROVE  ListsInv'
  <1>1. listing \in Asks
    BY DEF ListsInv, ListsType, Asking, Ended
  <1>2. listing' \in Ended /\ listing'.at = kind /\ listing'.rows = listing.rows
        /\ listing'.asked = listing.asked
    BY <1>1 DEF Error, Outcome, Ended, Asks
  <1>3. ListsType'
    BY <1>2 DEF ListsInv, ListsType
  <1> QED BY <1>2, <1>3
       DEF ListsInv, PagesInv, CursorsInv, Asking, ListingSound, ListingComplete, AskedOnce

LEMMA AskPageInv == ListsInv /\ AskPage => ListsInv'
  <1> SUFFICES ASSUME ListsInv, AskPage PROVE ListsInv'
    OBVIOUS
  <1> DEFINE read == (listing.page - 1) * server.size
             page == PageRows(listing.page)
             rows == listing.rows \cup page
             twice == listing.twice \cup (listing.rows \cap page)
             asked == Append(listing.asked, listing.page)
  <1>1. /\ Asking /\ listing.how = "pages" /\ listing \in Asks
        /\ UNCHANGED <<listed, edits, server, steady, ever, shrunk>>
    BY DEF AskPage, ListsInv, ListsType, Asking, Ended
  <1>2. PICK reported \in {server.size} \cup (IF server.size = PerPage THEN {0} ELSE {}) :
          listing' =
             IF Short(page, reported) THEN Outcome("rows", rows, twice, asked)
             ELSE IF listing.page = PageCap THEN Error("limit")
             ELSE [listing EXCEPT !.page = @ + 1, !.rows = rows, !.twice = twice, !.asked = asked]
    BY DEF AskPage
  <1> HIDE DEF page, rows, twice, asked
  <1>3. /\ listing.page \in Nat \ {0} /\ server.size \in Nat \ {0} /\ read \in Nat
        /\ (listing.page + 1 - 1) * server.size = read + server.size
        /\ listing.page * server.size = read + server.size
    <2>1. listing.page \in Nat \ {0} /\ server.size \in Nat \ {0}
      BY <1>1, PageListed DEF Asks, ListsInv
    <2>2. \A p \in Nat \ {0}, n \in Nat : /\ (p - 1) * n \in Nat
                                       /\ (p + 1 - 1) * n = (p - 1) * n + n
                                       /\ p * n = (p - 1) * n + n
      OBVIOUS
    <2> QED BY <2>1, <2>2
  <1>4. /\ \A i \in listed : i \in page <=> read < Rank(i, listed) /\ Rank(i, listed) <= read + server.size
        /\ \A i \in listed : Rank(i, listed) \in Nat
        /\ page \subseteq listed
    <2>1. listed \in SUBSET Nat /\ IsFiniteSet(listed) /\ page \subseteq listed
      BY PageListed DEF ListsInv, ListsType, page
    <2>2. \A i \in listed : Rank(i, listed) \in Nat
      BY <2>1, RankRange, FS_CardinalityType
    <2>3. \A i \in listed : i \in page <=> read + 1 <= Rank(i, listed) /\ Rank(i, listed) <= read + server.size
      BY <1>3 DEF page, PageRows, Ranked
    <2> QED BY <1>3, <2>1, <2>2, <2>3
  <1> HIDE DEF read
  <1>5. /\ listed \subseteq ever /\ ever \subseteq Items
        /\ rows \in SUBSET Items /\ twice \in SUBSET Items /\ rows \subseteq ever
    BY <1>1, <1>4 DEF rows, twice, ListsInv, ListsType, Asks
  <1>6. /\ asked \in Seq(Nat) /\ IsInjective(asked) /\ Len(asked) = listing.page
        /\ listing.page <= PageCap
        /\ \A k \in DOMAIN asked : asked[k] = k
    <2>1. /\ Len(listing.asked) = listing.page - 1 /\ listing.page <= PageCap
          /\ \A k \in DOMAIN listing.asked : listing.asked[k] = k
          /\ listing.asked \in Seq(Nat)
      BY <1>1 DEF ListsInv, PagesInv, Asks
    <2>2. DOMAIN listing.asked = 1 .. listing.page - 1
      BY <2>1
    <2>3. IsInjective(listing.asked) /\ \A k \in DOMAIN listing.asked : listing.asked[k] # listing.page
      BY <1>3, <2>1, <2>2, SMTT(30) DEF IsInjective
    <2>4. /\ asked \in Seq(Nat) /\ IsInjective(asked) /\ Len(asked) = listing.page
      <3>1. listing.asked \in Seq(Nat) /\ listing.page \in Nat
        BY <1>3, <2>1
      <3>2. /\ Append(listing.asked, listing.page) \in Seq(Nat)
            /\ IsInjective(Append(listing.asked, listing.page))
            /\ Len(Append(listing.asked, listing.page)) = Len(listing.asked) + 1
        BY <3>1, <2>3, AppendNew
      <3> QED BY <1>3, <2>1, <3>2 DEF asked
    <2>5. \A k \in DOMAIN asked : asked[k] = k
      BY <1>3, <2>1 DEF asked
    <2> QED BY <2>1, <2>4, <2>5
  <1>7. ~shrunk => \A i \in steady : Rank(i, listed) <= read + server.size => i \in rows
    <2> SUFFICES ASSUME ~shrunk, NEW i \in steady, Rank(i, listed) <= read + server.size
                 PROVE  i \in rows
      OBVIOUS
    <2>1. i \in listed /\ Rank(i, listed) \in Nat
      BY <1>4 DEF ListsInv, ListsType
    <2>2. Rank(i, listed) <= read => i \in listing.rows
      BY <1>1 DEF ListsInv, PagesInv, read
    <2> QED BY <1>3, <1>4, <2>1, <2>2 DEF rows
  <1>8. edits = 0 => twice = {} /\ \A i \in rows : Rank(i, listed) <= read + server.size
    <2> SUFFICES ASSUME edits = 0
                 PROVE  twice = {} /\ \A i \in rows : Rank(i, listed) <= read + server.size
      OBVIOUS
    <2>1. listing.twice = {} /\ \A i \in listing.rows : Rank(i, listed) <= read
      BY <1>1 DEF ListsInv, PagesInv, read
    <2>2. \A i \in page : ~(Rank(i, listed) <= read) /\ Rank(i, listed) <= read + server.size
      BY <1>3, <1>4
    <2>3. \A i \in listing.rows : Rank(i, listed) \in Nat
      <3>1. listed \in SUBSET Nat /\ IsFiniteSet(listed) /\ \A i \in listing.rows : i \in Nat
        BY PageListed, ListingAssumption, <1>5 DEF ListsInv, ListsType, rows
      <3> QED BY <3>1, RankRange, FS_CardinalityType
    <2> QED BY <1>3, <2>1, <2>2, <2>3 DEF rows, twice
  <1>9. CASE Short(page, reported)
    <2>1. listing' = Outcome("rows", rows, twice, asked)
      BY <1>2, <1>9
    <2>2. listing' \in Ended /\ listing'.at = "rows" /\ listing'.how = "pages" /\ listing'.rows = rows
          /\ listing'.twice = twice /\ listing'.asked = asked
      BY <1>1, <1>5, <1>6, <2>1 DEF Outcome, Ended, Asks
    <2>3. Cardinality(page) < server.size
      BY <1>3, <1>9, ListingAssumption DEF Short
    <2>4. \A i \in listed : Rank(i, listed) <= read + server.size
      <3>1. page = Ranked(listed, read + 1, read + server.size)
        BY <1>3 DEF page, PageRows, read
      <3>2. read + server.size - (read + 1) + 1 = server.size
        BY <1>3
      <3> QED BY <1>3, <2>3, <3>1, <3>2, PageListed, LastPage DEF ListsInv, ListsType
    <2>5. ~shrunk => steady \subseteq rows
      BY <1>7, <2>4 DEF ListsInv, ListsType
    <2>6. ListingSound'
      BY <1>1, <1>5, <1>6, <1>8, <2>2, <2>5 DEF ListingSound, ListingComplete, AskedOnce
    <2>7. ListsType'
      BY <1>1, <2>2 DEF ListsInv, ListsType
    <2> QED BY <1>1, <1>5, <2>2, <2>6, <2>7 DEF ListsInv, PagesInv, CursorsInv, Asking
  <1>10. CASE ~Short(page, reported) /\ listing.page = PageCap
    BY <1>1, <1>2, <1>10, ErrorInv
  <1>11. CASE ~Short(page, reported) /\ listing.page # PageCap
    <2>1. listing' = [listing EXCEPT !.page = listing.page + 1, !.rows = rows, !.twice = twice, !.asked = asked]
      BY <1>2, <1>11
    <2>2. /\ listing' \in Asks /\ listing'.at = "ask" /\ listing'.how = "pages"
          /\ listing'.page = listing.page + 1
          /\ listing'.rows = rows /\ listing'.twice = twice /\ listing'.asked = asked
      <3>1. listing.page + 1 \in Nat \ {0} /\ listing \in Asks /\ listing.how = "pages"
        BY <1>1, <1>3
      <3>2. rows \in SUBSET Items /\ twice \in SUBSET Items /\ asked \in Seq(Nat)
        BY <1>5, <1>6
      <3>3. /\ listing' \in Asks /\ listing'.at = "ask" /\ listing'.how = listing.how
            /\ listing'.page = listing.page + 1 /\ listing'.rows = rows /\ listing'.twice = twice
            /\ listing'.asked = asked
        <4>1. listing' \in Asks
          BY <2>1, <3>1, <3>2 DEF Asks
        <4>2. /\ listing'.page = listing.page + 1 /\ listing'.rows = rows /\ listing'.twice = twice
          BY <2>1, <3>1, <3>2 DEF Asks
        <4>3. listing'.asked = asked
          BY <2>1, <3>1, <3>2 DEF Asks
        <4>4. listing'.at = "ask" /\ listing'.how = listing.how
          BY <2>1, <3>1, <3>2 DEF Asks
        <4> QED BY <4>1, <4>2, <4>3, <4>4
      <3> QED BY <3>1, <3>3
    <2>3. ListsType'
      BY <1>1, <2>2 DEF ListsInv, ListsType
    <2>4. (listing'.page - 1) * server'.size = read + server.size
      BY <1>1, <1>3, <2>2
    <2>5. PagesInv'
      BY <1>1, <1>3, <1>6, <1>7, <1>8, <1>11, <2>2, <2>4, ListingAssumption DEF PagesInv
    <2>6. CursorsInv'
      BY <2>2 DEF CursorsInv
    <2>7. ListingSound'
      BY <1>6, <2>2 DEF ListingSound, ListingComplete, AskedOnce
    <2> QED BY <1>1, <1>5, <2>2, <2>3, <2>5, <2>6, <2>7 DEF ListsInv
  <1> QED BY <1>9, <1>10, <1>11

\* The cursor of a page that is not the last names the last item of the page.
LEMMA ProperCursor ==
  ASSUME ListsType, NEW c \in Nat
  PROVE  /\ Proper(c) \in listed \cup {0} /\ (Proper(c) # 0 => Proper(c) \in After(c))
         /\ Proper(c) = 0 => CursorPage(c) = After(c)
         /\ Proper(c) # 0 => \A i \in After(c) : i <= Proper(c) <=> i \in CursorPage(c)
  <1> DEFINE S == After(c)
  <1>1. /\ S \in SUBSET Nat /\ IsFiniteSet(S) /\ server.size \in Nat \ {0}
        /\ S \subseteq listed /\ \A i \in S : i # 0
    BY PageListed
  <1>2. /\ Cardinality(S) \in Nat
        /\ \A i \in S : Rank(i, S) \in 1 .. Cardinality(S)
    BY <1>1, RankRange, FS_CardinalityType
  <1>3. CursorPage(c) = {i \in S : Rank(i, S) <= server.size}
    <2>1. \A i \in S : 1 <= Rank(i, S)
      BY <1>2
    <2> QED BY <2>1 DEF CursorPage, Ranked
  <1> HIDE DEF S
  <1>4. CASE Cardinality(S) > server.size
    <2>1. \E i \in S : Rank(i, S) = server.size
      <3>1. server.size \in 1 .. Cardinality(S)
        BY <1>1, <1>2, <1>4
      <3> QED BY <1>1, <3>1, RankBijection
    <2>2. Proper(c) \in S /\ Rank(Proper(c), S) = server.size
      BY <1>4, <2>1 DEF Proper, S
    <2>3. \A i \in S : i <= Proper(c) <=> Rank(i, S) <= server.size
      <3> TAKE i \in S
      <3>1. i \in Nat /\ Proper(c) \in Nat /\ Rank(i, S) \in Int /\ server.size \in Int
        <4>1. (\A n \in S : n \in Nat) /\ server.size \in Int
          BY <1>1
        <4>3. i \in Nat /\ Proper(c) \in Nat
          BY <2>2, <4>1
        <4>2. Rank(i, S) \in 1 .. Cardinality(S) /\ Cardinality(S) \in Nat
          BY <1>2
        <4> QED BY <4>1, <4>2, <4>3
      <3>2. i < Proper(c) => Rank(i, S) < Rank(Proper(c), S)
        BY <1>1, <2>2, <3>1, RankMono
      <3>3. Proper(c) < i => Rank(Proper(c), S) < Rank(i, S)
        BY <1>1, <2>2, <3>1, RankMono
      <3> QED BY <2>2, <3>1, <3>2, <3>3
    <2> QED BY <1>1, <1>3, <2>2, <2>3 DEF S
  <1>5. CASE ~(Cardinality(S) > server.size)
    <2>1. Proper(c) = 0
      BY <1>5 DEF Proper, S
    <2>2. \A i \in S : Rank(i, S) <= server.size
      BY <1>1, <1>2, <1>5
    <2> QED BY <1>3, <2>1, <2>2 DEF S
  <1> QED BY <1>4, <1>5

LEMMA AskCursorInv == ListsInv /\ AskCursor => ListsInv'
  <1> SUFFICES ASSUME ListsInv, AskCursor PROVE ListsInv'
    OBVIOUS
  <1> DEFINE page == CursorPage(listing.cursor)
             rows == listing.rows \cup page
             twice == listing.twice \cup (listing.rows \cap page)
             asked == Append(listing.asked, listing.cursor)
  <1>1. /\ Asking /\ listing.how = "cursors" /\ listing \in Asks
        /\ UNCHANGED <<listed, edits, server, steady, ever, shrunk>>
    BY DEF AskCursor, ListsInv, ListsType, Asking, Ended
  <1>2. PICK cursor \in NextCursors(listing.cursor) :
          listing' =
             IF cursor = 0 THEN Outcome("rows", rows, twice, asked)
             ELSE IF Repeated(cursor) THEN Error("repeated")
             ELSE IF Len(asked) = PageCap THEN Error("limit")
             ELSE [listing EXCEPT !.cursor = cursor, !.seen = @ \cup {cursor}, !.rows = rows, !.twice = twice, !.asked = asked]
    BY DEF AskCursor
  <1> HIDE DEF page, rows, twice, asked
  <1>3. /\ listing.cursor \in Nat /\ listing.seen \in SUBSET Items /\ listing.asked \in Seq(Nat)
        /\ listing.rows \in SUBSET Items /\ listing.twice \in SUBSET Items
        /\ \A i \in Items : i \in Nat \ {0}
    BY <1>1, ListingAssumption DEF Asks
  <1>4. ListsType /\ server.repeats \in BOOLEAN
    BY DEF ListsInv, ListsType
  <1>5. /\ page \subseteq listed /\ listed \subseteq ever /\ ever \subseteq Items
        /\ \A i \in page : i \in After(listing.cursor)
        /\ rows \in SUBSET Items /\ twice \in SUBSET Items /\ rows \subseteq ever
    <2>1. page \subseteq listed /\ \A i \in page : i \in After(listing.cursor)
      BY <1>4, PageListed DEF page
    <2> QED BY <1>3, <1>4, <2>1 DEF rows, twice, ListsInv, ListsType
  <1>6. /\ \A i \in listed : i \in After(listing.cursor) <=> ~(i <= listing.cursor)
        /\ \A i \in After(listing.cursor) : i \in listed
    BY <1>3, <1>4, PageListed DEF After
  <1>7. cursor \in Items \cup {0} /\ (~server.repeats => cursor = Proper(listing.cursor))
    <2>1. Proper(listing.cursor) \in Items \cup {0}
      BY <1>3, <1>4, <1>5, ProperCursor
    <2> QED BY <1>3, <2>1 DEF NextCursors
  <1>8. /\ asked \in Seq(Nat) /\ IsInjective(asked) /\ Len(asked) = Len(listing.asked) + 1
        /\ Len(asked) <= PageCap
        /\ \A k \in DOMAIN asked : asked[k] \in listing.seen \cup {0}
    <2>1. /\ IsInjective(listing.asked) /\ Len(listing.asked) < PageCap
          /\ listing.cursor \in listing.seen \cup {0}
          /\ \A k \in DOMAIN listing.asked : listing.asked[k] # listing.cursor
          /\ \A k \in DOMAIN listing.asked : listing.asked[k] \in listing.seen \cup {0}
      BY <1>1 DEF ListsInv, CursorsInv
    <2>2. /\ asked \in Seq(Nat) /\ IsInjective(asked) /\ Len(asked) = Len(listing.asked) + 1
      BY <1>3, <2>1, AppendNew DEF asked
    <2>3. \A k \in DOMAIN asked :
            asked[k] = listing.cursor \/ (k \in DOMAIN listing.asked /\ asked[k] = listing.asked[k])
      BY <1>3, <2>1, AppendNew DEF asked
    <2>4. Len(listing.asked) \in Nat /\ PageCap \in Nat
      BY <1>3, ListingAssumption
    <2>5. Len(asked) <= PageCap
      BY <2>1, <2>2, <2>4
    <2> QED BY <2>1, <2>2, <2>3, <2>5
  <1>9. ~server.repeats => \A i \in steady :
          (cursor = 0 \/ i <= cursor) => i \in rows
    <2> SUFFICES ASSUME ~server.repeats, NEW i \in steady, cursor = 0 \/ i <= cursor
                 PROVE  i \in rows
      OBVIOUS
    <2>1. i \in listed /\ i \in Nat
      BY <1>4, PageListed DEF ListsType
    <2>2. i <= listing.cursor => i \in listing.rows
      BY <1>1 DEF ListsInv, CursorsInv
    <2>3. i \in After(listing.cursor) => i \in page
      BY <1>3, <1>4, <1>7, ProperCursor DEF page
    <2> QED BY <1>6, <2>1, <2>2, <2>3 DEF rows
  <1>10. ~server.repeats /\ edits = 0 =>
           twice = {} /\ (cursor # 0 => \A i \in rows : i <= cursor)
    <2> SUFFICES ASSUME ~server.repeats, edits = 0
                 PROVE  twice = {} /\ (cursor # 0 => \A i \in rows : i <= cursor)
      OBVIOUS
    <2>1. listing.twice = {} /\ \A i \in listing.rows : i <= listing.cursor
      BY <1>1 DEF ListsInv, CursorsInv
    <2>2. \A i \in page : ~(i <= listing.cursor)
      BY <1>5, <1>6
    <2>3. cursor # 0 => \A i \in page : i <= cursor
      BY <1>3, <1>4, <1>5, <1>7, ProperCursor DEF page
    <2>4. cursor # 0 => cursor \in After(listing.cursor)
      <3>1. cursor # 0 => cursor \in listed /\ cursor = Proper(listing.cursor)
        BY <1>3, <1>4, <1>7, ProperCursor
      <3>2. cursor # 0 => Proper(listing.cursor) \in After(listing.cursor)
        BY <1>3, <1>4, <1>7, ProperCursor
      <3> QED BY <3>1, <3>2
    <2>5. cursor # 0 => listing.cursor <= cursor
      BY <1>3, <1>5, <1>6, <1>7, <2>4
    <2>6. cursor # 0 => \A i \in listing.rows : i <= cursor
      BY <1>3, <1>7, <2>1, <2>5
    <2> QED BY <2>1, <2>2, <2>3, <2>6 DEF rows, twice
  <1>11. CASE cursor = 0
    <2>1. listing' = Outcome("rows", rows, twice, asked)
      BY <1>2, <1>11
    <2>2. listing' \in Ended /\ listing'.at = "rows" /\ listing'.how = "cursors" /\ listing'.rows = rows
          /\ listing'.twice = twice /\ listing'.asked = asked
      BY <1>1, <1>5, <1>8, <2>1 DEF Outcome, Ended
    <2>3. ListingSound'
      BY <1>1, <1>5, <1>8, <1>9, <1>10, <1>11, <2>2 DEF ListingSound, ListingComplete, AskedOnce
    <2>4. ListsType'
      BY <1>1, <2>2 DEF ListsInv, ListsType
    <2> QED BY <1>1, <1>5, <2>2, <2>3, <2>4 DEF ListsInv, PagesInv, CursorsInv, Asking
  <1>12. CASE cursor # 0 /\ (Repeated(cursor) \/ Len(asked) = PageCap)
    BY <1>1, <1>2, <1>12, ErrorInv
  <1>13. CASE cursor # 0 /\ ~Repeated(cursor) /\ Len(asked) # PageCap
    <2>1. listing' = [listing EXCEPT !.cursor = cursor, !.seen = listing.seen \cup {cursor}, !.rows = rows,
                                     !.twice = twice, !.asked = asked]
      BY <1>2, <1>13
    <2>2. cursor \in Nat /\ listing.seen \cup {cursor} \in SUBSET Items /\ listing \in Asks
      BY <1>1, <1>3, <1>7, <1>13
    <2>3. rows \in SUBSET Items /\ twice \in SUBSET Items /\ asked \in Seq(Nat)
      BY <1>5, <1>8
    <2>4. listing' \in Asks
      BY <2>1, <2>2, <2>3 DEF Asks
    <2>5. listing'.at = "ask" /\ listing'.how = listing.how /\ listing'.cursor = cursor
      BY <2>1, <2>2, <2>3 DEF Asks
    <2>6. listing'.seen = listing.seen \cup {cursor} /\ listing'.rows = rows
      BY <2>1, <2>2, <2>3 DEF Asks
    <2>7. listing'.twice = twice /\ listing'.asked = asked
      BY <2>1, <2>2, <2>3 DEF Asks
    <2>8. Len(asked) < PageCap /\ \A k \in DOMAIN asked : asked[k] # cursor
      <3>1. Len(asked) \in Nat /\ PageCap \in Nat /\ Len(asked) <= PageCap /\ Len(asked) # PageCap
        BY <1>8, <1>13, ListingAssumption
      <3>2. cursor \notin listing.seen \cup {0}
        BY <1>13 DEF Repeated
      <3> QED BY <1>8, <3>1, <3>2
    <2>9. CursorsInv'
      BY <1>1, <1>8, <1>9, <1>10, <1>13, <2>5, <2>6, <2>7, <2>8 DEF CursorsInv
    <2>10. ListsType' /\ PagesInv'
      BY <1>1, <2>4, <2>5 DEF ListsInv, ListsType, PagesInv
    <2>11. ListingSound'
      BY <1>8, <2>5, <2>7 DEF ListingSound, ListingComplete, AskedOnce
    <2> QED BY <1>1, <1>5, <2>6, <2>9, <2>10, <2>11 DEF ListsInv
  <1> QED BY <1>11, <1>12, <1>13

\* The list changes while the call runs.
LEMMA EditInv == ListsInv /\ (Appear \/ Disappear) => ListsInv'
  <1> SUFFICES ASSUME ListsInv, Appear \/ Disappear PROVE ListsInv'
    OBVIOUS
  <1>1. Asking /\ listing \in Asks /\ UNCHANGED <<server, listing>> /\ edits' = edits + 1
        /\ ListsType /\ edits \in Nat /\ edits' # 0
    BY DEF Appear, Disappear, ListsInv, ListsType, Asking, Ended
  <1>2. ListsType' /\ ever \subseteq ever'
    <2>1. CASE Appear
      <3>1. PICK i \in Items \ listed : listed' = listed \cup {i}
        BY <2>1 DEF Appear
      <3>2. IsFiniteSet(listed')
        BY <1>1, <3>1, FS_AddElement DEF ListsType
      <3> QED BY <1>1, <2>1, <3>1, <3>2 DEF Appear, ListsType
    <2>2. CASE Disappear
      <3>1. PICK i \in listed : listed' = listed \ {i} /\ steady' = steady \ {i}
        BY <2>2 DEF Disappear
      <3>2. IsFiniteSet(listed')
        BY <1>1, <3>1, FS_RemoveElement DEF ListsType
      <3> QED BY <1>1, <2>2, <3>1, <3>2 DEF Disappear, ListsType
    <2> QED BY <2>1, <2>2
  <1>3. steady' \subseteq steady
    BY DEF Appear, Disappear
  <1>4. listing.how = "pages" /\ ~shrunk' =>
          \A i \in steady' : Rank(i, listed') <= (listing.page - 1) * server.size => i \in listing.rows
    <2> SUFFICES ASSUME listing.how = "pages", ~shrunk', NEW i \in steady',
                        Rank(i, listed') <= (listing.page - 1) * server.size
                 PROVE  i \in listing.rows
      OBVIOUS
    <2>1. Appear
      BY DEF Disappear
    <2>2. listed \subseteq listed' /\ ~shrunk /\ i \in steady
      BY <1>3, <2>1 DEF Appear
    <2>3. listed' \in SUBSET Nat /\ IsFiniteSet(listed') /\ i \in Nat /\ listed \in SUBSET listed'
          /\ listed \in SUBSET Nat /\ IsFiniteSet(listed)
      BY <1>1, <1>2, <2>2, ListingAssumption DEF ListsType
    <2>4. Rank(i, listed) <= Rank(i, listed')
      BY <2>3, RankGrows
    <2>5. Rank(i, listed) \in Nat /\ Rank(i, listed') \in Nat
      BY <2>3, RankNat
    <2>6. (listing.page - 1) * server.size \in Int
      <3>1. listing.page \in Int /\ server.size \in Int
        BY <1>1, PageListed DEF Asks
      <3>2. \A p, n \in Int : (p - 1) * n \in Int
        OBVIOUS
      <3> QED BY <3>1, <3>2
    <2>7. Rank(i, listed) <= (listing.page - 1) * server.size
      BY <2>4, <2>5, <2>6
    <2> QED BY <1>1, <2>2, <2>7 DEF ListsInv, PagesInv
  <1>5. PagesInv'
    BY <1>1, <1>4 DEF ListsInv, PagesInv, Asking
  <1>6. CursorsInv'
    BY <1>1, <1>3 DEF ListsInv, CursorsInv, Asking
  <1> QED BY <1>1, <1>2, <1>5, <1>6 DEF ListsInv, Asking, ListingSound, ListingComplete, AskedOnce

\* A listing that succeeds holds what was listed all the time, and asks for no
\* page or cursor twice, for every list, page size and change of the list, also
\* when the API repeats its cursors (Pages, Cursors).
THEOREM ListingsSound == ListsSpec => []ListingSound
  <1>1. ListsInv /\ [ListsNext]_lists => ListsInv'
    <2> SUFFICES ASSUME ListsInv, [ListsNext]_lists PROVE ListsInv'
      OBVIOUS
    <2>1. CASE AskPage
      BY <2>1, AskPageInv
    <2>2. CASE AskCursor
      BY <2>2, AskCursorInv
    <2>3. CASE ListingFailed
      BY <2>3, ErrorInv DEF ListingFailed
    <2>4. CASE Appear \/ Disappear
      BY <2>4, EditInv
    <2>5. CASE UNCHANGED lists
      BY <2>5 DEF lists, ListsInv, ListsType, PagesInv, CursorsInv, Asking, ListingSound, ListingComplete, AskedOnce
    <2> QED BY <2>1, <2>2, <2>3, <2>4, <2>5 DEF ListsNext
  <1>2. ListsInv => ListingSound
    BY DEF ListsInv
  <1> QED BY <1>1, <1>2, ListsStartInv, PTL DEF ListsSpec

-----------------------------------------------------------------------------
(* Names. *)

Named == Ids \X (NameSet \cup {NoName})
Loads == [at : {"load"}, page : Nat \ {0}, size : RowsGiven, total : Nat \cup {-1}, seen : Nat,
          rows : SUBSET Named, changed : Nat]

\* The resources up to a place of the list.
UpTo(last) == {id \in DOMAIN catalog : Rank(id, DOMAIN catalog) <= last}

NamesType ==
  /\ time \in Nat /\ changed \in Nat /\ lookedUp \in Nat
  /\ DOMAIN catalog \subseteq Ids /\ IsFiniteSet(DOMAIN catalog)
  /\ catalog \in [DOMAIN catalog -> NameSet \cup {NoName}]
  /\ load \in Loads \cup {Absent}

\* What a refresh has read was true since it began; when nothing has changed
\* since, it is the list up to the page.
LoadInv ==
  load # Absent =>
    /\ load.changed <= changed /\ Pairs(catalog) \subseteq truths /\ load.rows \subseteq truths
    /\ load.changed = changed =>
         LET read == UpTo((load.page - 1) * load.size)
         IN  /\ truths = Pairs(catalog)
             /\ load.rows = {<<id, catalog[id]>> : id \in read} /\ load.seen = Cardinality(read)

EntryInv == entry # Absent => entry.ended \in Nat /\ entry.until = entry.ended + Hour

NamesInv == NamesType /\ LoadInv /\ EntryInv /\ NamesSound

\* The names of a refresh belong to one resource each and a resource to one name;
\* when no resource has two, they are those that are acceptable and not shared.
LEMMA MappingSound ==
  ASSUME NEW rows \in SUBSET Named
  PROVE  /\ Mapping(rows) \subseteq rows
         /\ \A p, o \in Mapping(rows) : p[1] = o[1] <=> p[2] = o[2]
         /\ (\A p, o \in rows : p[1] = o[1] => p = o) =>
              Mapping(rows) = {p \in rows : p[2] # NoName /\ \A o \in rows : o[2] = p[2] => o = p}
  <1>1. \A r \in rows : r \in Mapping(rows) <=>
          \A q \in rows : q[1] = r[1] => q[2] # NoName /\ \A o \in rows : (o[1] = q[1]) <=> (o[2] = q[2])
    BY DEF Mapping, Ambiguous
  <1>2. Mapping(rows) \subseteq rows
    BY DEF Mapping
  <1>3. \A p \in rows : p = <<p[1], p[2]>>
    BY DEF Named
  <1>4. \A p, o \in Mapping(rows) : p[1] = o[1] <=> p[2] = o[2]
    BY <1>1, <1>2
  <1>5. ASSUME \A p, o \in rows : p[1] = o[1] => p = o, NEW r \in rows
        PROVE  r \in Mapping(rows) <=> r[2] # NoName /\ \A o \in rows : o[2] = r[2] => o = r
    <2>1. \A q \in rows : q[1] = r[1] <=> q = r
      BY <1>5
    <2>2. r \in Mapping(rows) <=> r[2] # NoName /\ \A o \in rows : (o[1] = r[1]) <=> (o[2] = r[2])
      BY <1>1, <2>1
    <2> QED BY <2>1, <2>2
  <1>6. (\A p, o \in rows : p[1] = o[1] => p = o) =>
          Mapping(rows) = {p \in rows : p[2] # NoName /\ \A o \in rows : o[2] = p[2] => o = p}
    BY <1>2, <1>5
  <1> QED BY <1>2, <1>4, <1>6

\* The pairs of the catalog are one for each resource.
LEMMA PairsSound ==
  ASSUME NamesType
  PROVE  /\ Pairs(catalog) \in SUBSET Named
         /\ \A p, o \in Pairs(catalog) : p[1] = o[1] => p = o
         /\ \A d \in SUBSET DOMAIN catalog :
              LET rows == {<<id, catalog[id]>> : id \in d}
              IN  /\ rows \subseteq Pairs(catalog) /\ IsFiniteSet(rows)
                  /\ Cardinality(rows) = Cardinality(d)
  <1>1. Pairs(catalog) \in SUBSET Named
    BY DEF Pairs, Named, NamesType
  <1>2. \A p, o \in Pairs(catalog) : p[1] = o[1] => p = o
    BY DEF Pairs
  <1>3. ASSUME NEW d \in SUBSET DOMAIN catalog
        PROVE  LET rows == {<<id, catalog[id]>> : id \in d}
               IN  /\ rows \subseteq Pairs(catalog) /\ IsFiniteSet(rows)
                   /\ Cardinality(rows) = Cardinality(d)
    <2> DEFINE rows == {<<id, catalog[id]>> : id \in d}
               pair == [id \in d |-> <<id, catalog[id]>>]
    <2>1. rows \subseteq Pairs(catalog)
      BY DEF Pairs
    <2>2. pair \in [d -> rows]
      OBVIOUS
    <2>3. DOMAIN pair = d /\ (\A a, b \in d : pair[a] = pair[b] => a = b) /\ \A r \in rows : \E a \in d : pair[a] = r
      OBVIOUS
    <2>4. IsFiniteSet(d)
      BY FS_Subset DEF NamesType
    <2> HIDE DEF rows, pair
    <2>5. pair \in Injection(d, rows) /\ pair \in Surjection(d, rows)
      BY <2>2, <2>3 DEF Injection, Surjection, IsInjective
    <2>6. IsFiniteSet(rows) /\ Cardinality(rows) = Cardinality(d)
      BY <2>4, <2>5, FS_Surjection
    <2> QED BY <2>1, <2>6 DEF rows
  <1> QED BY <1>1, <1>2, <1>3

\* A refresh that ends with sound names leaves the cache sound.
LEMMA FinishInv ==
  ASSUME NamesInv, NEW pairs, NEW whole \in BOOLEAN, Finish(pairs, whole),
         UNCHANGED <<time, catalog, changed, truths>>,
         pairs \subseteq truths, \A p, o \in pairs : p[1] = o[1] <=> p[2] = o[2],
         whole /\ load.changed = changed =>
           pairs = {p \in truths : p[2] # NoName /\ \A o \in truths : o[2] = p[2] => o = p}
  PROVE  NamesInv'
  <1>1. load' = Absent /\ lookedUp' = time /\ time \in Nat
    BY DEF Finish, NamesInv, NamesType
  <1>2. NamesType' /\ LoadInv'
    BY <1>1 DEF NamesInv, NamesType, LoadInv
  <1>3. entry' = [at |-> "kept", until |-> time + Hour, ended |-> time, pairs |-> pairs, truths |-> truths,
                  calm |-> whole /\ load.changed = changed]
    BY DEF Finish
  <1>4. /\ entry'.ended = time /\ entry'.until = time + Hour /\ entry'.pairs = pairs
        /\ entry'.truths = truths /\ entry'.calm = (whole /\ load.changed = changed)
    BY <1>3
  <1>5. time < time + Hour
    BY <1>1, NamesAssumption
  <1> QED BY <1>1, <1>2, <1>4, <1>5 DEF NamesInv, EntryInv, NamesSound

LEMMA EmptyFinishInv ==
  ASSUME NamesInv, Finish(Unnamed, FALSE), UNCHANGED <<time, catalog, changed, truths>>
  PROVE  NamesInv'
  <1> DEFINE whole == FALSE
  <1>1. Finish({}, whole) /\ whole \in BOOLEAN /\ ~whole
    BY DEF Unnamed
  <1> HIDE DEF whole
  <1>2. {} \subseteq truths /\ \A p, o \in {} : p[1] = o[1] <=> p[2] = o[2]
    OBVIOUS
  <1> QED BY <1>1, <1>2, FinishInv

\* A step that leaves the cache and the time of the last look-up alone.
LEMMA EntryFrame ==
  ASSUME EntryInv, NamesSound, UNCHANGED <<entry, lookedUp>>
  PROVE  EntryInv' /\ NamesSound'
  BY DEF EntryInv, NamesSound

LEMMA LookUpInv == NamesInv /\ LookUp => NamesInv'
  <1> SUFFICES ASSUME NamesInv, LookUp PROVE NamesInv'
    OBVIOUS
  <1>1. load = Absent /\ UNCHANGED <<time, catalog, changed, entry>>
    BY DEF LookUp
  <1>2. CASE Current
    <2>1. lookedUp' = time /\ UNCHANGED <<load, truths>>
      BY <1>2 DEF LookUp
    <2>2. entry # Absent /\ time < entry.ended + Hour
      BY <1>2 DEF Current, NamesInv, EntryInv
    <2>3. NamesSound'
      BY <1>1, <2>1, <2>2 DEF NamesInv, NamesSound
    <2> QED BY <1>1, <2>1, <2>3 DEF NamesInv, NamesType, LoadInv, EntryInv
  <1>3. CASE ~Current
    <2>1. PICK size \in RowsGiven :
            load' = [at |-> "load", page |-> 1, size |-> size, total |-> -1, seen |-> 0, rows |-> {},
                     changed |-> changed]
      BY <1>3 DEF LookUp
    <2>2. truths' = Pairs(catalog) /\ lookedUp' = lookedUp
      BY <1>3 DEF LookUp
    <2>3. load' \in Loads /\ load'.page = 1 /\ load'.size = size /\ load'.seen = 0 /\ load'.rows = {}
          /\ load'.changed = changed
      BY <2>1 DEF Loads, NamesInv, NamesType
    <2>4. NamesType'
      BY <1>1, <2>2, <2>3 DEF NamesInv, NamesType
    <2>5. {id \in DOMAIN catalog : Rank(id, DOMAIN catalog) <= (load'.page - 1) * load'.size} = {}
      <3>1. \A id \in DOMAIN catalog : Rank(id, DOMAIN catalog) \in Nat \ {0}
        <4>1. DOMAIN catalog \in SUBSET Nat /\ IsFiniteSet(DOMAIN catalog)
          BY NamesAssumption DEF NamesInv, NamesType
        <4> QED BY <4>1, RankRange, RankNat
      <3>2. (load'.page - 1) * load'.size = 0
        <4>1. size \in Nat /\ load'.page - 1 = 0 /\ load'.size = size
          BY <2>3, NamesAssumption
        <4>2. \A n \in Nat : 0 * n = 0
          OBVIOUS
        <4> QED BY <4>1, <4>2
      <3> QED BY <3>1, <3>2
    <2>6. LoadInv'
      <3>1. Cardinality({}) = 0 /\ changed <= changed /\ {<<id, catalog[id]>> : id \in {}} = {}
        BY FS_EmptySet DEF NamesInv, NamesType
      <3>2. UpTo((load.page - 1) * load.size)' = {}
        BY <1>1, <2>5 DEF UpTo
      <3> QED BY <1>1, <2>2, <2>3, <3>1, <3>2 DEF LoadInv, Pairs
    <2> QED BY <1>1, <2>2, <2>4, <2>6, EntryFrame DEF NamesInv
  <1> QED BY <1>2, <1>3

\* The next page of a catalog that has not changed continues what has been read.
LEMMA NextNames ==
  ASSUME NamesInv, load # Absent
  PROVE  LET rows == CatalogPage(load.page, load.size)
             read == UpTo(load.page * load.size)
         IN  /\ rows \subseteq Pairs(catalog) /\ Cardinality(rows) \in Nat
             /\ load.changed = changed =>
                  /\ load.rows \cup rows = {<<id, catalog[id]>> : id \in read}
                  /\ load.seen + Cardinality(rows) = Cardinality(read)
  <1> DEFINE before == (load.page - 1) * load.size
             old == UpTo(before)
             new == Ranked(DOMAIN catalog, before + 1, before + load.size)
             rows == CatalogPage(load.page, load.size)
  <1>1. NamesType /\ load \in Loads
    BY DEF NamesInv, NamesType
  <1>2. load.page \in Nat \ {0} /\ load.size \in Nat \ {0}
    BY <1>1, NamesAssumption DEF Loads
  <1>3. before \in Nat /\ load.page * load.size = before + load.size
    <2>1. \A p \in Nat \ {0}, n \in Nat : (p - 1) * n \in Nat /\ p * n = (p - 1) * n + n
      OBVIOUS
    <2> QED BY <1>2, <2>1
  <1>4. rows = {<<id, catalog[id]>> : id \in new}
    BY <1>3 DEF CatalogPage
  <1> HIDE DEF before
  <1>5. DOMAIN catalog \in SUBSET Nat /\ IsFiniteSet(DOMAIN catalog)
    BY <1>1, NamesAssumption DEF NamesType
  <1>6. \A id \in DOMAIN catalog : Rank(id, DOMAIN catalog) \in Nat
    BY <1>5, RankNat
  <1>7. old \in SUBSET DOMAIN catalog /\ new \in SUBSET DOMAIN catalog
    BY DEF UpTo, Ranked
  <1>8. old \cap new = {} /\ old \cup new = UpTo(before + load.size)
    BY <1>2, <1>3, <1>6 DEF UpTo, Ranked
  <1> HIDE DEF old, new, rows
  <1>9. IsFiniteSet(old) /\ IsFiniteSet(new) /\ Cardinality(old) \in Nat /\ Cardinality(new) \in Nat
    BY <1>5, <1>7, FS_Subset, FS_CardinalityType
  <1>10. rows \subseteq Pairs(catalog) /\ Cardinality(rows) = Cardinality(new)
    BY <1>1, <1>4, <1>7, PairsSound
  <1>11. Cardinality(old \cup new) = Cardinality(old) + Cardinality(new)
    <2>1. Cardinality(old \cup new) = Cardinality(old) + Cardinality(new) - Cardinality(old \cap new)
      BY <1>9, FS_Union
    <2>2. Cardinality(old \cap new) = 0
      BY <1>8, FS_EmptySet
    <2> QED BY <1>9, <2>1, <2>2
  <1>12. load.changed = changed =>
           load.rows = {<<id, catalog[id]>> : id \in old} /\ load.seen = Cardinality(old)
    BY DEF NamesInv, LoadInv, old, before
  <1> QED BY <1>3, <1>4, <1>8, <1>9, <1>10, <1>11, <1>12 DEF rows

LEMMA LoadPageInv == NamesInv /\ LoadPage => NamesInv'
  <1> SUFFICES ASSUME NamesInv, LoadPage PROVE NamesInv'
    OBVIOUS
  <1> DEFINE rows == CatalogPage(load.page, load.size)
             total == Cardinality(DOMAIN catalog)
             seen == load.seen + Cardinality(rows)
             all == load.rows \cup rows
             stops == \/ total > TotalCap \/ load.total \notin {-1, total} \/ seen > total
                      \/ seen # total /\ (Cardinality(rows) # load.size \/ load.page = PagesCap)
  <1>1. load # Absent /\ load \in Loads /\ NamesType /\ UNCHANGED <<time, catalog, changed, truths>>
    BY DEF LoadPage, NamesInv, NamesType
  <1>2. IF stops THEN Finish(Unnamed, FALSE)
        ELSE IF seen = total THEN Finish(Mapping(all), TRUE)
        ELSE /\ load' = [load EXCEPT !.page = @ + 1, !.total = total, !.seen = seen, !.rows = all]
             /\ UNCHANGED <<entry, lookedUp>>
    BY DEF LoadPage
  <1>3. /\ rows \subseteq Pairs(catalog) /\ Cardinality(rows) \in Nat
        /\ load.changed = changed =>
             /\ all = {<<id, catalog[id]>> : id \in UpTo(load.page * load.size)}
             /\ seen = Cardinality(UpTo(load.page * load.size))
    BY <1>1, NextNames
  <1> HIDE DEF rows, stops
  <1>4. all \subseteq truths /\ all \in SUBSET Named
    <2>1. Pairs(catalog) \subseteq truths /\ load.rows \subseteq truths
      BY <1>1 DEF NamesInv, LoadInv
    <2>2. load.rows \in SUBSET Named
      BY <1>1 DEF Loads
    <2> QED BY <1>1, <1>3, <2>1, <2>2, PairsSound
  <1>5. CASE stops
    BY <1>1, <1>2, <1>5, EmptyFinishInv
  <1>6. CASE ~stops /\ seen = total
    <2>1. Finish(Mapping(all), TRUE)
      BY <1>2, <1>6
    <2>2. Mapping(all) \subseteq truths /\ \A p, o \in Mapping(all) : p[1] = o[1] <=> p[2] = o[2]
      BY <1>4, MappingSound
    <2>3. load.changed = changed => all = truths /\ truths = Pairs(catalog)
      <3> SUFFICES ASSUME load.changed = changed PROVE all = truths /\ truths = Pairs(catalog)
        OBVIOUS
      <3> DEFINE read == UpTo(load.page * load.size)
      <3>1. read \in SUBSET DOMAIN catalog
        BY DEF UpTo
      <3>2. Cardinality(read) = Cardinality(DOMAIN catalog) /\ all = {<<id, catalog[id]>> : id \in read}
        BY <1>3, <1>6
      <3> HIDE DEF read, all
      <3>3. read = DOMAIN catalog
        BY <1>1, <3>1, <3>2, FS_Subset DEF NamesType
      <3> QED BY <1>1, <3>2, <3>3 DEF NamesInv, LoadInv, Pairs
    <2>4. load.changed = changed =>
            Mapping(all) = {p \in truths : p[2] # NoName /\ \A o \in truths : o[2] = p[2] => o = p}
      <3> HIDE DEF all
      <3> QED BY <1>1, <1>4, <2>3, MappingSound, PairsSound
    <2> QED BY <1>1, <2>1, <2>2, <2>4, FinishInv
  <1>7. CASE ~stops /\ seen # total
    <2> HIDE DEF all, total, seen
    <2>1. /\ load' = [load EXCEPT !.page = load.page + 1, !.total = total, !.seen = seen, !.rows = all]
          /\ UNCHANGED <<entry, lookedUp>>
      BY <1>2, <1>7
    <2>2. /\ load.page + 1 \in Nat \ {0} /\ total \in Nat \cup {-1} /\ seen \in Nat /\ load \in Loads
          /\ all \in SUBSET Named
      BY <1>1, <1>3, <1>4, FS_CardinalityType DEF Loads, NamesType, total, seen
    <2>3. load' \in Loads
      BY <2>1, <2>2 DEF Loads
    <2>4. load'.page = load.page + 1 /\ load'.size = load.size /\ load'.changed = load.changed
      BY <2>1, <2>2 DEF Loads
    <2>5. load'.seen = seen /\ load'.rows = all
      BY <2>1, <2>2 DEF Loads
    <2>6. (load'.page - 1) * load'.size = load.page * load.size
      <3>1. load.page \in Nat /\ load'.page - 1 = load.page
        BY <2>2, <2>4 DEF Loads
      <3> QED BY <2>4, <3>1
    <2>7. LoadInv'
      BY <1>1, <1>3, <1>4, <2>4, <2>5, <2>6 DEF NamesInv, LoadInv, UpTo, seen, all
    <2>8. NamesType'
      BY <1>1, <2>1, <2>3 DEF NamesType
    <2> QED BY <2>1, <2>7, <2>8, EntryFrame DEF NamesInv
  <1> QED BY <1>5, <1>6, <1>7

\* The account's resources change, with the counter of its changes.
LEMMA BecomesInv ==
  ASSUME NamesInv, NEW c, Becomes(c), DOMAIN c \subseteq Ids, IsFiniteSet(DOMAIN c),
         c \in [DOMAIN c -> NameSet \cup {NoName}]
  PROVE  NamesInv'
  <1>1. catalog' = c /\ changed' = changed + 1 /\ UNCHANGED <<time, entry, load, lookedUp>>
        /\ truths' = IF load = Absent THEN truths ELSE truths \cup Pairs(c)
    BY DEF Becomes
  <1>2. NamesType'
    BY <1>1 DEF NamesInv, NamesType
  <1>3. load # Absent => load.changed \in Nat /\ load.changed <= changed /\ changed \in Nat
    BY DEF NamesInv, NamesType, LoadInv, Loads
  <1>4. load # Absent => load.changed < changed'
    BY <1>1, <1>3
  <1>5. load # Absent => load.changed <= changed' /\ load.changed # changed'
    BY <1>1, <1>3
  <1>6. LoadInv'
    BY <1>1, <1>5 DEF NamesInv, LoadInv
  <1> QED BY <1>1, <1>2, <1>6, EntryFrame DEF NamesInv

LEMMA NamesStepInv == NamesInv /\ [NamesNext]_names => NamesInv'
  <1> SUFFICES ASSUME NamesInv, [NamesNext]_names PROVE NamesInv'
    OBVIOUS
  <1>1. CASE LookUp
    BY <1>1, LookUpInv
  <1>2. CASE LoadPage
    BY <1>2, LoadPageInv
  <1>3. CASE LoadFails
    BY <1>3, EmptyFinishInv DEF LoadFails
  <1>4. CASE Rename
    <2>1. PICK id \in DOMAIN catalog, n \in NameSet \cup {NoName} : Becomes([catalog EXCEPT ![id] = n])
      BY <1>4 DEF Rename
    <2>2. DOMAIN [catalog EXCEPT ![id] = n] = DOMAIN catalog
      OBVIOUS
    <2>3. [catalog EXCEPT ![id] = n] \in [DOMAIN catalog -> NameSet \cup {NoName}]
      BY DEF NamesInv, NamesType
    <2> QED BY <2>1, <2>2, <2>3, BecomesInv DEF NamesInv, NamesType
  <1>5. CASE Create
    <2>1. PICK id \in Ids \ DOMAIN catalog, n \in NameSet :
            Becomes([i \in DOMAIN catalog \cup {id} |-> IF i = id THEN n ELSE catalog[i]])
      BY <1>5 DEF Create
    <2> DEFINE c == [i \in DOMAIN catalog \cup {id} |-> IF i = id THEN n ELSE catalog[i]]
    <2>2. DOMAIN c = DOMAIN catalog \cup {id} /\ c \in [DOMAIN catalog \cup {id} -> NameSet \cup {NoName}]
      BY DEF NamesInv, NamesType
    <2>3. IsFiniteSet(DOMAIN catalog \cup {id}) /\ DOMAIN catalog \cup {id} \subseteq Ids
      BY FS_AddElement DEF NamesInv, NamesType
    <2>4. Becomes(c)
      BY <2>1
    <2> HIDE DEF c
    <2> QED BY <2>2, <2>3, <2>4, BecomesInv
  <1>6. CASE Delete
    <2>1. PICK id \in DOMAIN catalog : Becomes([i \in DOMAIN catalog \ {id} |-> catalog[i]])
      BY <1>6 DEF Delete
    <2> DEFINE c == [i \in DOMAIN catalog \ {id} |-> catalog[i]]
    <2>2. DOMAIN c = DOMAIN catalog \ {id} /\ c \in [DOMAIN catalog \ {id} -> NameSet \cup {NoName}]
      BY DEF NamesInv, NamesType
    <2>3. IsFiniteSet(DOMAIN catalog \ {id}) /\ DOMAIN catalog \ {id} \subseteq Ids
      BY FS_RemoveElement DEF NamesInv, NamesType
    <2>4. Becomes(c)
      BY <2>1
    <2> HIDE DEF c
    <2> QED BY <2>2, <2>3, <2>4, BecomesInv
  <1>7. CASE TimePasses
    <2>1. NamesType' /\ LoadInv'
      BY <1>7 DEF TimePasses, NamesInv, NamesType, LoadInv, UpTo
    <2> QED BY <1>7, <2>1, EntryFrame DEF TimePasses, NamesInv
  <1>8. CASE UNCHANGED names
    BY <1>8 DEF names, NamesInv, NamesType, LoadInv, EntryInv, NamesSound, UpTo
  <1> QED BY <1>1, <1>2, <1>3, <1>4, <1>5, <1>6, <1>7, <1>8 DEF NamesNext

\* A look-up never gives two resources one name, nor a name that was not the
\* resource's own during the refresh that read it, less than an hour ago; and a
\* refresh without changes names every resource it can (lookup, loadNames).
THEOREM NamesAlwaysSound == NamesSpec => []NamesSound
  <1>1. NamesInit => NamesInv
    BY NamesAssumption
       DEF NamesInit, NamesStart, NamesInv, NamesType, LoadInv, EntryInv, NamesSound, Absent
  <1>2. NamesInv => NamesSound
    BY DEF NamesInv
  <1> QED BY <1>1, <1>2, NamesStepInv, PTL DEF NamesSpec

-----------------------------------------------------------------------------
(* Batches. *)

Prepared == [fields : Nat, budget : Nat, limit : Nat]

BatchType ==
  /\ selections \in BatchWorlds
  /\ prepared \in Seq(Prepared)
  /\ packets \in Seq(SUBSET Nat)

\* The first selections have been asked for and are answered with all their rows.
AskedInv ==
  LET m == Cardinality(Sent)
  IN  /\ m \in 0 .. Len(selections) - 1 /\ Sent = 1 .. m
      /\ DOMAIN answers = {selections[i].alias : i \in 1 .. m}
      /\ \A i \in 1 .. m : answers[selections[i].alias] = selections[i].rows

\* What has been prepared keeps to its own budget, and where the batch is.
BatchInv ==
  /\ BatchType
  /\ \A i \in DOMAIN prepared : prepared[i].budget = 0 \/ prepared[i].fields <= prepared[i].budget
  /\ doing \in {"begin", "prepare"} => packets = << >> /\ DOMAIN answers = {}
  /\ doing \in {"prepare", "ask"} => Unique
  /\ doing = "ask" => Len(prepared) = Len(selections) /\ AskedInv
  /\ BatchSound

\* The batch's selections are a sequence of the kind the assumption describes.
LEMMA SelectionsKnown ==
  ASSUME BatchType
  PROVE  /\ Len(selections) \in Nat /\ Places = 1 .. Len(selections)
         /\ (selections = << >> <=> Len(selections) = 0)
         /\ \A i \in Places :
              /\ IsFiniteSet(selections[i].wanted) /\ IsFiniteSet(selections[i].rows)
              /\ selections[i].limit \in Nat
              /\ \A s \in selections[i].grants : s.fields \in Nat /\ s.page \in Nat
  <1>1. selections \in Seq({selections[i] : i \in DOMAIN selections})
    BY BatchAssumption DEF BatchType
  <1>2. Len(selections) \in Nat /\ DOMAIN selections = 1 .. Len(selections)
    BY <1>1
  <1>3. selections = << >> <=> Len(selections) = 0
    BY <1>1, EmptySeq
  <1>4. \A i \in DOMAIN selections :
          /\ IsFiniteSet(selections[i].wanted) /\ IsFiniteSet(selections[i].rows)
          /\ selections[i].limit \in Nat
          /\ \A s \in selections[i].grants : s.fields \in Nat /\ s.page \in Nat
    BY BatchAssumption DEF BatchType
  <1> QED BY <1>2, <1>3, <1>4 DEF Places

\* The fields of one selection alone.
LEMMA FieldsOfOne ==
  ASSUME NEW i, prepared[i].fields \in Nat
  PROVE  FieldsOf({i}) = prepared[i].fields
  <1> DEFINE choose(s) == CHOOSE x \in s : TRUE
             step(it) == [s \in SUBSET {i} |-> IF s = {} THEN 0 ELSE prepared[choose(s)].fields + it[s \ {choose(s)}]]
             known == [s \in SUBSET {i} |-> IF s = {} THEN 0 ELSE prepared[i].fields]
  <1>1. known = step(known)
    <2>1. \A s \in SUBSET {i} : s # {} => choose(s) = i /\ s \ {choose(s)} = {}
      OBVIOUS
    <2> QED BY <2>1
  <1>2. (CHOOSE it : it = step(it)) = step(CHOOSE it : it = step(it))
    <2> HIDE DEF step, known
    <2> QED BY <1>1
  <1> DEFINE it == CHOOSE it : it = step(it)
  <1>3. it[{i}] = prepared[i].fields
    <2>1. choose({i}) = i
      OBVIOUS
    <2>2. it[{}] = 0
      BY <1>2
    <2>3. it[{i}] = prepared[i].fields + it[{}]
      BY <1>2, <2>1
    <2> QED BY <2>2, <2>3
  <1>4. FieldsOf({i}) = it[{i}]
    BY DEF FieldsOf, MapThenSumSet, MapThenFoldSet
  <1> QED BY <1>3, <1>4

\* A set of numbers has a least one.
LEMMA LeastPlace ==
  ASSUME NEW T \in SUBSET Nat, T # {}
  PROVE  \E x \in T : \A y \in T : x <= y
  <1>1. IsWellFoundedOn(OpToRel(<, Nat), Nat)
    BY NatLessThanWellFounded
  <1>2. PICK x \in T : \A y \in T : ~ (<<y, x>> \in OpToRel(<, Nat))
    BY <1>1, WFMin
  <1>3. \A y \in T : ~ (y < x)
    BY <1>2 DEF OpToRel
  <1> QED BY <1>3

\* A request ends where the next selection would not fit, and keeps to the
\* budgets of all its selections.
LEMMA PacketFits ==
  ASSUME BatchInv, NEW start \in 1 .. Len(prepared)
  PROVE  /\ PacketEnd(start) \in start .. Len(prepared)
         /\ Fits(start .. PacketEnd(start))
  <1> DEFINE n == Len(prepared)
             late == {e \in start .. n - 1 : ~Fits(start .. e + 1)}
             Ends(e) == /\ \A k \in start + 1 .. e : Fits(start .. k)
                        /\ e < n => ~Fits(start .. e + 1)
  <1>1. n \in Nat /\ start \in Nat /\ start <= n
    BY DEF BatchInv, BatchType
  <1> HIDE DEF n
  <1>2. \E e \in start .. n : Ends(e)
    <2>1. CASE late = {}
      <3>1. \A k \in start + 1 .. n : Fits(start .. k)
        <4> TAKE k \in start + 1 .. n
        <4>1. k - 1 \in start .. n - 1 /\ k - 1 + 1 = k
          BY <1>1
        <4> QED BY <2>1, <4>1
      <3>2. n \in start .. n /\ ~(n < n)
        BY <1>1
      <3> QED BY <3>1, <3>2
    <2>2. CASE late # {}
      <3>1. late \in SUBSET Nat
        BY <1>1
      <3>2. PICK e \in late : \A y \in late : e <= y
        BY <2>2, <3>1, LeastPlace
      <3>3. e \in start .. n - 1 /\ e \in start .. n /\ ~Fits(start .. e + 1)
        BY <1>1, <3>2
      <3>4. \A k \in start + 1 .. e : Fits(start .. k)
        <4> TAKE k \in start + 1 .. e
        <4>1. k - 1 \in start .. n - 1 /\ k - 1 + 1 = k /\ ~(e <= k - 1)
          BY <1>1, <3>3
        <4> QED BY <3>2, <4>1
      <3> QED BY <3>3, <3>4
    <2> QED BY <2>1, <2>2
  <1>3. PacketEnd(start) \in start .. n /\ Ends(PacketEnd(start))
    BY <1>2 DEF PacketEnd, n
  <1>4. CASE PacketEnd(start) = start
    <2>1. start .. start = {start} /\ start \in DOMAIN prepared
      BY <1>1 DEF BatchInv, BatchType
    <2>2. prepared[start] \in Prepared
      BY <2>1 DEF BatchInv, BatchType
    <2>3. FieldsOf({start}) = prepared[start].fields
      BY <2>2, FieldsOfOne DEF Prepared
    <2>4. \A b \in FieldBudgets({start}) : b = prepared[start].budget /\ b # 0
      BY DEF FieldBudgets
    <2>5. Fits({start})
      BY <2>1, <2>3, <2>4 DEF Fits, BatchInv
    <2> QED BY <1>3, <1>4, <2>1, <2>5 DEF n
  <1>5. CASE PacketEnd(start) # start
    <2>1. PacketEnd(start) \in start + 1 .. PacketEnd(start)
      BY <1>1, <1>3, <1>5
    <2> QED BY <1>3, <2>1 DEF n
  <1> QED BY <1>4, <1>5

\* The selections asked for next, after all that have been.
LEMMA NextPacket ==
  ASSUME BatchInv, doing = "ask"
  PROVE  LET m == Cardinality(Sent)
             end == PacketEnd(m + 1)
         IN  /\ Packet = m + 1 .. end /\ end \in m + 1 .. Len(selections) /\ m \in Nat
             /\ Fits(Packet) /\ Packet # {} /\ Packet \in SUBSET Nat
             /\ Sent \cup Packet = 1 .. end /\ Cardinality(1 .. end) = end
  <1> DEFINE m == Cardinality(Sent)
             end == PacketEnd(m + 1)
  <1>1. m \in 0 .. Len(selections) - 1 /\ Sent = 1 .. m /\ Len(prepared) = Len(selections)
        /\ Len(selections) \in Nat
    BY SelectionsKnown DEF BatchInv, AskedInv
  <1>2. Packet = m + 1 .. end
    BY DEF Packet
  <1> HIDE DEF m, end
  <1>3. m + 1 \in 1 .. Len(prepared) /\ m \in Nat
    BY <1>1
  <1>4. end \in m + 1 .. Len(prepared) /\ Fits(m + 1 .. end)
    BY <1>3, PacketFits DEF end
  <1>5. m + 1 .. end # {} /\ m + 1 .. end \in SUBSET Nat /\ (1 .. m) \cup (m + 1 .. end) = 1 .. end
    <2>1. m \in Nat /\ end \in Nat /\ m < end
      BY <1>1, <1>3, <1>4
    <2>2. \A k \in m + 1 .. end : k \in Nat
      BY <2>1
    <2>3. \A k \in 1 .. end : k \in 1 .. m \/ k \in m + 1 .. end
      BY <2>1
    <2>4. \A k : k \in 1 .. m \/ k \in m + 1 .. end => k \in 1 .. end
      BY <2>1
    <2>5. m + 1 \in m + 1 .. end
      BY <2>1
    <2> QED BY <2>2, <2>3, <2>4, <2>5
  <1>6. Cardinality(1 .. end) = end
    <2>1. end \in Int /\ ~(1 > end)
      BY <1>1, <1>3, <1>4
    <2> QED BY <2>1, FS_Interval
  <1> QED BY <1>1, <1>2, <1>3, <1>4, <1>5, <1>6 DEF m, end

\* A request after those that have been sent.
LEMMA SendInv ==
  ASSUME BatchInv, doing = "ask", packets' = Append(packets, Packet),
         UNCHANGED <<selections, prepared>>
  PROVE  /\ packets' \in Seq(SUBSET Nat) /\ Sent' = Sent \cup Packet
         /\ \A i \in DOMAIN packets' : packets'[i] # {} /\ Fits(packets[i])'
         /\ \A i, j \in DOMAIN packets' : i < j => \A a \in packets'[i], b \in packets'[j] : a < b
  <1>1. packets \in Seq(SUBSET Nat) /\ Packet \in SUBSET Nat /\ Packet # {} /\ Fits(Packet)
    BY NextPacket DEF BatchInv, BatchType
  <1>2. /\ packets' \in Seq(SUBSET Nat) /\ DOMAIN packets = 1 .. Len(packets) /\ Len(packets) \in Nat
        /\ DOMAIN packets' = 1 .. Len(packets) + 1 /\ packets'[Len(packets) + 1] = Packet
        /\ \A i \in 1 .. Len(packets) : packets'[i] = packets[i]
    BY <1>1, AppendProperties
  <1>3. \A i \in DOMAIN packets' : packets'[i] = Packet \/ (i \in DOMAIN packets /\ packets'[i] = packets[i])
    BY <1>2
  <1>4. Sent' = Sent \cup Packet
    BY <1>2, <1>3 DEF Sent
  <1>5. /\ \A i \in DOMAIN packets : packets[i] # {} /\ Fits(packets[i])
        /\ \A i, j \in DOMAIN packets : i < j => \A a \in packets[i], b \in packets[j] : a < b
    BY DEF BatchInv, BatchSound, PacketsFit
  <1>6. \A places : Fits(places)' <=> Fits(places)
    <2>1. \A places : FieldsOf(places)' = FieldsOf(places)
      BY DEF FieldsOf, MapThenSumSet, MapThenFoldSet
    <2>2. \A places : FieldBudgets(places)' = FieldBudgets(places)
      BY DEF FieldBudgets
    <2> QED BY <2>1, <2>2 DEF Fits
  <1>7. \A i \in DOMAIN packets' : packets'[i] # {} /\ Fits(packets[i])'
    BY <1>1, <1>3, <1>5, <1>6
  <1>8. \A a \in Sent, b \in Packet : a < b
    <2>1. Sent = 1 .. Cardinality(Sent) /\ Cardinality(Sent) \in Nat
      BY NextPacket DEF BatchInv, AskedInv
    <2>2. \A b \in Packet : b \in Int /\ Cardinality(Sent) + 1 <= b
      BY NextPacket
    <2> QED BY <2>1, <2>2
  <1>9. ASSUME NEW i \in DOMAIN packets', NEW j \in DOMAIN packets', i < j,
               NEW a \in packets'[i], NEW b \in packets'[j]
        PROVE  a < b
    <2>1. i \in DOMAIN packets /\ packets'[i] = packets[i] /\ a \in Sent
      BY <1>2, <1>9 DEF Sent
    <2>2. CASE j \in DOMAIN packets
      BY <1>2, <1>5, <1>9, <2>1, <2>2
    <2>3. CASE j \notin DOMAIN packets
      BY <1>3, <1>8, <1>9, <2>1, <2>3
    <2> QED BY <2>2, <2>3
  <1> QED BY <1>2, <1>4, <1>7, <1>9

\* A selection that the settings allow fits its own budget.
LEMMA PrepareInv == BatchInv /\ Prepare => BatchInv'
  <1> SUFFICES ASSUME BatchInv, Prepare PROVE BatchInv'
    OBVIOUS
  <1> DEFINE i == Len(prepared) + 1
             sel == selections[i]
  <1>1. /\ doing = "prepare" /\ i <= Len(selections)
        /\ UNCHANGED <<selections, grant, regrants, packets, answers>>
    BY DEF Prepare
  <1>2. PICK s \in sel.grants :
          IF Allowed(sel, s)
          THEN /\ prepared' = Append(prepared, [fields |-> Cardinality(sel.wanted), budget |-> s.fields,
                                                limit |-> ArrayLimit(sel, s)])
               /\ doing' = IF i = Len(selections) THEN "ask" ELSE doing
          ELSE Stop("refused") /\ prepared' = prepared
    BY DEF Prepare
  <1>3. packets = << >> /\ DOMAIN answers = {} /\ Unique /\ BatchType
        /\ prepared \in Seq(Prepared) /\ Len(prepared) \in Nat
    BY <1>1 DEF BatchInv, BatchType
  <1>4. /\ IsFiniteSet(sel.wanted) /\ sel.limit \in Nat /\ s.fields \in Nat /\ s.page \in Nat
        /\ i \in 1 .. Len(selections) /\ Len(selections) \in Nat
    <2>1. Len(selections) \in Nat /\ Places = 1 .. Len(selections)
      BY <1>3, SelectionsKnown
    <2>2. i \in Places
      BY <1>1, <1>3, <2>1
    <2> HIDE DEF i
    <2> QED BY <1>3, <2>1, <2>2, SelectionsKnown
  <1> HIDE DEF sel
  <1>5. Unique' /\ packets' = << >>
    BY <1>1, <1>3 DEF Unique, Places
  <1>6. Sent' = {}
    BY <1>5 DEF Sent
  <1>7. BatchSound' \/ doing' = "done"
    BY <1>5, <1>6 DEF BatchSound, BatchWhole, PacketsFit
  <1>8. CASE Allowed(sel, s)
    <2> DEFINE p == [fields |-> Cardinality(sel.wanted), budget |-> s.fields, limit |-> ArrayLimit(sel, s)]
    <2>1. prepared' = Append(prepared, p) /\ doing' = IF i = Len(selections) THEN "ask" ELSE doing
      BY <1>2, <1>8
    <2>2. ArrayLimit(sel, s) \in Nat
      BY <1>4, BatchAssumption DEF ArrayLimit, Lesser
    <2>3. p \in Prepared /\ p.fields = Cardinality(sel.wanted) /\ p.budget = s.fields
      BY <1>4, <2>2, FS_CardinalityType DEF Prepared
    <2>4. p.budget = 0 \/ p.fields <= p.budget
      BY <1>8, <2>3 DEF Allowed
    <2> HIDE DEF p
    <2>5. /\ prepared' \in Seq(Prepared) /\ Len(prepared') = i
          /\ \A k \in DOMAIN prepared' : prepared'[k] = p \/ (k \in DOMAIN prepared /\ prepared'[k] = prepared[k])
      <3>1. /\ Append(prepared, p) \in Seq(Prepared) /\ Len(Append(prepared, p)) = Len(prepared) + 1
            /\ Append(prepared, p)[Len(prepared) + 1] = p
            /\ \A k \in 1 .. Len(prepared) : Append(prepared, p)[k] = prepared[k]
        BY <1>3, <2>3, AppendProperties
      <3>2. DOMAIN prepared' = 1 .. Len(prepared) + 1 /\ DOMAIN prepared = 1 .. Len(prepared)
        BY <1>3, <2>1, <3>1
      <3> QED BY <1>3, <2>1, <3>1, <3>2
    <2>6. \A k \in DOMAIN prepared' : prepared'[k].budget = 0 \/ prepared'[k].fields <= prepared'[k].budget
      BY <2>4, <2>5 DEF BatchInv
    <2>7. doing' = "ask" => AskedInv' /\ Len(prepared') = Len(selections')
      <3> SUFFICES ASSUME doing' = "ask" PROVE AskedInv' /\ Len(prepared') = Len(selections')
        OBVIOUS
      <3>1. i = Len(selections)
        BY <1>1, <2>1
      <3>2. Cardinality(Sent)' = 0
        BY <1>6, FS_EmptySet
      <3>3. 0 \in 0 .. Len(selections) - 1 /\ 1 .. 0 = {}
        BY <1>4
      <3>4. AskedInv'
        BY <1>1, <1>3, <1>6, <3>2, <3>3 DEF AskedInv
      <3> QED BY <1>1, <2>5, <3>1, <3>4
    <2>8. doing' \in {"prepare", "ask"}
      BY <1>1, <2>1
    <2> QED BY <1>1, <1>3, <1>5, <1>7, <2>5, <2>6, <2>7, <2>8 DEF BatchInv, BatchType
  <1>9. CASE ~Allowed(sel, s)
    <2>1. doing' = "refused" /\ prepared' = prepared
      BY <1>2, <1>9 DEF Stop
    <2> QED BY <1>1, <1>3, <1>7, <2>1 DEF BatchInv, BatchType
  <1> QED BY <1>8, <1>9

\* An array shorter than its limit holds all the rows of its selection.
LEMMA ShortArray ==
  ASSUME BatchInv, NEW i \in Places, i \in DOMAIN prepared,
         NEW array \in Arrays(i), ~FullArray(array, prepared[i].limit)
  PROVE  array = selections[i].rows
  <1>1. /\ array \in SUBSET selections[i].rows /\ IsFiniteSet(selections[i].rows)
        /\ Cardinality(array) = Lesser(prepared[i].limit, Cardinality(selections[i].rows))
    BY SelectionsKnown DEF Arrays, BatchInv
  <1>2. prepared[i].limit \in Nat
    <2>1. prepared \in Seq(Prepared)
      BY DEF BatchInv, BatchType
    <2>2. prepared[i] \in Prepared
      BY <2>1
    <2> QED BY <2>2 DEF Prepared
  <1>3. Cardinality(selections[i].rows) \in Nat
    BY <1>1, FS_CardinalityType
  <1>4. Cardinality(array) = Cardinality(selections[i].rows)
    BY <1>1, <1>2, <1>3 DEF Lesser, FullArray
  <1> QED BY <1>1, <1>4, FS_Subset

LEMMA AskPacketInv == BatchInv /\ AskPacket => BatchInv'
  <1> SUFFICES ASSUME BatchInv, AskPacket PROVE BatchInv'
    OBVIOUS
  <1> DEFINE m == Cardinality(Sent)
             end == PacketEnd(m + 1)
             received == {selections[i].alias : i \in Packet}
             holder(a) == CHOOSE i \in Packet : selections[i].alias = a
  <1>1. /\ doing = "ask" /\ packets' = Append(packets, Packet)
        /\ UNCHANGED <<selections, grant, regrants, prepared>>
    BY DEF AskPacket
  <1>2. PICK arrays \in [Packet -> SUBSET UNION {selections[i].rows : i \in Packet}] :
          /\ \A i \in Packet : arrays[i] \in Arrays(i)
          /\ IF \E i \in Packet : FullArray(arrays[i], prepared[i].limit)
             THEN Stop("saturated") /\ answers' = answers
             ELSE /\ answers' = [a \in DOMAIN answers \cup received |->
                                   IF a \in received THEN arrays[holder(a)] ELSE answers[a]]
                  /\ doing' = IF end = Len(prepared) THEN "done" ELSE doing
    BY DEF AskPacket
  <1>3. /\ Packet = m + 1 .. end /\ end \in m + 1 .. Len(selections) /\ m \in Nat
        /\ Sent \cup Packet = 1 .. end /\ Cardinality(1 .. end) = end
    BY <1>1, NextPacket
  <1>4. /\ Len(prepared) = Len(selections) /\ Unique /\ BatchType /\ Sent = 1 .. m
        /\ DOMAIN answers = {selections[i].alias : i \in Sent}
        /\ \A i \in Sent : answers[selections[i].alias] = selections[i].rows
        /\ Len(selections) \in Nat /\ Places = 1 .. Len(selections)
    BY <1>1, SelectionsKnown DEF BatchInv, AskedInv
  <1> HIDE DEF m, end
  <1>5. Packet \subseteq Places /\ Sent \subseteq Places /\ Packet \subseteq DOMAIN prepared
    <2>1. DOMAIN prepared = 1 .. Len(selections)
      BY <1>4 DEF BatchType
    <2> QED BY <1>3, <1>4, <2>1
  <1>6. /\ packets' \in Seq(SUBSET Nat) /\ Sent' = 1 .. end
        /\ \A i \in DOMAIN packets' : packets'[i] # {} /\ Fits(packets[i])'
        /\ \A i, j \in DOMAIN packets' : i < j => \A a \in packets'[i], b \in packets'[j] : a < b
    BY <1>1, <1>3, SendInv
  <1>7. BatchType' /\ Unique' /\ Places' = Places
    BY <1>1, <1>4, <1>6 DEF BatchType, Unique, Places
  <1>8. CASE \E i \in Packet : FullArray(arrays[i], prepared[i].limit)
    <2>1. doing' = "saturated"
      BY <1>2, <1>8 DEF Stop
    <2> QED BY <1>1, <1>6, <1>7, <2>1 DEF BatchInv, BatchSound, BatchWhole, PacketsFit
  <1>9. CASE ~\E i \in Packet : FullArray(arrays[i], prepared[i].limit)
    <2>1. /\ answers' = [a \in DOMAIN answers \cup received |->
                           IF a \in received THEN arrays[holder(a)] ELSE answers[a]]
          /\ doing' = IF end = Len(prepared) THEN "done" ELSE doing
      BY <1>2, <1>9
    <2>2. \A i \in Packet : arrays[i] = selections[i].rows
      BY <1>2, <1>5, <1>9, ShortArray
    <2>3. \A i \in Packet : holder(selections[i].alias) = i
      BY <1>4, <1>5 DEF Unique
    <2>4. DOMAIN answers' = {selections[i].alias : i \in Sent \cup Packet}
      BY <1>4, <2>1
    <2>5. \A i \in Packet : answers'[selections[i].alias] = selections[i].rows
      <3> TAKE i \in Packet
      <3>1. selections[i].alias \in received
        OBVIOUS
      <3> HIDE DEF received, holder
      <3>2. answers'[selections[i].alias] = arrays[holder(selections[i].alias)]
        BY <2>1, <3>1
      <3> QED BY <2>2, <2>3, <3>2
    <2>6. \A i \in Sent : answers'[selections[i].alias] = selections[i].rows
      <3> TAKE i \in Sent
      <3>1. selections[i].alias \in DOMAIN answers
        BY <1>4
      <3>2. CASE selections[i].alias \in received
        <4>1. PICK j \in Packet : selections[j].alias = selections[i].alias
          BY <3>2
        <4>2. i = j
          BY <1>4, <1>5, <4>1 DEF Unique
        <4> QED BY <2>5, <4>2
      <3>3. CASE selections[i].alias \notin received
        BY <1>4, <2>1, <3>1, <3>3
      <3> QED BY <3>2, <3>3
    <2>7. \A i \in 1 .. end : answers'[selections[i].alias] = selections[i].rows
      BY <1>3, <2>5, <2>6
    <2>8. CASE end = Len(prepared)
      <3>1. doing' = "done" /\ end = Len(selections)
        BY <1>4, <2>1, <2>8
      <3>2. BatchWhole'
        BY <1>1, <1>3, <1>4, <1>7, <2>4, <2>7, <3>1 DEF BatchWhole
      <3>3. PacketsFit'
        BY <1>4, <1>6, <1>7, <3>1 DEF PacketsFit
      <3> QED BY <1>1, <1>7, <3>1, <3>2, <3>3 DEF BatchInv, BatchSound
    <2>9. CASE end # Len(prepared)
      <3>1. doing' = "ask" /\ Cardinality(Sent)' = end
        BY <1>1, <1>3, <1>6, <2>1, <2>9
      <3>2. end \in 0 .. Len(selections) - 1
        BY <1>3, <1>4, <2>9
      <3>3. AskedInv'
        BY <1>1, <1>3, <1>6, <2>4, <2>7, <3>1, <3>2 DEF AskedInv
      <3>4. BatchSound'
        BY <1>6, <3>1 DEF BatchSound, BatchWhole, PacketsFit
      <3> QED BY <1>1, <1>4, <1>7, <3>1, <3>3, <3>4 DEF BatchInv
    <2> QED BY <2>8, <2>9
  <1> QED BY <1>8, <1>9

LEMMA BatchFailedInv == BatchInv /\ BatchFailed => BatchInv'
  <1> SUFFICES ASSUME BatchInv, BatchFailed PROVE BatchInv'
    OBVIOUS
  <1>1. /\ doing' = "failed" /\ doing \in {"prepare", "ask"}
        /\ UNCHANGED <<selections, grant, regrants, prepared, answers>>
        /\ packets' = IF doing = "ask" THEN Append(packets, Packet) ELSE packets
    BY DEF BatchFailed, Stop
  <1>2. CASE doing = "ask"
    <2>1. packets' = Append(packets, Packet)
      BY <1>1, <1>2
    <2>2. /\ packets' \in Seq(SUBSET Nat)
          /\ \A i \in DOMAIN packets' : packets'[i] # {} /\ Fits(packets[i])'
          /\ \A i, j \in DOMAIN packets' : i < j => \A a \in packets'[i], b \in packets'[j] : a < b
      BY <1>1, <1>2, <2>1, SendInv
    <2> QED BY <1>1, <2>2 DEF BatchInv, BatchType, BatchSound, BatchWhole, PacketsFit
  <1>3. CASE doing # "ask"
    <2>1. packets' = << >>
      BY <1>1, <1>3 DEF BatchInv
    <2> QED BY <1>1, <2>1 DEF BatchInv, BatchType, BatchSound, BatchWhole, PacketsFit
  <1> QED BY <1>2, <1>3

\* A batch that succeeds is answered whole, each alias with all the rows of its
\* own dataset, and no request exceeds the smallest field budget among its
\* selections, for every batch and every change of the grants (QueryBatch).
THEOREM BatchesSound == BatchSpec => []BatchSound
  <1>1. BatchInit => BatchInv
    <2> SUFFICES ASSUME BatchInit PROVE BatchInv
      OBVIOUS
    <2>1. /\ selections \in BatchWorlds /\ prepared = << >> /\ packets = << >>
          /\ DOMAIN answers = {} /\ doing = "begin"
      BY DEF BatchInit, BatchStarts
    <2> QED BY <2>1 DEF BatchInv, BatchType, BatchSound, BatchWhole, PacketsFit
  <1>2. BatchInv /\ [BatchNext]_batch => BatchInv'
    <2> SUFFICES ASSUME BatchInv, [BatchNext]_batch PROVE BatchInv'
      OBVIOUS
    <2>1. CASE Validate
      <3>1. /\ doing = "begin" /\ UNCHANGED <<selections, grant, regrants, prepared, packets, answers>>
            /\ doing' = IF selections = << >> THEN "done" ELSE IF Unique THEN "prepare" ELSE "invalid"
            /\ packets = << >> /\ DOMAIN answers = {} /\ BatchType
        BY <2>1 DEF Validate, BatchInv
      <3>2. Unique' <=> Unique
        BY <3>1 DEF Unique, Places
      <3>3. Sent' = {} /\ Places' = Places
        BY <3>1 DEF Sent, Places
      <3>4. selections = << >> => Places = {}
        BY <3>1 DEF Places
      <3>5. BatchWhole'
        BY <3>1, <3>3, <3>4 DEF BatchWhole
      <3>6. PacketsFit'
        BY <3>1, <3>3, <3>4 DEF PacketsFit
      <3> QED BY <3>1, <3>2, <3>5, <3>6 DEF BatchInv, BatchType, BatchSound
    <2>2. CASE Prepare
      BY <2>2, PrepareInv
    <2>3. CASE AskPacket
      BY <2>3, AskPacketInv
    <2>4. CASE BatchFailed
      BY <2>4, BatchFailedInv
    <2>5. CASE GrantChanged \/ UNCHANGED batch
      <3>1. UNCHANGED <<selections, prepared, packets, answers, doing>>
        BY <2>5 DEF GrantChanged, batch
      <3>2. \A places : Fits(places)' <=> Fits(places)
        <4>1. \A places : FieldsOf(places)' = FieldsOf(places)
          BY <3>1 DEF FieldsOf, MapThenSumSet, MapThenFoldSet
        <4>2. \A places : FieldBudgets(places)' = FieldBudgets(places)
          BY <3>1 DEF FieldBudgets
        <4> QED BY <4>1, <4>2 DEF Fits
      <3>3. Sent' = Sent /\ Places' = Places /\ (Unique' <=> Unique) /\ (BatchType' <=> BatchType)
        BY <3>1 DEF Sent, Places, Unique, BatchType
      <3>4. BatchSound'
        BY <3>1, <3>2, <3>3 DEF BatchInv, BatchSound, BatchWhole, PacketsFit
      <3>5. AskedInv' <=> AskedInv
        BY <3>1, <3>3 DEF AskedInv
      <3> QED BY <3>1, <3>3, <3>4, <3>5 DEF BatchInv
    <2> QED BY <2>1, <2>2, <2>3, <2>4, <2>5 DEF BatchNext
  <1>3. BatchInv => BatchSound
    BY DEF BatchInv
  <1> QED BY <1>1, <1>2, <1>3, PTL DEF BatchSpec

-----------------------------------------------------------------------------
(* The chunks of a query. *)

\* What a function pairs off has as many members.
LEMMA PairedOff ==
  ASSUME NEW S, NEW T, IsFiniteSet(S), NEW f \in [S -> T],
         \A a, b \in S : f[a] = f[b] => a = b, \A t \in T : \E a \in S : f[a] = t
  PROVE  IsFiniteSet(T) /\ Cardinality(T) = Cardinality(S)
  <1>1. f \in Injection(S, T) /\ f \in Surjection(S, T)
    BY DEF Injection, Surjection, IsInjective
  <1> QED BY <1>1, FS_Surjection

\* A page holds no more items than places.
LEMMA PageBound ==
  ASSUME NEW S \in SUBSET Nat, IsFiniteSet(S), NEW first \in Nat, NEW last \in Nat, first <= last + 1
  PROVE  Cardinality(Ranked(S, first, last)) <= last - first + 1
  <1> DEFINE page == Ranked(S, first, last)
             places == first .. last
             r == [i \in page |-> Rank(i, S)]
  <1>1. \A i \in S : Rank(i, S) \in Int
    <2> TAKE i \in S
    <2>1. Rank(i, S) \in Nat
      BY RankNat
    <2> QED BY <2>1
  <1>2. r \in [page -> places]
    <2>1. \A i \in page : Rank(i, S) \in places
      BY <1>1 DEF Ranked
    <2> HIDE DEF page, places
    <2> QED BY <2>1
  <1>3. \A i, k \in page : r[i] = r[k] => i = k
    BY RankBijection DEF Ranked
  <1>4. IsFiniteSet(places) /\ Cardinality(places) <= last - first + 1
    <2>1. first \in Int /\ last \in Int
      OBVIOUS
    <2>2. IsFiniteSet(places) /\ Cardinality(places) = IF first > last THEN 0 ELSE last - first + 1
      BY <2>1, FS_Interval
    <2> HIDE DEF places
    <2> QED BY <2>2
  <1>5. DOMAIN r = page
    OBVIOUS
  <1> HIDE DEF r, page, places
  <1>6. r \in Injection(page, places)
    BY <1>2, <1>3, <1>5 DEF Injection, IsInjective
  <1>7. IsFiniteSet(page) /\ Cardinality(page) <= Cardinality(places)
    BY <1>4, <1>6, FS_Injection
  <1>8. Cardinality(page) \in Nat /\ Cardinality(places) \in Nat
    BY <1>4, <1>7, FS_CardinalityType
  <1> QED BY <1>4, <1>7, <1>8 DEF page

\* Division rounded up leaves nothing over.
LEMMA RoundedUp ==
  ASSUME NEW N \in Nat, NEW n \in Nat \ {0}
  PROVE  (N + n - 1) \div n \in Nat /\ N <= ((N + n - 1) \div n) * n
  <1> DEFINE a == N + n - 1
  <1>1. a \in Nat
    OBVIOUS
  <1>2. a \div n \in Int /\ a % n \in 0 .. n - 1 /\ a = n * (a \div n) + (a % n)
    BY <1>1
  <1> QED BY <1>1, <1>2

\* Every place is on some page.
LEMMA Paged ==
  ASSUME NEW N \in Nat, NEW n \in Nat \ {0}, NEW p \in 1 .. N
  PROVE  \E i \in 1 .. (N + n - 1) \div n : (i - 1) * n + 1 <= p /\ p <= i * n
  <1> DEFINE k == (N + n - 1) \div n
             T == {i \in Nat : p <= i * n}
  <1>1. k \in Nat /\ N <= k * n
    BY RoundedUp
  <1>2. k \in T
    BY <1>1
  <1>3. PICK i \in T : \A j \in T : i <= j
    BY <1>2, LeastPlace
  <1>4. i \in Nat /\ p <= i * n /\ i <= k
    BY <1>2, <1>3
  <1>5. i # 0
    BY <1>4
  <1>6. i - 1 \in Nat /\ i - 1 \notin T
    BY <1>3, <1>4, <1>5
  <1>7. (i - 1) * n < p
    BY <1>6
  <1> QED BY <1>1, <1>4, <1>5, <1>6, <1>7


\* The chunks of a query's fields: at most so many each, all of them together,
\* and with the join fields in each unless it is the only one.
LEMMA ChunksFit ==
  ASSUME NEW fields \in SUBSET Nat, IsFiniteSet(fields), NEW join \in SUBSET Nat, IsFiniteSet(join),
         NEW max \in Nat, NEW chunks, chunks = FieldChunks(fields, join, max), chunks # << >>
  PROVE  /\ chunks \in Seq(SUBSET Nat) /\ Len(chunks) # 0
         /\ \A i \in DOMAIN chunks : max = 0 \/ Cardinality(chunks[i]) <= max
         /\ UNION {chunks[i] : i \in DOMAIN chunks} = fields
         /\ Len(chunks) # 1 => \A i \in DOMAIN chunks : join \subseteq chunks[i]
  <1>1. CASE max = 0 \/ Cardinality(fields) <= max
    <2>1. chunks = <<fields>>
      BY <1>1 DEF FieldChunks
    <2>2. chunks \in Seq(SUBSET Nat) /\ Len(chunks) = 1 /\ DOMAIN chunks = {1} /\ chunks[1] = fields
      BY <2>1
    <2> HIDE DEF FieldChunks
    <2> QED BY <1>1, <2>2
  <1>2. CASE ~(max = 0 \/ Cardinality(fields) <= max)
    <2> DEFINE n == max - Cardinality(join)
               rest == fields \ join
               N == Cardinality(rest)
               k == (N + n - 1) \div n
               part(i) == Ranked(rest, (i - 1) * n + 1, i * n)
    <2>1. CanJoin(fields, join, max) /\ chunks = Chunked(fields, join, n)
      BY <1>2 DEF FieldChunks
    <2>2. Cardinality(join) \in Nat /\ n \in Nat \ {0} /\ join \subseteq fields
      BY <2>1, FS_CardinalityType DEF CanJoin
    <2>3. rest \in SUBSET Nat /\ IsFiniteSet(rest) /\ N \in Nat
      BY FS_Difference, FS_CardinalityType
    <2>4. k \in Nat
      BY <2>2, <2>3, RoundedUp
    <2>5. chunks = [i \in 1 .. k |-> join \cup part(i)]
      BY <2>1 DEF Chunked
    <2>6. \A i \in 1 .. k : part(i) \in SUBSET rest
      BY DEF Ranked
    <2> HIDE DEF n, rest, N, k, part
    <2>7. chunks \in Seq(SUBSET Nat) /\ Len(chunks) = k /\ DOMAIN chunks = 1 .. k
      <3>1. \A i \in 1 .. k : join \cup part(i) \in SUBSET Nat
        BY <2>3, <2>6
      <3> QED BY <2>4, <2>5, <3>1
    <2>8. k # 0
      <3>1. k = 0 => chunks = << >>
        BY <2>5, <2>7
      <3> QED BY <3>1
    <2>9. ASSUME NEW i \in DOMAIN chunks PROVE Cardinality(chunks[i]) <= max
      <3>1. i \in 1 .. k /\ i \in Nat \ {0} /\ chunks[i] = join \cup part(i)
        BY <2>4, <2>5, <2>7
      <3> DEFINE first == (i - 1) * n + 1
                 last == i * n
      <3>2. first \in Nat /\ last \in Nat /\ last - first + 1 = n
        <4>1. \A x \in Nat \ {0}, y \in Nat : /\ (x - 1) * y + 1 \in Nat /\ x * y \in Nat
                                             /\ x * y - ((x - 1) * y + 1) + 1 = y
          OBVIOUS
        <4> QED BY <2>2, <3>1, <4>1
      <3>3. part(i) = Ranked(rest, first, last)
        BY DEF part
      <3> HIDE DEF first, last
      <3>4. Cardinality(part(i)) <= n
        <4>1. first <= last + 1
          BY <2>2, <3>2
        <4>2. Cardinality(Ranked(rest, first, last)) <= last - first + 1
          BY <2>3, <3>2, <4>1, PageBound
        <4> QED BY <3>2, <3>3, <4>2
      <3>5. IsFiniteSet(part(i))
        BY <2>3, <2>6, <3>1, FS_Subset
      <3>6. Cardinality(join \cup part(i)) = Cardinality(join) + Cardinality(part(i)) - Cardinality(join \cap part(i))
        BY <3>5, FS_Union
      <3>7. IsFiniteSet(join \cap part(i))
        BY <3>5, FS_Intersection
      <3>8. Cardinality(part(i)) \in Nat /\ Cardinality(join \cap part(i)) \in Nat
        BY <3>5, <3>7, FS_CardinalityType
      <3> QED BY <2>2, <3>1, <3>4, <3>6, <3>8 DEF n
    <2>10. ASSUME NEW f \in fields PROVE \E i \in DOMAIN chunks : f \in chunks[i]
      <3>1. CASE f \in join
        <4>1. 1 \in DOMAIN chunks
          BY <2>4, <2>7, <2>8
        <4> QED BY <2>5, <2>7, <3>1, <4>1
      <3>2. CASE f \notin join
        <4>1. f \in rest /\ f \in Nat
          BY <3>2 DEF rest
        <4>2. Rank(f, rest) \in 1 .. N
          BY <2>3, <4>1, RankRange DEF N
        <4>3. PICK i \in 1 .. k : (i - 1) * n + 1 <= Rank(f, rest) /\ Rank(f, rest) <= i * n
          BY <2>2, <2>3, <4>2, Paged DEF k
        <4>4. f \in part(i)
          BY <4>1, <4>3 DEF part, Ranked
        <4> QED BY <2>5, <2>7, <4>4
      <3> QED BY <3>1, <3>2
    <2>11. UNION {chunks[i] : i \in DOMAIN chunks} = fields
      <3>1. \A i \in DOMAIN chunks : chunks[i] \subseteq fields
        BY <2>2, <2>5, <2>6, <2>7 DEF rest
      <3> QED BY <2>10, <3>1
    <2>12. \A i \in DOMAIN chunks : join \subseteq chunks[i]
      BY <2>5, <2>7
    <2> QED BY <2>7, <2>8, <2>9, <2>11, <2>12
  <1> QED BY <1>1, <1>2


-----------------------------------------------------------------------------
(* Queries. *)

\* EventRows, as far as they are told apart, and a pass that is under way.
CellValues == {world.events[e].cells[f] : e \in DOMAIN world.events, f \in Nat}
EventRows == [event : DOMAIN world.events, cells : UNION {[F -> CellValues] : F \in SUBSET Nat}]
Passes == [at : {"run", "refresh"}, settings : world.grants, fields : SUBSET Nat,
           chunks : Seq(SUBSET Nat), again : BOOLEAN, start : Nat, chunk : Nat,
           merged : SUBSET EventRows, rows : Seq(SUBSET EventRows)]

QueryType ==
  /\ world \in QueryWorlds /\ granted \in world.grants
  /\ present \subseteq DOMAIN world.events /\ begun \subseteq present
  /\ pass \in {Unasked, [at |-> "done"]} \cup Passes
  /\ pass.at # "done" => result = NoResult

\* The events of some rows, and those of a stretch of time.
EventsOf(rows) == {r.event : r \in rows}
During(events, from, to) == {e \in events : world.events[e].at \in from .. to - 1}

\* Slices of rows are whole and distinct, and complete for what the query found.
Whole(rows, fields, to) ==
  /\ \A i \in DOMAIN rows : \A r \in rows[i] :
       /\ r.cells = Cells(r.event, fields)
       /\ world.events[r.event].at \in world.from .. to - 1
       /\ \A j \in DOMAIN rows : \A o \in rows[j] : r.event = o.event => i = j /\ r = o
  /\ world.sampled \/ \A e \in begun :
       world.events[e].at \in world.from .. to - 1 =>
         \E i \in DOMAIN rows : \E r \in rows[i] : r.event = e

\* EventRows gathered for a slice: each an event's, and unless the page is full each
\* with its own cells and, if nothing is sampled, for all events the query found.
Gathered(rows, fields, from, to, limit) ==
  /\ IsFiniteSet(rows) /\ EventsOf(rows) \subseteq During(present, from, to)
  /\ \A r, o \in rows : r.event = o.event => r = o
  /\ world.sampled \/ Cardinality(rows) < limit => \A r \in rows : r.cells = Cells(r.event, fields)
  /\ Cardinality(rows) < limit => world.sampled \/ During(begun, from, to) \subseteq EventsOf(rows)

\* What a pass has asked and gathered.
Before == UNION {pass.chunks[i] : i \in 1 .. pass.chunk - 1}
AsksInv ==
  /\ pass.fields = Intersect(world.wanted, pass.settings.available) /\ pass.fields # {}
  /\ pass.chunks = FieldChunks(pass.fields, world.join, pass.settings.fields) /\ pass.chunks # << >>
  /\ pass.chunk \in DOMAIN pass.chunks
  /\ pass.settings.floor <= world.from /\ world.from <= pass.start /\ pass.start < world.to
RowsInv ==
  /\ Whole(pass.rows, pass.fields, pass.start)
  /\ pass.chunk # 1 => Gathered(pass.merged, Before, pass.start, Until, PageLimit(pass.settings))

QueryInv == QueryType /\ (pass.at = "run" => AsksInv /\ RowsInv) /\ RowsExact

LEMMA RowTyped ==
  ASSUME QueryType, NEW e \in DOMAIN world.events, NEW F \in SUBSET Nat
  PROVE  [event |-> e, cells |-> Cells(e, F)] \in EventRows
  <1>1. \A f \in F : world.events[e].cells[f] \in CellValues
    BY DEF CellValues
  <1>2. Cells(e, F) \in [F -> CellValues]
    BY <1>1 DEF Cells
  <1> QED BY <1>2 DEF EventRows

\* An answer has one row for each event of its page.
LEMMA AnswerRows ==
  ASSUME QueryType, NEW page \in SUBSET present, IsFiniteSet(page), Selected \in SUBSET Nat
  PROVE  /\ Answer(page) \in SUBSET EventRows /\ IsFiniteSet(Answer(page))
         /\ Cardinality(Answer(page)) = Cardinality(page) /\ EventsOf(Answer(page)) = page
         /\ \A r \in Answer(page) : r.cells = Cells(r.event, Selected)
         /\ \A r, o \in Answer(page) : r.event = o.event => r = o
  <1> DEFINE row == [e \in page |-> [event |-> e, cells |-> Cells(e, Selected)]]
  <1>1. Answer(page) = {row[e] : e \in page}
    BY DEF Answer
  <1>2. \A e \in page : row[e].event = e /\ row[e].cells = Cells(e, Selected)
    OBVIOUS
  <1>3. \A e \in page : row[e] \in EventRows
    <2> TAKE e \in page
    <2>1. e \in DOMAIN world.events
      BY DEF QueryType
    <2>2. row[e] = [event |-> e, cells |-> Cells(e, Selected)]
      OBVIOUS
    <2> HIDE DEF row
    <2> QED BY <2>1, <2>2, RowTyped
  <1>4. row \in [page -> Answer(page)]
    BY DEF Answer
  <1> HIDE DEF row
  <1>5. IsFiniteSet(Answer(page)) /\ Cardinality(Answer(page)) = Cardinality(page)
    <2>1. \A e, o \in page : row[e] = row[o] => e = o
      BY <1>2
    <2>2. \A r \in Answer(page) : \E e \in page : row[e] = r
      BY <1>1
    <2> QED BY <1>4, <2>1, <2>2, PairedOff
  <1>6. \A r \in Answer(page) : r = row[r.event] /\ r.event \in page /\ r.cells = Cells(r.event, Selected)
    BY <1>1, <1>2
  <1>7. EventsOf(Answer(page)) = page
    BY <1>1, <1>2 DEF EventsOf
  <1> QED BY <1>1, <1>3, <1>5, <1>6, <1>7

\* The cells of one event, taken together.
LEMMA MergeCells ==
  ASSUME NEW e, NEW U, NEW V
  PROVE  Merge(Cells(e, U), Cells(e, V)) = Cells(e, U \cup V)
  BY DEF Merge, Cells

\* Joining gives each row on the left the cells of the one on the right with its key.
LEMMA JoinedRows ==
  ASSUME NEW left \in SUBSET EventRows, IsFiniteSet(left), NEW right \in SUBSET EventRows,
         \A r, o \in left : r.event = o.event => r = o, Joinable(left, right)
  PROVE  /\ JoinRows(left, right) \in SUBSET EventRows /\ IsFiniteSet(JoinRows(left, right))
         /\ Cardinality(JoinRows(left, right)) = Cardinality(left)
         /\ EventsOf(JoinRows(left, right)) = EventsOf(left)
         /\ \A r, o \in JoinRows(left, right) : r.event = o.event => r = o
         /\ \A j \in JoinRows(left, right) : \E l \in left, r \in right :
              /\ Key(l) = Key(r) /\ j.event = l.event /\ j.cells = Merge(l.cells, r.cells)
  <1> DEFINE other(l) == CHOOSE r \in right : Key(l) = Key(r)
             joined == [l \in left |-> [event |-> l.event, cells |-> Merge(l.cells, other(l).cells)]]
             J == JoinRows(left, right)
  <1>1. \A l \in left : other(l) \in right /\ Key(l) = Key(other(l))
    BY DEF Joinable
  <1>2. J = {joined[l] : l \in left}
    BY DEF JoinRows
  <1> HIDE DEF other
  <1>3. \A l \in left : joined[l].event = l.event
    OBVIOUS
  <1>12. \A l \in left : joined[l].cells = Merge(l.cells, other(l).cells)
    OBVIOUS
  <1>11. \A l \in left : joined[l] = [event |-> l.event, cells |-> Merge(l.cells, other(l).cells)]
    OBVIOUS
  <1>4. joined \in [left -> J]
    BY <1>2
  <1> HIDE DEF joined, J
  <1>5. \A a, b \in UNION {[F -> CellValues] : F \in SUBSET Nat} :
          Merge(a, b) \in UNION {[F -> CellValues] : F \in SUBSET Nat}
    <2> TAKE a, b \in UNION {[F -> CellValues] : F \in SUBSET Nat}
    <2>1. PICK F \in SUBSET Nat : a \in [F -> CellValues]
      OBVIOUS
    <2>2. PICK G \in SUBSET Nat : b \in [G -> CellValues]
      OBVIOUS
    <2>3. Merge(a, b) \in [F \cup G -> CellValues]
      BY <2>1, <2>2 DEF Merge
    <2>4. F \cup G \in SUBSET Nat
      OBVIOUS
    <2> QED BY <2>3, <2>4
  <1>6. \A l \in left : joined[l] \in EventRows
    <2> TAKE l \in left
    <2>1. l \in EventRows /\ other(l) \in EventRows
      BY <1>1
    <2> DEFINE cells == Merge(l.cells, other(l).cells)
    <2>2. cells \in UNION {[F -> CellValues] : F \in SUBSET Nat} /\ l.event \in DOMAIN world.events
      BY <1>5, <2>1 DEF EventRows
    <2>3. joined[l] = [event |-> l.event, cells |-> cells]
      BY <1>11
    <2> HIDE DEF cells
    <2>4. [event |-> l.event, cells |-> cells] \in EventRows
      BY <2>2 DEF EventRows
    <2> QED BY <2>3, <2>4
  <1>7. IsFiniteSet(J) /\ Cardinality(J) = Cardinality(left)
    <2>1. \A l, o \in left : joined[l] = joined[o] => l = o
      BY <1>3
    <2>2. \A j \in J : \E l \in left : joined[l] = j
      BY <1>2
    <2> QED BY <1>4, <2>1, <2>2, PairedOff
  <1>8. EventsOf(J) = EventsOf(left)
    <2>1. \A j \in J : \E l \in left : j.event = l.event
      BY <1>2, <1>3
    <2>2. \A l \in left : \E j \in J : j.event = l.event
      BY <1>2, <1>3
    <2> QED BY <2>1, <2>2 DEF EventsOf
  <1>9. \A r, o \in J : r.event = o.event => r = o
    BY <1>2, <1>3
  <1>10. \A j \in J : \E l \in left, r \in right :
           Key(l) = Key(r) /\ j.event = l.event /\ j.cells = Merge(l.cells, r.cells)
    BY <1>1, <1>2, <1>3, <1>12
  <1> QED BY <1>2, <1>6, <1>7, <1>8, <1>9, <1>10 DEF J


LEMMA QueryKnown ==
  ASSUME QueryType
  PROVE  /\ IsWorld(world) /\ IsFiniteSet(present)
         /\ pass \in Passes => IsGrant(pass.settings) /\ PageLimit(pass.settings) \in Nat
  <1>1. IsWorld(world)
    BY QueryAssumption DEF QueryType
  <1>2. IsFiniteSet(present)
    <2>1. IsFiniteSet(DOMAIN world.events) /\ present \in SUBSET DOMAIN world.events
      BY <1>1 DEF IsWorld, QueryType
    <2> QED BY <2>1, FS_Subset
  <1>3. ASSUME pass \in Passes PROVE IsGrant(pass.settings) /\ PageLimit(pass.settings) \in Nat
    <2>1. pass.settings \in world.grants
      BY <1>3 DEF Passes
    <2>2. IsGrant(pass.settings) /\ world.limit \in Nat
      BY <1>1, <2>1 DEF IsWorld
    <2>3. pass.settings.page \in Nat
      BY <2>2 DEF IsGrant
    <2> QED BY <2>2, <2>3, QueryAssumption DEF PageLimit, Smaller
  <1> QED BY <1>1, <1>2, <1>3

\* A page is part of its slice, and all of it if nothing is sampled and it is not full.
LEMMA PageTaken ==
  ASSUME QueryType, pass \in Passes, NEW page \in Pages
  PROVE  /\ page \in SUBSET present /\ page \in SUBSET During(present, pass.start, Until)
         /\ IsFiniteSet(page)
         /\ Cardinality(page) < PageLimit(pass.settings) =>
              world.sampled \/ page = During(present, pass.start, Until)
  <1> DEFINE there == {e \in present : world.events[e].at \in pass.start .. Until - 1}
             limit == PageLimit(pass.settings)
  <1>1. IsFiniteSet(present) /\ limit \in Nat
    BY QueryKnown
  <1>2. there = During(present, pass.start, Until) /\ there \in SUBSET present
    BY DEF During
  <1>3. /\ page \in SUBSET there
        /\ world.sampled \/ Cardinality(page) = Smaller(Cardinality(there), limit)
    BY DEF Pages
  <1> HIDE DEF there, limit
  <1>4. IsFiniteSet(there)
    BY <1>1, <1>2, FS_Subset
  <1>5. IsFiniteSet(page) /\ (Cardinality(there) = Cardinality(page) => there = page)
    BY <1>3, <1>4, FS_Subset
  <1>6. Cardinality(there) \in Nat
    BY <1>4, FS_CardinalityType
  <1>7. Cardinality(page) < limit => world.sampled \/ page = there
    BY <1>1, <1>3, <1>5, <1>6 DEF Smaller
  <1> QED BY <1>2, <1>3, <1>5, <1>7 DEF limit

\* The rows of a slice's first chunk.
LEMMA FirstGathered ==
  ASSUME QueryType, pass \in Passes, Selected \in SUBSET Nat, NEW page \in Pages
  PROVE  /\ Answer(page) \in SUBSET EventRows
         /\ Gathered(Answer(page), Selected, pass.start, Until, PageLimit(pass.settings))
  <1> DEFINE rows == Answer(page)
             limit == PageLimit(pass.settings)
             to == Until
  <1>1. /\ page \in SUBSET present /\ page \in SUBSET During(present, pass.start, to)
        /\ IsFiniteSet(page)
        /\ Cardinality(page) < limit => world.sampled \/ page = During(present, pass.start, to)
    BY PageTaken
  <1>2. /\ rows \in SUBSET EventRows /\ IsFiniteSet(rows)
        /\ Cardinality(rows) = Cardinality(page) /\ EventsOf(rows) = page
        /\ \A r \in rows : r.cells = Cells(r.event, Selected)
        /\ \A r, o \in rows : r.event = o.event => r = o
    BY <1>1, AnswerRows
  <1>3. During(begun, pass.start, to) \subseteq During(present, pass.start, to)
    BY DEF During, QueryType
  <1> HIDE DEF rows, limit, to
  <1>4. Gathered(rows, Selected, pass.start, to, limit)
    BY <1>1, <1>2, <1>3 DEF Gathered
  <1> QED BY <1>2, <1>4 DEF rows, limit, to


\* A row's key is its event's cells of the join fields.
LEMMA KeyCells ==
  ASSUME NEW r, NEW F, world.join \subseteq F, r.cells = Cells(r.event, F)
  PROVE  Key(r) = Cells(r.event, world.join)
  BY DEF Key, Cells

\* The rows of the chunks so far and those of the next one, joined.
LEMMA NextGathered ==
  ASSUME QueryType, pass \in Passes, NEW before \in SUBSET Nat, Selected \in SUBSET Nat,
         world.join \subseteq before, world.join \subseteq Selected,
         Gathered(pass.merged, before, pass.start, Until, PageLimit(pass.settings)),
         NEW page \in Pages, Joinable(pass.merged, Answer(page))
  PROVE  /\ JoinRows(pass.merged, Answer(page)) \in SUBSET EventRows
         /\ Gathered(JoinRows(pass.merged, Answer(page)), before \cup Selected, pass.start, Until,
                     PageLimit(pass.settings))
  <1> DEFINE left == pass.merged
             right == Answer(page)
             joined == JoinRows(left, right)
             limit == PageLimit(pass.settings)
             to == Until
             all == before \cup Selected
  <1>1. /\ page \in SUBSET present /\ IsFiniteSet(page)
        /\ Cardinality(page) < limit => world.sampled \/ page = During(present, pass.start, to)
    BY PageTaken
  <1>2. /\ right \in SUBSET EventRows /\ Cardinality(right) = Cardinality(page) /\ EventsOf(right) = page
        /\ \A r \in right : r.cells = Cells(r.event, Selected)
    BY <1>1, AnswerRows
  <1>3. left \in SUBSET EventRows /\ Gathered(left, before, pass.start, to, limit) /\ Joinable(left, right)
    BY DEF Passes
  <1> HIDE DEF left, right, limit, to
  <1>4. IsFiniteSet(left) /\ \A r, o \in left : r.event = o.event => r = o
    BY <1>3 DEF Gathered
  <1>5. /\ joined \in SUBSET EventRows /\ IsFiniteSet(joined) /\ Cardinality(joined) = Cardinality(left)
        /\ EventsOf(joined) = EventsOf(left)
        /\ \A r, o \in joined : r.event = o.event => r = o
        /\ \A j \in joined : \E l \in left, r \in right :
             /\ Key(l) = Key(r) /\ j.event = l.event /\ j.cells = Merge(l.cells, r.cells)
    BY <1>2, <1>3, <1>4, JoinedRows
  <1> HIDE DEF joined
  <1>6. ASSUME world.sampled \/ Cardinality(joined) < limit, NEW j \in joined
        PROVE  j.cells = Cells(j.event, all)
    <2>1. PICK l \in left, r \in right :
            Key(l) = Key(r) /\ j.event = l.event /\ j.cells = Merge(l.cells, r.cells)
      BY <1>5
    <2>2. l.cells = Cells(l.event, before) /\ r.cells = Cells(r.event, Selected)
      BY <1>2, <1>3, <1>5, <1>6 DEF Gathered
    <2>3. Key(l) = Cells(l.event, world.join) /\ Key(r) = Cells(r.event, world.join)
      BY <2>2, KeyCells
    <2>4. l.event = r.event
      <3>1. CASE world.sampled
        <4>1. l.event \in DOMAIN world.events /\ r.event \in DOMAIN world.events
          BY <1>2, <1>3 DEF EventRows
        <4>2. Cells(l.event, world.join) = Cells(r.event, world.join)
          BY <2>1, <2>3
        <4>3. \A f \in world.join : world.events[l.event].cells[f] = world.events[r.event].cells[f]
          <5> TAKE f \in world.join
          <5>1. Cells(l.event, world.join)[f] = Cells(r.event, world.join)[f]
            BY <4>2
          <5> QED BY <5>1 DEF Cells
        <4>4. IsWorld(world)
          BY QueryKnown
        <4> QED BY <3>1, <4>1, <4>3, <4>4 DEF IsWorld
      <3>2. CASE ~world.sampled
        <4>1. Cardinality(page) < limit
          BY <1>2, <1>3, <1>5, <1>6, <3>2 DEF Joinable
        <4>2. l.event \in EventsOf(right)
          BY <1>1, <1>2, <1>3, <3>2, <4>1 DEF Gathered, EventsOf
        <4>3. PICK o \in right : o.event = l.event
          BY <4>2 DEF EventsOf
        <4>4. o.cells = Cells(o.event, Selected)
          BY <1>2
        <4>5. Key(o) = Cells(o.event, world.join)
          BY <4>4, KeyCells
        <4>6. Key(o) = Key(r)
          BY <2>1, <2>3, <4>3, <4>5
        <4>7. o = r
          BY <1>3, <4>6 DEF Joinable, Distinct
        <4> QED BY <4>3, <4>7
      <3> QED BY <3>1, <3>2
    <2>5. Merge(Cells(l.event, before), Cells(l.event, Selected)) = Cells(l.event, all)
      BY MergeCells
    <2> QED BY <2>1, <2>2, <2>4, <2>5
  <1>7. Gathered(joined, all, pass.start, to, limit)
    <2>1. EventsOf(joined) \subseteq During(present, pass.start, to)
      BY <1>3, <1>5 DEF Gathered
    <2>2. Cardinality(joined) < limit => world.sampled \/ During(begun, pass.start, to) \subseteq EventsOf(joined)
      BY <1>3, <1>5 DEF Gathered
    <2> QED BY <1>5, <1>6, <2>1, <2>2 DEF Gathered
  <1> QED BY <1>5, <1>7 DEF joined, left, right, limit, to

\* A slice that is not full goes with the slices before it.
LEMMA SliceAdded ==
  ASSUME QueryType, NEW rows \in Seq(SUBSET EventRows), NEW fields, NEW from \in Nat, NEW to \in Nat,
         world.from <= from, from <= to, Whole(rows, fields, from),
         NEW more \in SUBSET EventRows, NEW limit, Gathered(more, fields, from, to, limit), Cardinality(more) < limit
  PROVE  /\ Append(rows, more) \in Seq(SUBSET EventRows)
         /\ Whole(Append(rows, more), fields, to)
  <1> DEFINE n == Len(rows) + 1
             next == Append(rows, more)
  <1>1. next \in Seq(SUBSET EventRows) /\ DOMAIN next = 1 .. n /\ n \in Nat \ {0} /\ next[n] = more
    OBVIOUS
  <1>2. DOMAIN rows = 1 .. n - 1 /\ \A i \in DOMAIN rows : next[i] = rows[i]
    OBVIOUS
  <1> HIDE DEF n, next
  <1>3. \A i \in DOMAIN next : i \in DOMAIN rows \/ i = n
    BY <1>1, <1>2
  <1>4. world.from \in Nat /\ \A e \in DOMAIN world.events : world.events[e].at \in Nat
    BY QueryKnown DEF IsWorld
  <1>5. \A r \in more : /\ r.cells = Cells(r.event, fields) /\ r.event \in DOMAIN world.events
                        /\ world.events[r.event].at \in from .. to - 1
                        /\ \A o \in more : r.event = o.event => r = o
    BY DEF Gathered, EventsOf, During, EventRows
  <1>6. \A i \in DOMAIN rows : \A r \in rows[i] :
          /\ r.cells = Cells(r.event, fields)
          /\ world.events[r.event].at \in world.from .. from - 1
          /\ \A j \in DOMAIN rows : \A o \in rows[j] : r.event = o.event => i = j /\ r = o
    BY DEF Whole
  <1>7. ASSUME NEW i \in DOMAIN next, NEW r \in next[i]
        PROVE  /\ r.cells = Cells(r.event, fields)
               /\ world.events[r.event].at \in world.from .. to - 1
               /\ \A j \in DOMAIN next : \A o \in next[j] : r.event = o.event => i = j /\ r = o
    <2>1. CASE i = n
      <3>1. /\ r \in more /\ r.cells = Cells(r.event, fields)
            /\ world.events[r.event].at \in from .. to - 1
        BY <1>1, <1>5, <2>1
      <3>2. ASSUME NEW j \in DOMAIN next, NEW o \in next[j], r.event = o.event PROVE i = j /\ r = o
        <4>1. j \notin DOMAIN rows
          <5>1. j \in DOMAIN rows => world.events[o.event].at \in world.from .. from - 1
            BY <1>2, <1>6
          <5>2. world.events[o.event].at >= from
            BY <3>1, <3>2
          <5> QED BY <1>4, <5>1, <5>2
        <4>2. j = n /\ o \in more
          BY <1>1, <1>3, <4>1
        <4> QED BY <1>5, <2>1, <3>1, <3>2, <4>2
      <3> QED BY <1>4, <3>1, <3>2
    <2>2. CASE i \in DOMAIN rows
      <3>1. /\ r \in rows[i] /\ r.cells = Cells(r.event, fields)
            /\ world.events[r.event].at \in world.from .. from - 1
        BY <1>2, <1>6, <2>2
      <3>2. ASSUME NEW j \in DOMAIN next, NEW o \in next[j], r.event = o.event PROVE i = j /\ r = o
        <4>1. j # n
          <5>1. j = n => world.events[o.event].at \in from .. to - 1
            BY <1>1, <1>5
          <5>2. world.events[o.event].at <= from - 1
            BY <3>1, <3>2
          <5> QED BY <1>4, <5>1, <5>2
        <4>2. j \in DOMAIN rows /\ o \in rows[j]
          BY <1>2, <1>3, <4>1
        <4> QED BY <1>6, <2>2, <3>1, <3>2, <4>2
      <3> QED BY <1>4, <3>1, <3>2
    <2> QED BY <1>3, <2>1, <2>2
  <1>8. ASSUME ~world.sampled, NEW e \in begun, world.events[e].at \in world.from .. to - 1
        PROVE  \E i \in DOMAIN next : \E r \in next[i] : r.event = e
    <2>1. CASE world.events[e].at \in world.from .. from - 1
      <3>1. PICK i \in DOMAIN rows : \E r \in rows[i] : r.event = e
        BY <1>8, <2>1 DEF Whole
      <3>2. i \in DOMAIN next /\ next[i] = rows[i]
        BY <1>1, <1>2
      <3> QED BY <3>1, <3>2
    <2>2. CASE world.events[e].at \in from .. to - 1
      <3>1. e \in EventsOf(more)
        BY <1>8, <2>2 DEF Gathered, During
      <3>2. n \in DOMAIN next
        BY <1>1, <1>2
      <3> QED BY <1>1, <3>1, <3>2 DEF EventsOf
    <2>3. world.events[e].at \in Nat
      BY <1>4 DEF QueryType
    <2> QED BY <1>4, <1>8, <2>1, <2>2, <2>3
  <1>9. Whole(next, fields, to)
    BY <1>7, <1>8 DEF Whole
  <1> QED BY <1>1, <1>9 DEF next


\* What an error or a rejection leaves.
LEMMA EndInv ==
  ASSUME QueryType, NEW outcome, outcome # "rows", End(outcome),
         world' = world, granted' \in world.grants, present' \subseteq DOMAIN world.events, begun' \subseteq present'
  PROVE  QueryInv'
  <1>1. pass' = [at |-> "done"] /\ pass'.at = "done" /\ result'.outcome = outcome
    BY DEF End
  <1>2. QueryType'
    BY <1>1 DEF QueryType
  <1>3. RowsExact'
    BY <1>1 DEF RowsExact
  <1> QED BY <1>1, <1>2, <1>3 DEF QueryInv

\* A pass begins with chunks that fit and no rows.
LEMMA OpenPassInv ==
  ASSUME QueryType, NEW s \in world.grants, NEW again \in BOOLEAN, OpenPass(s, again), result = NoResult,
         UNCHANGED <<world, granted, present>>, begun' \subseteq present
  PROVE  QueryInv'
  <1> DEFINE fields == Intersect(world.wanted, s.available)
             chunks == FieldChunks(fields, world.join, s.fields)
  <1>1. IsWorld(world) /\ IsGrant(s)
    BY QueryKnown DEF IsWorld
  <1>2. fields \in SUBSET Nat /\ IsFiniteSet(fields)
    <2>1. /\ s.available \in SUBSET Nat /\ IsFiniteSet(s.available)
      BY <1>1 DEF IsGrant
    <2>2. fields \in SUBSET s.available
      BY DEF Intersect
    <2> HIDE DEF fields
    <2> QED BY <2>1, <2>2, FS_Subset
  <1>3. world.join \in SUBSET Nat /\ IsFiniteSet(world.join) /\ s.fields \in Nat /\ world.from \in Nat /\ world.to \in Nat
        /\ world.from < world.to
    BY <1>1 DEF IsWorld, IsGrant
  <1> HIDE DEF fields, chunks
  <1>4. \/ \E outcome \in {"unentitled", "field limit", "gap"} : End(outcome)
        \/ /\ fields # {} /\ chunks # << >> /\ ~(world.from < s.floor)
           /\ pass' = Fresh(s, fields, chunks, again) /\ result' = result
    BY DEF OpenPass, fields, chunks
  <1>5. CASE \E outcome \in {"unentitled", "field limit", "gap"} : End(outcome)
    BY <1>5, EndInv DEF QueryType
  <1>6. CASE /\ fields # {} /\ chunks # << >> /\ ~(world.from < s.floor)
             /\ pass' = Fresh(s, fields, chunks, again) /\ result' = result
    <2>1. chunks \in Seq(SUBSET Nat) /\ Len(chunks) # 0
      BY <1>2, <1>3, <1>6, ChunksFit DEF chunks
    <2>2. pass' = [at |-> "run", settings |-> s, fields |-> fields, chunks |-> chunks, again |-> again,
                   start |-> world.from, chunk |-> 1, merged |-> {}, rows |-> << >>]
      BY <1>6 DEF Fresh
    <2>3. /\ pass'.at = "run" /\ pass'.settings = s /\ pass'.fields = fields /\ pass'.chunks = chunks
          /\ pass'.start = world.from /\ pass'.chunk = 1 /\ pass'.merged = {} /\ pass'.rows = << >>
      BY <2>2
    <2>4. pass' \in Passes'
      <3>1. << >> \in Seq(SUBSET EventRows') /\ {} \in SUBSET EventRows'
        OBVIOUS
      <3> QED BY <1>2, <1>3, <2>1, <2>2, <3>1 DEF Passes
    <2>5. QueryType'
      BY <1>6, <2>3, <2>4 DEF QueryType
    <2>6. AsksInv'
      <3>1. 1 \in DOMAIN chunks
        BY <2>1
      <3>2. s.floor \in Nat
        BY <1>1 DEF IsGrant
      <3> QED BY <1>3, <1>6, <2>3, <3>1, <3>2 DEF AsksInv, fields, chunks
    <2>7. RowsInv'
      <3>1. ~(\E n \in Int : n \in world.from .. world.from - 1)
        BY <1>3
      <3>2. \A e \in begun' : world.events[e].at \in Int
        BY <1>1 DEF QueryType, IsWorld
      <3>3. DOMAIN pass'.rows = {}
        BY <2>3
      <3>4. \A e \in begun' : ~(world.events[e].at \in world'.from .. pass'.start - 1)
        BY <2>3, <3>1, <3>2
      <3>5. Whole(pass.rows, pass.fields, pass.start)'
        BY <3>3, <3>4 DEF Whole
      <3> QED BY <2>3, <3>5 DEF RowsInv
    <2>8. RowsExact'
      BY <1>6 DEF RowsExact, NoResult
    <2> QED BY <2>5, <2>6, <2>7, <2>8 DEF QueryInv
  <1> QED BY <1>4, <1>5, <1>6


\* What AsksInv says of the requests a pass makes.
LEMMA RunFacts ==
  ASSUME QueryType, AsksInv, pass.at = "run"
  PROVE  /\ pass \in Passes /\ IsWorld(world) /\ IsGrant(pass.settings)
         /\ pass.chunks \in Seq(SUBSET Nat) /\ pass.chunk \in 1 .. Len(pass.chunks)
         /\ \A i \in DOMAIN pass.chunks : pass.settings.fields = 0 \/ Cardinality(pass.chunks[i]) <= pass.settings.fields
         /\ UNION {pass.chunks[i] : i \in DOMAIN pass.chunks} = pass.fields
         /\ Len(pass.chunks) # 1 => \A i \in DOMAIN pass.chunks : world.join \subseteq pass.chunks[i]
         /\ Selected \in SUBSET Nat /\ Before \in SUBSET Nat
         /\ Until \in Nat /\ pass.start < Until /\ Until <= world.to
         /\ pass.settings.duration = 0 \/ Until - pass.start <= pass.settings.duration
         /\ PageLimit(pass.settings) \in Nat
  <1> DEFINE s == pass.settings
  <1>1. pass \in Passes
    BY DEF QueryType, Unasked
  <1>2. IsWorld(world) /\ IsGrant(s) /\ PageLimit(s) \in Nat
    BY <1>1, QueryKnown
  <1>3. pass.fields \in SUBSET Nat /\ IsFiniteSet(pass.fields)
    <2>1. s.available \in SUBSET Nat /\ IsFiniteSet(s.available)
      BY <1>2 DEF IsGrant
    <2>2. pass.fields \in SUBSET s.available
      BY DEF AsksInv, Intersect
    <2> HIDE DEF s
    <2> QED BY <2>1, <2>2, FS_Subset
  <1>4. world.join \in SUBSET Nat /\ IsFiniteSet(world.join) /\ s.fields \in Nat
    BY <1>2 DEF IsWorld, IsGrant
  <1>5. pass.chunks = FieldChunks(pass.fields, world.join, s.fields) /\ pass.chunks # << >>
    BY DEF AsksInv
  <1> HIDE DEF s
  <1>6. /\ pass.chunks \in Seq(SUBSET Nat)
        /\ \A i \in DOMAIN pass.chunks : s.fields = 0 \/ Cardinality(pass.chunks[i]) <= s.fields
        /\ UNION {pass.chunks[i] : i \in DOMAIN pass.chunks} = pass.fields
        /\ Len(pass.chunks) # 1 => \A i \in DOMAIN pass.chunks : world.join \subseteq pass.chunks[i]
    BY <1>3, <1>4, <1>5, ChunksFit
  <1>7. pass.chunk \in 1 .. Len(pass.chunks)
    BY <1>6 DEF AsksInv
  <1>8. Selected \in SUBSET Nat /\ Before \in SUBSET Nat
    <2>1. \A i \in 1 .. Len(pass.chunks) : pass.chunks[i] \in SUBSET Nat
      BY <1>6
    <2>2. 1 .. pass.chunk - 1 \subseteq 1 .. Len(pass.chunks)
      BY <1>6, <1>7
    <2> QED BY <1>7, <2>1, <2>2 DEF Selected, Before
  <1>9. /\ Until \in Nat /\ pass.start < Until /\ Until <= world.to
        /\ s.duration = 0 \/ Until - pass.start <= s.duration
    <2>1. pass.start \in Nat /\ pass.start < world.to /\ s.duration \in Nat /\ world.to \in Nat
      BY <1>1, <1>2 DEF AsksInv, IsGrant, IsWorld, Passes
    <2>2. Until = SliceEnd(s, pass.start)
      BY DEF Until, s
    <2> QED BY <2>1, <2>2 DEF SliceEnd, Smaller
  <1> QED BY <1>1, <1>2, <1>6, <1>7, <1>8, <1>9 DEF s

\* The rows with the answer to the chunk asked.
LEMMA Merged ==
  ASSUME QueryType, AsksInv, RowsInv, pass.at = "run", NEW page \in Pages,
         pass.chunk = 1 \/ Joinable(pass.merged, Answer(page)),
         NEW merged, merged = IF pass.chunk = 1 THEN Answer(page) ELSE JoinRows(pass.merged, Answer(page))
  PROVE  /\ merged \in SUBSET EventRows
         /\ Gathered(merged, UNION {pass.chunks[i] : i \in 1 .. pass.chunk}, pass.start, Until, PageLimit(pass.settings))
  <1> DEFINE limit == PageLimit(pass.settings)
             to == Until
             through == UNION {pass.chunks[i] : i \in 1 .. pass.chunk}
  <1>1. /\ pass \in Passes /\ Selected \in SUBSET Nat /\ Before \in SUBSET Nat
        /\ pass.chunks \in Seq(SUBSET Nat) /\ pass.chunk \in 1 .. Len(pass.chunks)
        /\ Len(pass.chunks) # 1 => \A i \in DOMAIN pass.chunks : world.join \subseteq pass.chunks[i]
    BY RunFacts
  <1>2. CASE pass.chunk = 1
    <2>1. through = Selected
      <3>1. 1 .. pass.chunk = {1}
        BY <1>2
      <3> QED BY <1>2, <3>1 DEF Selected
    <2>2. merged \in SUBSET EventRows /\ Gathered(merged, Selected, pass.start, to, limit)
      BY <1>1, <1>2, FirstGathered
    <2> QED BY <2>1, <2>2
  <1>3. CASE pass.chunk # 1
    <2>1. through = Before \cup Selected
      <3>1. \A i : i \in 1 .. pass.chunk <=> i \in 1 .. pass.chunk - 1 \/ i = pass.chunk
        BY <1>1
      <3> QED BY <3>1 DEF Selected, Before
    <2>2. world.join \subseteq Before /\ world.join \subseteq Selected
      <3> DEFINE last == Len(pass.chunks)
      <3>1. last \in Nat /\ DOMAIN pass.chunks = 1 .. last /\ pass.chunk \in 1 .. last
        BY <1>1
      <3> HIDE DEF last
      <3>2. last # 1 /\ 1 \in 1 .. last /\ 1 \in 1 .. pass.chunk - 1
        BY <1>3, <3>1
      <3>3. Len(pass.chunks) # 1 /\ 1 \in DOMAIN pass.chunks /\ pass.chunk \in DOMAIN pass.chunks
            /\ 1 \in 1 .. pass.chunk - 1
        BY <3>1, <3>2 DEF last
      <3>4. world.join \subseteq pass.chunks[1] /\ world.join \subseteq pass.chunks[pass.chunk]
        BY <1>1, <3>3
      <3> QED BY <3>3, <3>4 DEF Selected, Before
    <2>3. Gathered(pass.merged, Before, pass.start, to, limit)
      BY <1>3 DEF RowsInv
    <2>4. /\ merged \in SUBSET EventRows
          /\ Gathered(merged, Before \cup Selected, pass.start, to, limit)
      BY <1>1, <1>3, <2>2, <2>3, NextGathered
    <2> HIDE DEF through, limit, to
    <2> QED BY <2>1, <2>4 DEF through, limit, to
  <1> QED BY <1>2, <1>3


\* More of a slice is gathered.
LEMMA NextChunk ==
  ASSUME QueryInv, pass.at = "run", pass.chunk < Len(pass.chunks), NEW merged \in SUBSET EventRows,
         Gathered(merged, UNION {pass.chunks[i] : i \in 1 .. pass.chunk}, pass.start, Until, PageLimit(pass.settings)),
         pass' = [pass EXCEPT !.chunk = @ + 1, !.merged = merged], result' = result,
         UNCHANGED <<world, granted, present, begun>>
  PROVE  QueryInv'
  <1>1. QueryType /\ AsksInv /\ RowsInv /\ RowsExact
    BY DEF QueryInv
  <1>2. /\ pass \in Passes /\ pass.chunks \in Seq(SUBSET Nat) /\ pass.chunk \in 1 .. Len(pass.chunks)
    BY <1>1, RunFacts
  <1>3. /\ pass'.at = "run" /\ pass'.settings = pass.settings /\ pass'.fields = pass.fields
        /\ pass'.chunks = pass.chunks /\ pass'.start = pass.start /\ pass'.rows = pass.rows
        /\ pass'.chunk = pass.chunk + 1 /\ pass'.merged = merged
    BY <1>2 DEF Passes
  <1>4. pass' \in Passes'
    <2>1. Passes' = Passes
      BY DEF Passes, EventRows, CellValues
    <2>2. pass.chunk + 1 \in Nat
      BY <1>2
    <2>3. pass' \in Passes
      BY <1>2, <2>2 DEF Passes
    <2> QED BY <2>1, <2>3
  <1>5. QueryType'
    BY <1>1, <1>3, <1>4 DEF QueryType
  <1>6. AsksInv'
    <2>1. pass.chunk + 1 \in DOMAIN pass.chunks
      BY <1>2
    <2> QED BY <1>1, <1>3, <2>1 DEF AsksInv
  <1>7. RowsInv'
    <2>1. Whole(pass.rows, pass.fields, pass.start)'
      BY <1>1, <1>3 DEF RowsInv, Whole, Cells
    <2>2. pass'.chunk - 1 = pass.chunk
      BY <1>2, <1>3
    <2>3. Before' = UNION {pass.chunks[i] : i \in 1 .. pass.chunk}
      BY <1>3, <2>2 DEF Before
    <2>4. Until' = Until /\ PageLimit(pass.settings)' = PageLimit(pass.settings)
      BY <1>3 DEF Until, SliceEnd, PageLimit
    <2>5. Gathered(pass.merged, Before, pass.start, Until, PageLimit(pass.settings))'
      BY <1>3, <2>3, <2>4 DEF Gathered, During, Cells
    <2> QED BY <2>1, <2>5 DEF RowsInv
  <1>8. RowsExact'
    BY <1>1 DEF RowsExact, Cells
  <1> QED BY <1>5, <1>6, <1>7, <1>8 DEF QueryInv

\* A slice is complete: the next one begins or the query ends.
LEMMA CloseInv ==
  ASSUME QueryInv, pass.at = "run", pass.chunk = Len(pass.chunks), NEW merged \in SUBSET EventRows,
         Gathered(merged, UNION {pass.chunks[i] : i \in 1 .. pass.chunk}, pass.start, Until, PageLimit(pass.settings)),
         Close(merged), UNCHANGED <<world, granted, present, begun>>
  PROVE  QueryInv'
  <1> DEFINE rows == Append(pass.rows, merged)
             limit == PageLimit(pass.settings)
             to == Until
  <1>1. QueryType /\ AsksInv /\ RowsInv /\ RowsExact
    BY DEF QueryInv
  <1>2. /\ pass \in Passes /\ pass.chunks \in Seq(SUBSET Nat) /\ pass.chunk \in 1 .. Len(pass.chunks)
        /\ UNION {pass.chunks[i] : i \in DOMAIN pass.chunks} = pass.fields /\ limit \in Nat
        /\ to \in Nat /\ pass.start < to /\ to <= world.to /\ IsWorld(world)
    BY <1>1, RunFacts
  <1>3. UNION {pass.chunks[i] : i \in 1 .. pass.chunk} = pass.fields
    BY <1>2
  <1>4. /\ pass.rows \in Seq(SUBSET EventRows) /\ pass.start \in Nat /\ world.from <= pass.start
        /\ Whole(pass.rows, pass.fields, pass.start) /\ pass.fields # {}
        /\ pass.fields = Intersect(world.wanted, pass.settings.available)
    BY <1>1, <1>2 DEF Passes, AsksInv, RowsInv
  <1> HIDE DEF rows, limit, to
  <1>5. ASSUME ~Full(merged, limit)
        PROVE  rows \in Seq(SUBSET EventRows) /\ Whole(rows, pass.fields, to)
    <2>1. Gathered(merged, pass.fields, pass.start, to, limit)
      BY <1>3 DEF limit, to
    <2>2. Cardinality(merged) \in Nat
      BY <2>1, FS_CardinalityType DEF Gathered
    <2>3. Cardinality(merged) < limit
      BY <1>2, <1>5, <2>2 DEF Full
    <2>4. pass.start <= to
      BY <1>2, <1>4
    <2>5. /\ Append(pass.rows, merged) \in Seq(SUBSET EventRows)
          /\ Whole(Append(pass.rows, merged), pass.fields, to)
      BY <1>1, <1>2, <1>4, <2>1, <2>3, <2>4, SliceAdded
    <2> QED BY <2>5 DEF rows
  <1>6. CASE Full(merged, limit)
    <2>1. End("saturated")
      BY <1>6 DEF Close, limit
    <2> QED BY <1>1, <2>1, EndInv DEF QueryType
  <1>7. CASE ~Full(merged, limit) /\ to < world.to
    <2>1. /\ pass' = [pass EXCEPT !.rows = rows, !.start = to, !.chunk = 1, !.merged = {}]
          /\ result' = result
      BY <1>7 DEF Close, limit, to, rows
    <2>2. rows \in Seq(SUBSET EventRows) /\ Whole(rows, pass.fields, to)
      BY <1>5, <1>7
    <2>3. /\ pass'.at = "run" /\ pass'.settings = pass.settings /\ pass'.fields = pass.fields
          /\ pass'.chunks = pass.chunks /\ pass'.start = to /\ pass'.rows = rows
          /\ pass'.chunk = 1 /\ pass'.merged = {}
      BY <1>2, <2>1 DEF Passes
    <2>4. pass' \in Passes'
      <3>1. Passes' = Passes
        BY DEF Passes, EventRows, CellValues
      <3>2. pass' \in Passes
        BY <1>2, <2>1, <2>2 DEF Passes
      <3> QED BY <3>1, <3>2
    <2>5. QueryType'
      BY <1>1, <2>1, <2>3, <2>4 DEF QueryType
    <2>6. AsksInv'
      <3>1. 1 \in DOMAIN pass.chunks
        BY <1>2
      <3>2. world.from \in Nat /\ world.from <= to
        BY <1>2, <1>4 DEF IsWorld
      <3> QED BY <1>1, <1>7, <2>3, <3>1, <3>2 DEF AsksInv
    <2>7. Whole(pass.rows, pass.fields, pass.start)'
      BY <2>2, <2>3 DEF Whole, Cells
    <2>8. RowsInv'
      BY <2>3, <2>7 DEF RowsInv
    <2>9. RowsExact'
      BY <1>1, <2>1 DEF RowsExact, Cells
    <2> QED BY <2>5, <2>6, <2>8, <2>9 DEF QueryInv
  <1>8. CASE ~Full(merged, limit) /\ ~(to < world.to)
    <2>1. /\ pass' = [at |-> "done"] /\ pass'.at = "done"
          /\ result' = [outcome |-> "rows", rows |-> rows, fields |-> pass.fields]
      BY <1>8 DEF Close, limit, to, rows
    <2>2. to = world.to
      BY <1>2, <1>8 DEF IsWorld
    <2>3. Whole(rows, pass.fields, world.to)
      BY <1>5, <1>8, <2>2
    <2>4. result'.rows = rows /\ result'.fields = pass.fields
      BY <2>1
    <2>5. world.wanted # {} => pass.fields \subseteq world.wanted
      BY <1>4 DEF Intersect
    <2>6. RowsExact'
      BY <1>4, <2>3, <2>4, <2>5 DEF RowsExact, Whole, Cells
    <2>7. QueryType'
      BY <1>1, <2>1 DEF QueryType
    <2> QED BY <2>1, <2>6, <2>7 DEF QueryInv
  <1> QED BY <1>6, <1>7, <1>8

LEMMA AnsweredInv == QueryInv /\ Answered => QueryInv'
  <1> SUFFICES ASSUME QueryInv, Answered PROVE QueryInv'
    OBVIOUS
  <1>1. PICK page \in Pages : Receive(Answer(page))
    BY DEF Answered
  <1>2. pass.at = "run" /\ UNCHANGED <<world, granted, present, begun>>
    BY DEF Answered
  <1>3. QueryType /\ AsksInv /\ RowsInv
    BY <1>2 DEF QueryInv
  <1>4. pass.chunk \in 1 .. Len(pass.chunks) /\ pass.chunks \in Seq(SUBSET Nat)
    BY <1>2, <1>3, RunFacts
  <1> DEFINE part == Answer(page)
             merged == IF pass.chunk = 1 THEN part ELSE JoinRows(pass.merged, part)
  <1>5. CASE pass.chunk > 1 /\ ~Joinable(pass.merged, part)
    <2>1. End("mismatch")
      BY <1>1, <1>5 DEF Receive
    <2> QED BY <1>2, <1>3, <2>1, EndInv DEF QueryType
  <1>6. CASE ~(pass.chunk > 1 /\ ~Joinable(pass.merged, part))
    <2>1. pass.chunk = 1 \/ Joinable(pass.merged, part)
      BY <1>4, <1>6
    <2>2. IF pass.chunk < Len(pass.chunks)
          THEN pass' = [pass EXCEPT !.chunk = @ + 1, !.merged = merged] /\ result' = result
          ELSE Close(merged)
      BY <1>1, <1>6 DEF Receive
    <2>3. merged = IF pass.chunk = 1 THEN Answer(page) ELSE JoinRows(pass.merged, Answer(page))
      OBVIOUS
    <2> HIDE DEF merged
    <2>4. /\ merged \in SUBSET EventRows
          /\ Gathered(merged, UNION {pass.chunks[i] : i \in 1 .. pass.chunk}, pass.start, Until, PageLimit(pass.settings))
      BY <1>2, <1>3, <2>1, <2>3, Merged
    <2>5. CASE pass.chunk < Len(pass.chunks)
      BY <1>2, <2>2, <2>4, <2>5, NextChunk
    <2>6. CASE ~(pass.chunk < Len(pass.chunks))
      <3>1. pass.chunk = Len(pass.chunks)
        BY <1>4, <2>6
      <3> QED BY <1>2, <2>2, <2>4, <2>6, <3>1, CloseInv
    <2> QED BY <2>5, <2>6
  <1> QED BY <1>5, <1>6

\* Events that arrive and grants that change leave what was gathered.
LEMMA AroundInv ==
  ASSUME QueryInv, UNCHANGED <<world, begun, pass, result>>,
         granted' \in world.grants, present \subseteq present', present' \subseteq DOMAIN world.events
  PROVE  QueryInv'
  <1>1. QueryType'
    BY DEF QueryInv, QueryType, Passes, EventRows, CellValues
  <1>2. RowsExact'
    BY DEF QueryInv, RowsExact, Cells
  <1>3. ASSUME pass.at = "run" PROVE AsksInv' /\ RowsInv'
    <2>1. AsksInv /\ RowsInv
      BY <1>3 DEF QueryInv
    <2>2. AsksInv'
      BY <2>1 DEF AsksInv
    <2>3. Until' = Until /\ PageLimit(pass.settings)' = PageLimit(pass.settings) /\ Before' = Before
      BY DEF Until, SliceEnd, PageLimit, Before
    <2>4. Whole(pass.rows, pass.fields, pass.start)'
      BY <2>1 DEF RowsInv, Whole, Cells
    <2>5. ASSUME Gathered(pass.merged, Before, pass.start, Until, PageLimit(pass.settings))
          PROVE  Gathered(pass.merged, Before, pass.start, Until, PageLimit(pass.settings))'
      BY <2>3, <2>5 DEF Gathered, During, Cells
    <2> QED BY <2>1, <2>2, <2>4, <2>5 DEF RowsInv
  <1> QED BY <1>1, <1>2, <1>3 DEF QueryInv

\* A query asks within the settings it took, and the rows it returns are whole,
\* each event's once and with its own cells, and all of them unless sampled, for
\* every request, limit, chunking, change of the grants and arrival (Query).
THEOREM QueriesSound == QuerySpec => []QuerySound
  <1>1. QueryInit => QueryInv
    <2> SUFFICES ASSUME QueryInit PROVE QueryInv
      OBVIOUS
    <2>1. PICK w \in QueryWorlds : \E settings \in w.grants : QueryStarts(w, settings)
      BY DEF QueryInit
    <2>2. /\ world \in QueryWorlds /\ granted \in world.grants /\ present \subseteq DOMAIN world.events
          /\ begun = {} /\ pass = Unasked /\ result = NoResult
      BY <2>1 DEF QueryStarts
    <2> QED BY <2>2 DEF QueryInv, QueryType, RowsExact, Unasked, NoResult
  <1>2. QueryInv /\ [QueryNext]_query => QueryInv'
    <2> SUFFICES ASSUME QueryInv, [QueryNext]_query PROVE QueryInv'
      OBVIOUS
    <2>1. QueryType
      BY DEF QueryInv
    <2>2. CASE BeginQuery
      <3>1. /\ pass = Unasked /\ begun' = present /\ UNCHANGED <<world, granted, present>>
        BY <2>2 DEF BeginQuery
      <3>2. PICK s \in world.grants : OpenPass(s, FALSE)
        BY <2>2 DEF BeginQuery
      <3>3. result = NoResult
        BY <2>1, <3>1 DEF QueryType, Unasked
      <3> DEFINE again == FALSE
      <3>4. again \in BOOLEAN /\ OpenPass(s, again)
        BY <3>2
      <3> HIDE DEF again
      <3> QED BY <2>1, <3>1, <3>3, <3>4, OpenPassInv
    <2>3. CASE Answered
      BY <2>3, AnsweredInv
    <2>4. CASE FieldDenied
      <3>1. /\ pass.at = "run" /\ UNCHANGED <<world, granted, present, begun>>
        BY <2>4 DEF FieldDenied
      <3>2. CASE pass.again
        <4>1. End("denied")
          BY <2>4, <3>2 DEF FieldDenied
        <4> QED BY <2>1, <3>1, <4>1, EndInv DEF QueryType
      <3>3. CASE ~pass.again
        <4>1. pass' = [pass EXCEPT !.at = "refresh"] /\ result' = result
          BY <2>4, <3>3 DEF FieldDenied
        <4>2. pass \in Passes
          BY <2>1, <3>1 DEF QueryType, Unasked
        <4>3. pass' \in Passes
          BY <4>1, <4>2 DEF Passes
        <4>4. pass'.at = "refresh"
          BY <4>1, <4>2 DEF Passes
        <4>5. Passes' = Passes
          BY <3>1 DEF Passes, EventRows, CellValues
        <4>6. QueryType'
          BY <2>1, <3>1, <4>1, <4>3, <4>4, <4>5 DEF QueryType
        <4>7. RowsExact'
          BY <3>1, <4>1 DEF QueryInv, RowsExact, Cells
        <4> QED BY <4>4, <4>6, <4>7 DEF QueryInv
      <3> QED BY <3>2, <3>3
    <2>5. CASE Renegotiate
      <3>1. /\ pass.at = "refresh" /\ OpenPass(granted, TRUE) /\ UNCHANGED <<world, granted, present, begun>>
        BY <2>5 DEF Renegotiate
      <3>2. result = NoResult /\ begun' \subseteq present /\ granted \in world.grants
        BY <2>1, <3>1 DEF QueryType
      <3> DEFINE again == TRUE
      <3>3. again \in BOOLEAN /\ OpenPass(granted, again)
        BY <3>1
      <3> HIDE DEF again
      <3> QED BY <2>1, <3>1, <3>2, <3>3, OpenPassInv
    <2>6. CASE Failed
      <3>1. End("failed") /\ UNCHANGED <<world, granted, present, begun>>
        BY <2>6 DEF Failed
      <3> QED BY <2>1, <3>1, EndInv DEF QueryType
    <2>7. CASE Regrant
      <3>1. UNCHANGED <<world, present, begun, pass, result>> /\ granted' \in world.grants
        BY <2>7 DEF Regrant
      <3> QED BY <2>1, <3>1, AroundInv DEF QueryType
    <2>8. CASE Arrive
      <3>1. /\ UNCHANGED <<world, granted, begun, pass, result>>
            /\ present \subseteq present' /\ present' \subseteq DOMAIN world.events
        BY <2>1, <2>8 DEF Arrive, QueryType
      <3> QED BY <2>1, <3>1, AroundInv DEF QueryType
    <2>9. CASE UNCHANGED query
      BY <2>1, <2>9, AroundInv DEF query, QueryType
    <2> QED BY <2>2, <2>3, <2>4, <2>5, <2>6, <2>7, <2>8, <2>9 DEF QueryNext
  <1>3. QueryInv => QuerySound
    <2> SUFFICES ASSUME QueryInv, pass.at = "run" PROVE RequestsFit
      BY DEF QueryInv, QuerySound, RequestsFit
    <2>1. QueryType /\ AsksInv
      BY DEF QueryInv
    <2>2. /\ pass \in Passes /\ IsWorld(world) /\ IsGrant(pass.settings) /\ PageLimit(pass.settings) \in Nat
          /\ \A i \in DOMAIN pass.chunks : pass.settings.fields = 0 \/ Cardinality(pass.chunks[i]) <= pass.settings.fields
          /\ UNION {pass.chunks[i] : i \in DOMAIN pass.chunks} = pass.fields
          /\ pass.start < Until /\ Until <= world.to
          /\ pass.settings.duration = 0 \/ Until - pass.start <= pass.settings.duration
      BY <2>1, RunFacts
    <2>3. pass.settings.page = 0 \/ PageLimit(pass.settings) <= pass.settings.page
      <3>1. pass.settings.page \in Nat /\ world.limit \in Nat
        BY <2>2 DEF IsGrant, IsWorld
      <3> QED BY <3>1, QueryAssumption DEF PageLimit, Smaller
    <2>4. pass.settings.floor <= pass.start
      BY <2>1, <2>2 DEF AsksInv, Passes, IsGrant, IsWorld
    <2> QED BY <2>1, <2>2, <2>3, <2>4 DEF RequestsFit, AsksInv
  <1> QED BY <1>1, <1>2, <1>3, PTL DEF QuerySpec

-----------------------------------------------------------------------------
(* The order of series. *)

Keyed(keys, d) == IsFiniteSet(keys) /\ d \in Nat /\ keys \subseteq [1 .. d -> Nat]

\* Series are in a strict order.
LEMMA KeysOrdered ==
  ASSUME NEW d \in Nat, NEW a \in [1 .. d -> Nat], NEW b \in [1 .. d -> Nat], NEW c \in [1 .. d -> Nat]
  PROVE  /\ ~Lex(a, a)
         /\ Lex(a, b) /\ Lex(b, c) => Lex(a, c)
         /\ a # b => Lex(a, b) \/ Lex(b, a)
  <1>1. ~Lex(a, a)
    BY DEF Lex
  <1>2. ASSUME Lex(a, b), Lex(b, c) PROVE Lex(a, c)
    <2>1. PICK i \in 1 .. d : a[i] < b[i] /\ \A k \in 1 .. (i - 1) : a[k] = b[k]
      BY <1>2 DEF Lex
    <2>2. PICK j \in 1 .. d : b[j] < c[j] /\ \A k \in 1 .. (j - 1) : b[k] = c[k]
      BY <1>2 DEF Lex
    <2>3. CASE i <= j
      <3>1. a[i] < c[i] /\ \A k \in 1 .. (i - 1) : a[k] = c[k]
        <4>1. b[i] <= c[i]
          <5>1. CASE i = j
            BY <2>2, <5>1
          <5>2. CASE i < j
            BY <2>2, <5>2
          <5> QED BY <2>3, <5>1, <5>2
        <4>2. a[i] \in Nat /\ b[i] \in Nat /\ c[i] \in Nat
          OBVIOUS
        <4>3. ASSUME NEW k \in 1 .. (i - 1) PROVE a[k] = c[k]
          BY <2>1, <2>2, <2>3
        <4> QED BY <2>1, <4>1, <4>2, <4>3
      <3> QED BY <3>1 DEF Lex
    <2>4. CASE j < i
      <3>1. a[j] < c[j] /\ \A k \in 1 .. (j - 1) : a[k] = c[k]
        <4>1. a[j] = b[j]
          BY <2>1, <2>4
        <4>2. ASSUME NEW k \in 1 .. (j - 1) PROVE a[k] = c[k]
          BY <2>1, <2>2, <2>4
        <4> QED BY <2>2, <4>1, <4>2
      <3> QED BY <3>1 DEF Lex
    <2> QED BY <2>3, <2>4
  <1>3. ASSUME a # b PROVE Lex(a, b) \/ Lex(b, a)
    <2> DEFINE T == {i \in 1 .. d : a[i] # b[i]}
    <2>1. T \in SUBSET Nat
      OBVIOUS
    <2>2. T # {}
      <3>1. \E i \in 1 .. d : a[i] # b[i]
        BY <1>3
      <3> QED BY <3>1
    <2> HIDE DEF T
    <2>3. PICK i \in T : \A j \in T : i <= j
      BY <2>1, <2>2, LeastNumber
    <2>4. i \in 1 .. d /\ a[i] # b[i]
      BY <2>3 DEF T
    <2>5. ASSUME NEW j \in 1 .. (i - 1) PROVE a[j] = b[j]
      <3>1. j \in 1 .. d /\ j \notin T
        BY <2>1, <2>3, <2>4
      <3> QED BY <3>1 DEF T
    <2>6. a[i] < b[i] \/ b[i] < a[i]
      BY <2>4
    <2> QED BY <2>4, <2>5, <2>6 DEF Lex
  <1> QED BY <1>1, <1>2, <1>3

\* At most n of them have less than n before them.
\* The first of some series are as few as asked for.
LEMMA FirstFew ==
  ASSUME NEW d, NEW keys, Keyed(keys, d), NEW n \in Int
  PROVE  /\ First(keys, n) \subseteq keys
         /\ IsFiniteSet(First(keys, n)) /\ Cardinality(First(keys, n)) \in Nat
         /\ n >= 0 => Cardinality(First(keys, n)) <= n
         /\ n <= 0 => First(keys, n) = {}
  <1> DEFINE before(k) == {o \in keys : Lex(o, k)}
             rank == [k \in keys |-> Cardinality(before(k))]
             first == First(keys, n)
  <1>1. \A k \in keys : IsFiniteSet(before(k)) /\ rank[k] \in Nat
    <2> TAKE k \in keys
    <2>1. before(k) \subseteq keys
      OBVIOUS
    <2>2. rank[k] = Cardinality(before(k))
      OBVIOUS
    <2> HIDE DEF before, rank
    <2>3. IsFiniteSet(before(k))
      BY <2>1, FS_Subset DEF Keyed
    <2> QED BY <2>2, <2>3, FS_CardinalityType
  <1>2. first = {k \in keys : rank[k] < n}
    BY DEF First
  <1>3. \A a, b \in keys : Lex(a, b) => rank[a] < rank[b]
    <2> SUFFICES ASSUME NEW a \in keys, NEW b \in keys, Lex(a, b) PROVE rank[a] < rank[b]
      OBVIOUS
    <2>1. before(a) \subseteq before(b)
      <3>1. \A o \in keys : Lex(o, a) => Lex(o, b)
        BY KeysOrdered DEF Keyed
      <3> QED BY <3>1
    <2>2. a \in before(b) /\ a \notin before(a)
      BY KeysOrdered DEF Keyed
    <2>3. rank[a] = Cardinality(before(a)) /\ rank[b] = Cardinality(before(b))
      OBVIOUS
    <2> HIDE DEF before, rank
    <2>4. before(a) # before(b)
      BY <2>2
    <2>5. Cardinality(before(a)) <= Cardinality(before(b))
      BY <1>1, <2>1, FS_Subset
    <2>6. Cardinality(before(a)) # Cardinality(before(b))
      BY <1>1, <2>1, <2>4, FS_Subset
    <2> QED BY <1>1, <2>3, <2>5, <2>6
  <1>4. \A a, b \in keys : rank[a] = rank[b] => a = b
    <2> SUFFICES ASSUME NEW a \in keys, NEW b \in keys, rank[a] = rank[b], a # b PROVE FALSE
      OBVIOUS
    <2>1. Lex(a, b) \/ Lex(b, a)
      BY KeysOrdered DEF Keyed
    <2>2. rank[a] \in Nat /\ rank[b] \in Nat /\ (rank[a] < rank[b] \/ rank[b] < rank[a])
      BY <1>1, <1>3, <2>1
    <2> HIDE DEF rank
    <2> QED BY <2>2
  <1>5. first \subseteq keys /\ IsFiniteSet(keys)
    BY <1>2 DEF Keyed
  <1> HIDE DEF before, rank, first
  <1>6. IsFiniteSet(first) /\ Cardinality(first) \in Nat
    BY <1>5, FS_Subset, FS_CardinalityType
  <1>7. ASSUME n <= 0 PROVE first = {}
    BY <1>1, <1>2, <1>7
  <1>8. ASSUME n >= 0 PROVE Cardinality(first) <= n
    <2> DEFINE below == 0 .. (n - 1)
               f == [k \in first |-> rank[k]]
    <2>1. f \in Injection(first, below)
      <3>1. \A k \in first : f[k] = rank[k] /\ rank[k] \in below
        BY <1>1, <1>2
      <3>2. \A a, b \in first : f[a] = f[b] => a = b
        BY <1>4, <1>5, <3>1
      <3> QED BY <3>1, <3>2 DEF Injection, IsInjective
    <2>2. IsFiniteSet(below) /\ Cardinality(below) = n
      BY <1>8, FS_Interval
    <2> HIDE DEF f, below
    <2> QED BY <2>1, <2>2, FS_Injection
  <1> QED BY <1>5, <1>6, <1>7, <1>8 DEF first

-----------------------------------------------------------------------------
(* What points add up to. *)

Ones(S) == [x \in S |-> 1]

\* A sum of ones counts.
LEMMA TotalOnes ==
  ASSUME NEW S, IsFiniteSet(S)
  PROVE  /\ Counts(S, Ones(S))
         /\ \A T \in SUBSET S : Total(T, Ones(S)) = Cardinality(T) /\ Cardinality(T) \in Nat
  <1>1. Counts(S, Ones(S))
    BY DEF Counts, Ones
  <1>2. ASSUME NEW T \in SUBSET S PROVE Total(T, Ones(S)) = Cardinality(T) /\ Cardinality(T) \in Nat
    <2> DEFINE Good == {U \in SUBSET T : Total(U, Ones(S)) = Cardinality(U)}
    <2>1. IsFiniteSet(T)
      BY FS_Subset
    <2>2. {} \in Good
      BY TotalEmpty, FS_EmptySet
    <2>3. ASSUME NEW U \in SUBSET T, NEW x \in T \ U, U \in Good PROVE U \cup {x} \in Good
      <3>1. IsFiniteSet(U) /\ x \notin U /\ Counts(U \cup {x}, Ones(S)) /\ Ones(S)[x] = 1
        BY <2>1, FS_Subset DEF Counts, Ones
      <3>2. Total(U \cup {x}, Ones(S)) = Ones(S)[x] + Total(U, Ones(S))
        BY <3>1, TotalAdd
      <3>3. Cardinality(U \cup {x}) = Cardinality(U) + 1 /\ Cardinality(U) \in Nat
        BY <3>1, FS_AddElement, FS_CardinalityType
      <3>4. Total(U, Ones(S)) = Cardinality(U)
        BY <2>3
      <3>5. Total(U \cup {x}, Ones(S)) = Cardinality(U \cup {x})
        BY <3>1, <3>2, <3>3, <3>4
      <3> QED BY <3>5
    <2> HIDE DEF Good
    <2>4. T \in Good
      BY <2>1, <2>2, <2>3, FiniteInduction
    <2> QED BY <2>1, <2>4, FS_CardinalityType DEF Good
  <1> QED BY <1>1, <1>2

\* Points that carry the sums of the series their items fall into.
Sorts(S, points, to) ==
  /\ \A x \in S : \E p \in points : p.series = to[x]
  /\ \A p \in points : \E x \in S : p.series = to[x]
  /\ \A p, q \in points : p.series = q.series => p = q
In(S, to, p) == {x \in S : to[x] = p.series}

\* Such points sum to what the items sum to.
LEMMA SortedInto ==
  ASSUME NEW S, IsFiniteSet(S), NEW points, NEW to, Sorts(S, points, to)
  PROVE  /\ IsFiniteSet(points) /\ Cardinality(points) <= Cardinality(S)
         /\ \A p \in points : In(S, to, p) \in SUBSET S
         /\ \A f, v : Counts(S, f) /\ (\A p \in points : v[p] = Total(In(S, to, p), f))
                        => Total(points, v) = Total(S, f)
  <1> DEFINE at == [x \in S |-> CHOOSE p \in points : p.series = to[x]]
             values == {at[x] : x \in S}
             class == [p \in points |-> In(S, to, p)]
  <1>1. \A x \in S : at[x] \in points /\ at[x].series = to[x]
    BY DEF Sorts
  <1>2. points = values
    BY <1>1 DEF Sorts
  <1>3. IsFiniteSet(points) /\ Cardinality(points) <= Cardinality(S)
    <2> HIDE DEF at
    <2> QED BY <1>2, FiniteValues
  <1>4. \A p \in points : class[p] = In(S, to, p) /\ In(S, to, p) \in SUBSET S
    BY DEF In
  <1>5. Classes(S, points, class)
    <2>1. ASSUME NEW x \in S PROVE \E p \in points : \A q \in points : x \in class[q] <=> q = p
      <3>1. \A q \in points : x \in class[q] <=> q = at[x]
        <4> TAKE q \in points
        <4>1. x \in class[q] <=> to[x] = q.series
          BY <1>4 DEF In
        <4> HIDE DEF at, class
        <4> QED BY <1>1, <4>1 DEF Sorts
      <3> HIDE DEF at, class
      <3> QED BY <1>1, <3>1
    <2> HIDE DEF at, class
    <2> QED BY <1>3, <1>4, <2>1 DEF Classes
  <1> HIDE DEF at, class
  <1>6. ASSUME NEW f, NEW v, Counts(S, f), \A p \in points : v[p] = Total(In(S, to, p), f)
        PROVE  Total(points, v) = Total(S, f)
    <2>1. \A p \in points : v[p] = Total(class[p], f)
      BY <1>4, <1>6
    <2> QED BY <1>5, <1>6, <2>1, TotalClasses
  <1> QED BY <1>3, <1>4, <1>6

LEMMA SortedCounts ==
  ASSUME NEW S, IsFiniteSet(S), NEW points, NEW to, Sorts(S, points, to),
         \A p \in points : p.count = Cardinality(In(S, to, p))
  PROVE  CountOf(points) = Cardinality(S)
  <1> DEFINE v == [p \in points |-> p.count]
  <1>1. \A p \in points : v[p] = Total(In(S, to, p), Ones(S))
    BY SortedInto, TotalOnes
  <1>2. CountOf(points) = Total(points, v)
    BY DEF CountOf
  <1> HIDE DEF v
  <1>3. Total(points, v) = Total(S, Ones(S))
    BY <1>1, SortedInto, TotalOnes
  <1> QED BY <1>2, <1>3, TotalOnes

LEMMA SortedValues ==
  ASSUME NEW S, IsFiniteSet(S), NEW points, NEW to, Sorts(S, points, to), NEW f, Counts(S, f),
         \A p \in points : p.value = Total(In(S, to, p), f)
  PROVE  ValueOf(points) = Total(S, f)
  <1> DEFINE v == [p \in points |-> p.value]
  <1>1. \A p \in points : v[p] = Total(In(S, to, p), f)
    OBVIOUS
  <1>2. ValueOf(points) = Total(points, v)
    BY DEF ValueOf
  <1> HIDE DEF v
  <1> QED BY <1>1, <1>2, SortedInto

\* One point for each item.
LEMMA OneEach ==
  ASSUME NEW S, IsFiniteSet(S), NEW points, NEW to,
         \A x, y \in S : to[x] = to[y] => x = y,
         \A x \in S : \E p \in points : p.series = to[x],
         \A p \in points : p.count = 1 /\ \E x \in S : p.series = to[x],
         \A p, q \in points : p.series = q.series => p = q
  PROVE  CountOf(points) = Cardinality(S)
  <1>1. Sorts(S, points, to)
    BY DEF Sorts
  <1>2. \A p \in points : p.count = Cardinality(In(S, to, p))
    <2> TAKE p \in points
    <2>1. PICK x \in S : p.series = to[x]
      OBVIOUS
    <2>2. In(S, to, p) = {x}
      BY <2>1 DEF In
    <2> QED BY <2>2, FS_Singleton
  <1> QED BY <1>1, <1>2, SortedCounts

-----------------------------------------------------------------------------
(* Certificate packs. *)

Gauged(points, gauge) == {p \in points : p.gauge = gauge}
CertsUp(points, w) ==
  LET packs == {i \in w.items : w.zones[i.zone] # "none"}
  IN  /\ CountOf(Gauged(points, "pack")) = Cardinality(packs)
      /\ CountOf(Gauged(points, "expiry")) = Cardinality(Fine(packs))

\* Every pack is a point, and every expiry that is known.
LEMMA CertsRight ==
  ASSUME NEW w \in PollWorlds, CertPacks(w).ok
  PROVE  CertsUp(CertPacks(w).points, w)
  <1> DEFINE packs == {i \in w.items : w.zones[i.zone] # "none"}
             fine == {i \in packs : i.answer = "ok"}
             to == [i \in w.items |-> <<i.zone, i.id>>]
             pack == {Point("pack", <<i.zone, i.id>>, 1, 1) : i \in packs}
             expiry == {Point("expiry", <<i.zone, i.id>>, i.value, 1) : i \in fine}
  <1>1. CertPacks(w).points = pack \cup expiry
    BY DEF CertPacks, Snapshot, NoSnapshot
  <1>2. Gauged(CertPacks(w).points, "pack") = pack /\ Gauged(CertPacks(w).points, "expiry") = expiry
    BY <1>1 DEF Gauged, Point
  <1>3. packs \in SUBSET w.items /\ fine \in SUBSET w.items /\ Fine(packs) = fine
    BY DEF Fine
  <1>4. IsFiniteSet(packs) /\ IsFiniteSet(fine)
    <2> HIDE DEF packs, fine
    <2> QED BY <1>3, CatalogAssumption, FS_Subset
  <1>5. \A x, y \in w.items : to[x] = to[y] => x = y
    BY CatalogAssumption
  <1>8. \A x \in w.items : to[x] = <<x.zone, x.id>>
    OBVIOUS
  <1> HIDE DEF packs, fine, to
  <1>6. CountOf(pack) = Cardinality(packs)
    <2>0. \A x \in packs : Point("pack", to[x], 1, 1) \in pack
      BY <1>3, <1>8
    <2>2. \A p \in pack : \E x \in packs : p = Point("pack", to[x], 1, 1)
      BY <1>3, <1>8
    <2> HIDE DEF pack
    <2>1. \A x \in packs : \E p \in pack : p.series = to[x]
      BY <2>0 DEF Point
    <2>3. \A p \in pack : p.count = 1 /\ \E x \in packs : p.series = to[x]
      BY <2>2 DEF Point
    <2>4. \A p, q \in pack : p.series = q.series => p = q
      BY <2>2 DEF Point
    <2> QED BY <1>3, <1>4, <1>5, <2>1, <2>3, <2>4, OneEach
  <1>7. CountOf(expiry) = Cardinality(fine)
    <2>0. \A x \in fine : Point("expiry", to[x], x.value, 1) \in expiry
      BY <1>3, <1>8
    <2>2. \A p \in expiry : \E x \in fine : p = Point("expiry", to[x], x.value, 1)
      BY <1>3, <1>8
    <2> HIDE DEF expiry
    <2>1. \A x \in fine : \E p \in expiry : p.series = to[x]
      BY <2>0 DEF Point
    <2>3. \A p \in expiry : p.count = 1 /\ \E x \in fine : p.series = to[x]
      BY <2>2 DEF Point
    <2>4. \A p, q \in expiry : p.series = q.series => p = q
      <3> SUFFICES ASSUME NEW p \in expiry, NEW q \in expiry, p.series = q.series PROVE p = q
        OBVIOUS
      <3>1. PICK x \in fine : p = Point("expiry", to[x], x.value, 1)
        BY <2>2
      <3>2. PICK y \in fine : q = Point("expiry", to[y], y.value, 1)
        BY <2>2
      <3>3. to[x] = to[y]
        BY <3>1, <3>2 DEF Point
      <3> QED BY <1>3, <1>5, <3>1, <3>2, <3>3
    <2> QED BY <1>3, <1>4, <1>5, <2>1, <2>3, <2>4, OneEach
  <1> QED BY <1>2, <1>3, <1>6, <1>7 DEF CertsUp, packs

-----------------------------------------------------------------------------
(* Devices. *)

LEMMA OneKeys ==
  ASSUME NEW S, IsFiniteSet(S), \A x \in S : x \in Nat
  PROVE  Keyed({<<x>> : x \in S}, 1)
  <1> DEFINE f == [x \in S |-> <<x>>]
             keys == {<<x>> : x \in S}
  <1>1. keys = {f[x] : x \in S}
    OBVIOUS
  <1>2. \A x \in Nat : <<x>> \in [1 .. 1 -> Nat]
    OBVIOUS
  <1>3. keys \subseteq [1 .. 1 -> Nat]
    BY <1>2
  <1>4. IsFiniteSet(keys)
    <2> HIDE DEF f, keys
    <2> QED BY <1>1, FiniteValues
  <1> QED BY <1>3, <1>4 DEF Keyed

\* The points of some keys and of the remainder.
LEMMA KeysAndRest ==
  ASSUME NEW keys, IsFiniteSet(keys), NEW points, NEW x, NEW f,
         points \subseteq {f[k] : k \in keys} \cup {x}
  PROVE  IsFiniteSet(points) /\ Cardinality(points) \in Nat /\ Cardinality(points) <= Cardinality(keys) + 1
  <1> DEFINE own == {f[k] : k \in keys}
             all == own \cup {x}
  <1>1. points \subseteq all
    OBVIOUS
  <1>2. IsFiniteSet(own) /\ Cardinality(own) <= Cardinality(keys)
    <2> HIDE DEF own, all
    <2> QED BY FiniteValues DEF own
  <1> HIDE DEF own
  <1>3. IsFiniteSet(all) /\ Cardinality(all) \in Nat /\ Cardinality(all) <= Cardinality(own) + 1
    <2>1. IsFiniteSet(all) /\ Cardinality(all) = IF x \in own THEN Cardinality(own) ELSE Cardinality(own) + 1
      BY <1>2, FS_AddElement
    <2>2. Cardinality(own) \in Nat
      BY <1>2, FS_CardinalityType
    <2> HIDE DEF all
    <2> QED BY <2>1, <2>2
  <1>4. Cardinality(own) \in Nat /\ Cardinality(keys) \in Nat
    BY <1>2, FS_CardinalityType
  <1> HIDE DEF all
  <1>5. IsFiniteSet(points) /\ Cardinality(points) <= Cardinality(all)
    BY <1>1, <1>3, FS_Subset
  <1>6. Cardinality(points) \in Nat
    BY <1>5, FS_CardinalityType
  <1> QED BY <1>2, <1>3, <1>4, <1>5, <1>6

DevicesUp(points, w) ==
  ValueOf(points) = Cardinality({i.id : i \in w.items}) /\ Cardinality(points) <= SeriesCap + 1

\* Every device is counted once, under its name or in the remainder.
LEMMA DevicesRight ==
  ASSUME NEW w \in PollWorlds, Devices(w).ok
  PROVE  DevicesUp(Devices(w).points, w)
  <1> DEFINE items == w.items
             dims == {<<i.name>> : i \in items}
             named == {n \in dims : n[1] # Other}
             own == First(named, SeriesCap)
             ids == {i.id : i \in items}
             Of(set) == {i.id : i \in {i \in items : <<i.name>> \in set}}
             size(set) == Cardinality(Of(set))
             owns == {Point("devices", n, size({n}), size({n})) : n \in own}
             remainder == Point("devices", <<Other>>, size(dims \ own), size(dims \ own))
             points == owns \cup (IF dims \subseteq own THEN {} ELSE {remainder})
             of(id) == CHOOSE i \in items : i.id = id
             to == [id \in ids |-> IF <<of(id).name>> \in own THEN <<of(id).name>> ELSE <<Other>>]
  <1>0. /\ IsFiniteSet(items) /\ \A i \in items : i.name \in Nat
        /\ SeriesCap \in Nat
    BY CatalogAssumption, PollAssumption
  <1>1. /\ Devices(w).points = points
        /\ \A i, o \in items : i.id = o.id => i.name = o.name
    BY DEF Devices, Snapshot, NoSnapshot
  <1>2. IsFiniteSet(ids)
    <2> DEFINE f == [i \in items |-> i.id]
    <2>1. ids = {f[i] : i \in items}
      OBVIOUS
    <2> HIDE DEF f, ids, items
    <2> QED BY <1>0, <2>1, FiniteValues
  <1>3. Keyed(named, 1)
    <2> DEFINE f == [i \in items |-> i.name]
               numbers == {f[i] : i \in items}
               all == {<<x>> : x \in numbers}
    <2>1. dims = all
      OBVIOUS
    <2>2. \A x \in numbers : x \in Nat
      BY <1>0
    <2>3. named \subseteq dims
      OBVIOUS
    <2> HIDE DEF f, dims, items, named
    <2>4. IsFiniteSet(numbers)
      BY <1>0, FiniteValues
    <2> HIDE DEF numbers
    <2>5. Keyed(all, 1)
      BY <2>2, <2>4, OneKeys
    <2> HIDE DEF all
    <2> QED BY <2>1, <2>3, <2>5, FS_Subset DEF Keyed
  <1>4. own \subseteq named /\ IsFiniteSet(own) /\ Cardinality(own) \in Nat /\ Cardinality(own) <= SeriesCap
    <2> HIDE DEF named
    <2> QED BY <1>0, <1>3, FirstFew
  <1>5. Cardinality(points) <= SeriesCap + 1
    <2> DEFINE f == [n \in own |-> Point("devices", n, size({n}), size({n}))]
    <2>1. owns = {f[n] : n \in own}
      OBVIOUS
    <2>2. points \subseteq owns \cup {remainder}
      OBVIOUS
    <2> HIDE DEF f, own, owns, remainder, points
    <2>4. points \subseteq {f[n] : n \in own} \cup {remainder}
      BY <2>1, <2>2
    <2>3. Cardinality(points) \in Nat /\ Cardinality(points) <= Cardinality(own) + 1
      BY <1>4, <2>4, KeysAndRest
    <2> QED BY <1>0, <1>4, <2>3
  <1>6. \A id \in ids : \A i \in items : i.id = id => of(id).name = i.name
    BY <1>1
  <1>7. \A n \in own : n[1] # Other /\ n = <<n[1]>> /\ n # <<Other>>
    <2> HIDE DEF own
    <2> QED BY <1>4
  <1>8. ASSUME NEW set, NEW id \in ids PROVE id \in Of(set) <=> <<of(id).name>> \in set
    <2>1. \A i \in items : i.id = id => i.name = of(id).name
      BY <1>6
    <2>2. id \in Of(set) <=> \E i \in items : i.id = id /\ <<i.name>> \in set
      OBVIOUS
    <2>3. \E i \in items : i.id = id
      OBVIOUS
    <2> HIDE DEF of, Of
    <2> QED BY <2>1, <2>2, <2>3
  <1>9. /\ \A n \in own : Point("devices", n, size({n}), size({n})) \in points
        /\ ~(dims \subseteq own) => remainder \in points
        /\ \A p \in points : \/ \E n \in own : p = Point("devices", n, size({n}), size({n}))
                             \/ ~(dims \subseteq own) /\ p = remainder
    <2> HIDE DEF own, dims
    <2> QED OBVIOUS
  <1>10. \A id \in ids : /\ to[id] = IF <<of(id).name>> \in own THEN <<of(id).name>> ELSE <<Other>>
                         /\ <<of(id).name>> \in dims
    <2> HIDE DEF own
    <2>1. \A id \in ids : of(id) \in items
      OBVIOUS
    <2> HIDE DEF of
    <2> QED BY <2>1
  <1>11. \A n \in dims : \E id \in ids : <<of(id).name>> = n
    BY <1>6
  <1>12. \A n \in own : n \in dims
    <2>1. named \subseteq dims
      OBVIOUS
    <2> HIDE DEF own, named, dims
    <2> QED BY <1>4, <2>1
  <1>13. /\ remainder = Point("devices", <<Other>>, size(dims \ own), size(dims \ own))
         /\ \A set : size(set) = Cardinality(Of(set))
         /\ \A set : Of(set) \subseteq ids
    OBVIOUS
  <1> HIDE DEF own, dims, named, size, remainder, points, ids, Of, to, of, items
  <1>14. \A p \in points : \/ p.series \in own /\ p.value = size({p.series}) /\ p = Point("devices", p.series, p.value, p.value)
                           \/ /\ ~(dims \subseteq own) /\ p.series = <<Other>> /\ p.value = size(dims \ own)
                              /\ p = Point("devices", p.series, p.value, p.value)
    <2> TAKE p \in points
    <2>1. ASSUME NEW n \in own, p = Point("devices", n, size({n}), size({n}))
          PROVE  p.series \in own /\ p.value = size({p.series}) /\ p = Point("devices", p.series, p.value, p.value)
      <3>1. p.series = n /\ p.value = size({n})
        BY <2>1 DEF Point
      <3> QED BY <2>1, <3>1
    <2>2. CASE ~(dims \subseteq own) /\ p = remainder
      <3>1. p.series = <<Other>> /\ p.value = size(dims \ own)
        BY <1>13, <2>2 DEF Point
      <3> QED BY <1>13, <2>2, <3>1
    <2> QED BY <1>9, <2>1, <2>2
  <1>15. Sorts(ids, points, to)
    <2>1. ASSUME NEW id \in ids PROVE \E p \in points : p.series = to[id]
      <3>1. CASE <<of(id).name>> \in own
        BY <1>9, <1>10, <3>1 DEF Point
      <3>2. CASE <<of(id).name>> \notin own
        <4>1. remainder \in points /\ to[id] = <<Other>>
          BY <1>9, <1>10, <3>2
        <4>2. remainder.series = <<Other>>
          BY <1>13 DEF Point
        <4> QED BY <4>1, <4>2
      <3> QED BY <3>1, <3>2
    <2>2. ASSUME NEW p \in points PROVE \E id \in ids : p.series = to[id]
      <3>1. CASE p.series \in own
        <4>1. PICK id \in ids : <<of(id).name>> = p.series
          BY <1>11, <1>12, <3>1
        <4> QED BY <1>10, <3>1, <4>1
      <3>2. CASE ~(dims \subseteq own) /\ p.series = <<Other>>
        <4>1. PICK n \in dims : n \notin own
          BY <3>2
        <4>2. PICK id \in ids : <<of(id).name>> = n
          BY <1>11
        <4> QED BY <1>10, <3>2, <4>1, <4>2
      <3> QED BY <1>14, <3>1, <3>2
    <2>3. ASSUME NEW p \in points, NEW q \in points, p.series = q.series PROVE p = q
      <3>1. p.value = q.value
        BY <1>7, <1>14, <2>3
      <3>2. p = Point("devices", p.series, p.value, p.value) /\ q = Point("devices", q.series, q.value, q.value)
        BY <1>14
      <3> QED BY <2>3, <3>1, <3>2
    <2> QED BY <2>1, <2>2, <2>3 DEF Sorts
  <1>16. \A p \in points : p.value = Total(In(ids, to, p), Ones(ids))
    <2> TAKE p \in points
    <2>1. CASE p.series \in own
      <3>1. In(ids, to, p) = Of({p.series})
        <4>1. \A id \in ids : to[id] = p.series <=> <<of(id).name>> \in {p.series}
          BY <1>7, <1>10, <2>1
        <4>2. \A id \in ids : id \in Of({p.series}) <=> <<of(id).name>> \in {p.series}
          BY <1>8
        <4> QED BY <1>13, <4>1, <4>2 DEF In
      <3>2. p.value = size({p.series})
        BY <1>7, <1>14, <2>1
      <3> QED BY <1>2, <1>13, <3>1, <3>2, TotalOnes
    <2>2. CASE p.series \notin own
      <3>1. In(ids, to, p) = Of(dims \ own)
        <4>1. \A id \in ids : to[id] = p.series <=> <<of(id).name>> \in dims \ own
          BY <1>7, <1>10, <1>14, <2>2
        <4>2. \A id \in ids : id \in Of(dims \ own) <=> <<of(id).name>> \in dims \ own
          BY <1>8
        <4> QED BY <1>13, <4>1, <4>2 DEF In
      <3>2. p.value = size(dims \ own)
        BY <1>14, <2>2
      <3> QED BY <1>2, <1>13, <3>1, <3>2, TotalOnes
    <2> QED BY <2>1, <2>2
  <1>17. ValueOf(points) = Total(ids, Ones(ids))
    BY <1>2, <1>15, <1>16, SortedValues, TotalOnes
  <1>18. Total(ids, Ones(ids)) = Cardinality(ids)
    BY <1>2, TotalOnes
  <1> QED BY <1>1, <1>5, <1>17, <1>18 DEF DevicesUp, ids, items

-----------------------------------------------------------------------------
(* Status components. *)

LEMMA Extremes ==
  ASSUME NEW T \in SUBSET Nat, IsFiniteSet(T), T # {}
  PROVE  /\ Max(T) \in T /\ \A x \in T : x <= Max(T)
         /\ Min(T) \in T /\ \A x \in T : Min(T) <= x
  <1>1. \E x \in T : \A y \in T : x >= y
    BY GreatestNumber
  <1>2. Max(T) \in T /\ \A y \in T : Max(T) >= y
    BY <1>1 DEF Max
  <1>3. \E x \in T : \A y \in T : x <= y
    BY LeastNumber
  <1>4. Min(T) \in T /\ \A y \in T : Min(T) <= y
    BY <1>3 DEF Min
  <1> QED BY <1>2, <1>4

\* What some items measure.
LEMMA ValuesOf ==
  ASSUME NEW w \in PollWorlds, NEW S \in SUBSET w.items
  PROVE  Values(S) \in SUBSET Nat /\ IsFiniteSet(Values(S)) /\ Values(S) \subseteq Values(w.items)
         /\ (S # {} => Values(S) # {}) /\ \A i \in S : i.value \in Values(S)
  <1> DEFINE f == [i \in S |-> i.value]
             all == {f[i] : i \in S}
  <1>1. IsFiniteSet(S) /\ \A i \in S : i \in w.items /\ i.value \in Nat
    BY CatalogAssumption, FS_Subset
  <1>2. Values(S) = all
    BY DEF Values
  <1>3. IsFiniteSet(all)
    <2> HIDE DEF f
    <2> QED BY <1>1, FiniteValues
  <1> HIDE DEF all
  <1>4. Values(S) \subseteq Values(w.items) /\ Values(S) \in SUBSET Nat
    BY <1>1 DEF Values
  <1>5. S # {} => Values(S) # {}
    BY DEF Values
  <1>6. \A i \in S : i.value \in Values(S)
    BY DEF Values
  <1> QED BY <1>2, <1>3, <1>4, <1>5, <1>6

LEMMA TwoKeys ==
  ASSUME NEW S, IsFiniteSet(S), NEW f, NEW g, \A x \in S : f[x] \in Nat /\ g[x] \in Nat,
         NEW keys, \A k \in keys : \E x \in S : k = <<f[x], g[x]>>
  PROVE  Keyed(keys, 2)
  <1> DEFINE h == [x \in S |-> <<f[x], g[x]>>]
             all == {h[x] : x \in S}
  <1>1. \A k \in keys : k \in all
    OBVIOUS
  <1>2. \A x, y \in Nat : <<x, y>> \in [1 .. 2 -> Nat]
    OBVIOUS
  <1>3. keys \subseteq [1 .. 2 -> Nat]
    BY <1>2
  <1>4. IsFiniteSet(all)
    <2> HIDE DEF h
    <2> QED BY FiniteValues
  <1>5. IsFiniteSet(keys)
    <2> HIDE DEF all
    <2> QED BY <1>1, <1>4, FS_Subset
  <1> QED BY <1>3, <1>5 DEF Keyed

ComponentsUp(points, w) ==
  /\ \A i \in w.items : \E p \in points :
       p.value >= i.value /\ (p.series = <<i.name, i.kind>> \/ p.series[1] = Other)
  /\ \A p \in points : p.value \in Values(w.items)
  /\ Cardinality(points) <= SeriesCap + 1

\* No component is worse than the point it falls into.
LEMMA ComponentsRight ==
  ASSUME NEW w \in PollWorlds, Components(w).ok
  PROVE  ComponentsUp(Components(w).points, w)
  <1> DEFINE items == w.items
             keys == {<<i.name, i.kind>> : i \in items}
             own == First(keys, SeriesCap)
             Of(set) == {i \in items : <<i.name, i.kind>> \in set}
             worst(set) == Max(Values(Of(set)))
             owns == {Point("component", k, worst({k}), 1) : k \in own}
             remainder == Point("component", <<Other, 0>>, worst(keys \ own), 1)
             points == owns \cup (IF keys = own THEN {} ELSE {remainder})
  <1>0. /\ IsFiniteSet(items) /\ \A i \in items : i.name \in Nat /\ i.kind \in Nat /\ i.value \in Nat
        /\ SeriesCap \in Nat
    BY CatalogAssumption, PollAssumption
  <1>1. Components(w).points = points
    BY DEF Components, Snapshot, NoSnapshot
  <1>2. Keyed(keys, 2)
    <2> DEFINE f == [i \in items |-> i.name]
               g == [i \in items |-> i.kind]
    <2>1. \A k \in keys : \E i \in items : k = <<f[i], g[i]>>
      OBVIOUS
    <2>2. IsFiniteSet(items) /\ \A i \in items : f[i] \in Nat /\ g[i] \in Nat
      BY <1>0
    <2> HIDE DEF f, g, items, keys
    <2> QED BY <2>1, <2>2, TwoKeys
  <1>3. own \subseteq keys /\ IsFiniteSet(own) /\ Cardinality(own) \in Nat /\ Cardinality(own) <= SeriesCap
    <2> HIDE DEF keys
    <2> QED BY <1>0, <1>2, FirstFew
  <1>4. Cardinality(points) <= SeriesCap + 1
    <2> DEFINE f == [n \in own |-> Point("component", n, worst({n}), 1)]
    <2>1. owns = {f[n] : n \in own}
      OBVIOUS
    <2>2. points \subseteq owns \cup {remainder}
      OBVIOUS
    <2> HIDE DEF f, own, owns, remainder, points
    <2>3. points \subseteq {f[n] : n \in own} \cup {remainder}
      BY <2>1, <2>2
    <2>4. Cardinality(points) \in Nat /\ Cardinality(points) <= Cardinality(own) + 1
      BY <1>3, <2>3, KeysAndRest
    <2> QED BY <1>0, <1>3, <2>4
  <1>5. ASSUME NEW set, NEW i \in items, <<i.name, i.kind>> \in set
        PROVE  worst(set) \in Values(items) /\ worst(set) >= i.value
    <2>1. Of(set) \in SUBSET w.items /\ i \in Of(set) /\ worst(set) = Max(Values(Of(set)))
      BY <1>5
    <2> HIDE DEF Of, worst
    <2>2. /\ Values(Of(set)) \in SUBSET Nat /\ IsFiniteSet(Values(Of(set))) /\ Values(Of(set)) # {}
          /\ Values(Of(set)) \subseteq Values(w.items) /\ i.value \in Values(Of(set))
      BY <2>1, ValuesOf
    <2>3. Max(Values(Of(set))) \in Values(Of(set)) /\ \A x \in Values(Of(set)) : x <= Max(Values(Of(set)))
      BY <2>2, Extremes
    <2> QED BY <2>1, <2>2, <2>3
  <1>6. /\ \A n \in own : Point("component", n, worst({n}), 1) \in points
        /\ ~(keys = own) => remainder \in points
        /\ \A p \in points : \/ \E n \in own : p = Point("component", n, worst({n}), 1)
                             \/ ~(keys = own) /\ p = remainder
    <2> HIDE DEF own, keys
    <2> QED OBVIOUS
  <1>7. /\ \A i \in items : <<i.name, i.kind>> \in keys
        /\ \A n \in keys : \E i \in items : n = <<i.name, i.kind>>
        /\ remainder = Point("component", <<Other, 0>>, worst(keys \ own), 1)
    OBVIOUS
  <1> HIDE DEF items, keys, own, Of, worst, owns, remainder, points
  <1>8. ASSUME NEW i \in items
        PROVE  \E p \in points : p.value >= i.value /\ (p.series = <<i.name, i.kind>> \/ p.series[1] = Other)
    <2>1. CASE <<i.name, i.kind>> \in own
      <3>1. worst({<<i.name, i.kind>>}) >= i.value
        BY <1>5
      <3>2. Point("component", <<i.name, i.kind>>, worst({<<i.name, i.kind>>}), 1) \in points
        BY <1>6, <2>1
      <3> QED BY <3>1, <3>2 DEF Point
    <2>2. CASE <<i.name, i.kind>> \notin own
      <3>1. worst(keys \ own) >= i.value
        BY <1>5, <1>7, <2>2
      <3>2. remainder \in points
        BY <1>6, <1>7, <2>2
      <3>3. remainder.series[1] = Other /\ remainder.value = worst(keys \ own)
        BY <1>7 DEF Point
      <3> QED BY <3>1, <3>2, <3>3
    <2> QED BY <2>1, <2>2
  <1>9. ASSUME NEW p \in points PROVE p.value \in Values(items)
    <2>1. ASSUME NEW n \in own, p = Point("component", n, worst({n}), 1) PROVE p.value \in Values(items)
      <3>1. PICK i \in items : n = <<i.name, i.kind>>
        BY <1>3, <1>7
      <3>2. worst({n}) \in Values(items)
        BY <1>5, <3>1
      <3> QED BY <2>1, <3>2 DEF Point
    <2>2. ASSUME ~(keys = own), p = remainder PROVE p.value \in Values(items)
      <3>1. PICK n \in keys \ own : TRUE
        BY <1>3, <2>2
      <3>2. PICK i \in items : n = <<i.name, i.kind>>
        BY <1>7, <3>1
      <3>3. <<i.name, i.kind>> \in keys \ own
        BY <3>1, <3>2
      <3>4. worst(keys \ own) \in Values(items)
        BY <1>5, <3>3
      <3> QED BY <1>7, <2>2, <3>4 DEF Point
    <2> QED BY <1>6, <2>1, <2>2
  <1> QED BY <1>1, <1>4, <1>8, <1>9 DEF ComponentsUp, items

-----------------------------------------------------------------------------
(* Slots for series. *)

Holding(held, d, n) ==
  Keyed(held, d) /\ (\A k \in held : k[1] # Other) /\ Cardinality(held) <= n /\ Cardinality(held) \in Nat

\* Slots are never returned and never more than there are.
LEMMA SlotsHeld ==
  ASSUME NEW d, NEW n \in Nat, NEW held, Holding(held, d, n),
         NEW wanted, Keyed(wanted, d), \A k \in wanted : k[1] # Other
  PROVE  Holding(Slots(held, wanted, n), d, n) /\ held \subseteq Slots(held, wanted, n)
  <1> DEFINE fresh == wanted \ held
             new == First(fresh, n - Cardinality(held))
  <1>1. Keyed(fresh, d)
    BY FS_Subset DEF Keyed
  <1>2. Cardinality(held) \in Nat /\ n - Cardinality(held) \in Int /\ n - Cardinality(held) >= 0
    BY DEF Holding
  <1>3. new \subseteq fresh /\ IsFiniteSet(new) /\ Cardinality(new) \in Nat /\ Cardinality(new) <= n - Cardinality(held)
    <2> HIDE DEF fresh
    <2> QED BY <1>1, <1>2, FirstFew
  <1>4. Slots(held, wanted, n) = held \cup new
    BY DEF Slots
  <1>5. new \subseteq wanted
    <2> HIDE DEF new
    <2> QED BY <1>3
  <1> HIDE DEF new, fresh
  <1>6. IsFiniteSet(held) /\ d \in Nat /\ held \subseteq [1 .. d -> Nat] /\ wanted \subseteq [1 .. d -> Nat]
    BY DEF Holding, Keyed
  <1>7. /\ IsFiniteSet(held \cup new) /\ Cardinality(held \cup new) \in Nat
        /\ Cardinality(held \cup new) = Cardinality(held) + Cardinality(new) - Cardinality(held \cap new)
    BY <1>3, <1>6, FS_Union, FS_CardinalityType
  <1>8. Cardinality(held \cap new) \in Nat
    <2>1. IsFiniteSet(held \cap new)
      BY <1>3, FS_Subset
    <2> QED BY <2>1, FS_CardinalityType
  <1>9. Cardinality(held \cup new) <= n
    BY <1>2, <1>3, <1>7, <1>8
  <1>10. \A k \in held \cup new : k[1] # Other /\ k \in [1 .. d -> Nat]
    BY <1>5, <1>6 DEF Holding
  <1> QED BY <1>4, <1>6, <1>7, <1>9, <1>10 DEF Holding, Keyed

-----------------------------------------------------------------------------
(* DEX tests. *)

LEMMA ThreeKeys ==
  ASSUME NEW S, IsFiniteSet(S), NEW f, \A x \in S : f[x] \in Nat \X Nat \X Nat
  PROVE  Keyed({f[x] : x \in S}, 3)
  <1> DEFINE keys == {f[x] : x \in S}
  <1>1. \A x, y, z \in Nat : <<x, y, z>> \in [1 .. 3 -> Nat]
    OBVIOUS
  <1>2. keys \subseteq [1 .. 3 -> Nat]
    <2>1. ASSUME NEW x \in S PROVE f[x] \in [1 .. 3 -> Nat]
      <3>1. \E a, b, c \in Nat : f[x] = <<a, b, c>>
        OBVIOUS
      <3> QED BY <1>1, <3>1
    <2> QED BY <2>1
  <1>3. IsFiniteSet(keys)
    BY FiniteValues
  <1> QED BY <1>2, <1>3 DEF Keyed

LEMMA FourReserved ==
  /\ Reserve = 4
  /\ \A k \in {1, 2} : \A m \in MetricsOf(k) : m \in {1, 2, 3} /\ <<k, m>> \in {<<1, 1>>, <<1, 2>>, <<2, 2>>, <<2, 3>>}
  <1>1. Cardinality({1, 2}) = 2 /\ Cardinality({2, 3}) = 2
    <2>1. ASSUME NEW a, NEW b, a # b PROVE Cardinality({a, b}) = 2
      <3>1. IsFiniteSet({a}) /\ Cardinality({a}) = 1
        BY FS_Singleton
      <3>2. Cardinality({a} \cup {b}) = Cardinality({a}) + 1
        BY <2>1, <3>1, FS_AddElement
      <3>3. {a} \cup {b} = {a, b}
        OBVIOUS
      <3> QED BY <3>1, <3>2, <3>3
    <2>2. 1 # 2 /\ 2 # 3
      OBVIOUS
    <2> QED BY ONLY <2>1, <2>2, Zenon
  <1>2. MetricsOf(1) = {1, 2} /\ MetricsOf(2) = {2, 3}
    BY DEF MetricsOf
  <1> QED BY <1>1, <1>2 DEF Reserve

DEXFine(w) == {i \in {i \in w.items : i.answer # "failed"} : i.answer = "ok"}
DEXSeries(i) == {<<i.name, i.kind, m>> : m \in MetricsOf(i.kind)}
DEXRest(fine, slots, k, m) == {i \in fine : i.kind = k /\ <<i.name, k, m>> \notin slots /\ m \in MetricsOf(k)}
DEXSum(set) == Total(set, [i \in set |-> i.value])
DEXLeft(rest, k, m) == Point("dex", <<Other, k, m>>, DEXSum(rest), Cardinality(rest))

\* What the points of a poll are.
DEXPoints(points, fine, slots) ==
  /\ \A i \in fine : \A m \in MetricsOf(i.kind) :
       <<i.name, i.kind, m>> \in slots => Point("dex", <<i.name, i.kind, m>>, i.value, 1) \in points
  /\ \A k \in {1, 2}, m \in {1, 2, 3} :
       DEXRest(fine, slots, k, m) # {} => DEXLeft(DEXRest(fine, slots, k, m), k, m) \in points
  /\ \A p \in points :
       \/ \E i \in fine : \E m \in MetricsOf(i.kind) :
            <<i.name, i.kind, m>> \in slots /\ p = Point("dex", <<i.name, i.kind, m>>, i.value, 1)
       \/ \E k \in {1, 2}, m \in {1, 2, 3} :
            DEXRest(fine, slots, k, m) # {} /\ p = DEXLeft(DEXRest(fine, slots, k, m), k, m)

LEMMA DEXPointsAre ==
  ASSUME NEW w, DEXTests(w).ok
  PROVE  LET fine == DEXFine(w)
             slots == Slots(admittedTo, {k \in UNION {DEXSeries(i) : i \in fine} : k[1] # Other}, SeriesCap - Reserve)
         IN  /\ DEXPoints(DEXTests(w).points, fine, slots)
             /\ DEXTests(w).admitted = slots
             /\ \A i, o \in fine : i.name # Other /\ i.name = o.name /\ i.kind = o.kind => i = o
  <1> DEFINE fine == DEXFine(w)
             slots == Slots(admittedTo, {k \in UNION {DEXSeries(i) : i \in fine} : k[1] # Other}, SeriesCap - Reserve)
             owns == UNION {{Point("dex", s, i.value, 1) : s \in DEXSeries(i) \cap slots} : i \in fine}
             lefts == {DEXLeft(DEXRest(fine, slots, x[1], x[2]), x[1], x[2]) :
                         x \in {x \in {1, 2} \X {1, 2, 3} : DEXRest(fine, slots, x[1], x[2]) # {}}}
  <1> DEFINE twice ==
               \/ \E i, o \in w.items : i # o /\ i.id = o.id
               \/ \E i, o \in w.items : i # o /\ i.name # Other /\ <<i.name, i.kind>> = <<o.name, o.kind>>
               \/ w.items # {} /\ {i \in w.items : i.answer # "failed"} = {}
  <1>0. DEXTests(w) = IF twice THEN NoSnapshot ELSE Snapshot(owns \cup lefts, slots)
    BY DEF DEXTests, DEXFine, DEXSeries, DEXRest, DEXLeft, DEXSum
  <1>7. ~twice /\ DEXTests(w) = Snapshot(owns \cup lefts, slots)
    <2> HIDE DEF twice, owns, lefts, slots
    <2> QED BY <1>0 DEF NoSnapshot
  <1>8. DEXTests(w).points = owns \cup lefts /\ DEXTests(w).admitted = slots
    <2> HIDE DEF twice, owns, lefts, slots
    <2> QED BY <1>7 DEF Snapshot
  <1>9. \A i, o \in fine : i.name # Other /\ i.name = o.name /\ i.kind = o.kind => i = o
    BY <1>7 DEF DEXFine
  <1>1. /\ DEXTests(w).points = owns \cup lefts /\ DEXTests(w).admitted = slots
        /\ \A i, o \in fine : i.name # Other /\ i.name = o.name /\ i.kind = o.kind => i = o
    BY <1>8, <1>9
  <1> HIDE DEF fine, slots
  <1>2. \A i \in fine : \A m \in MetricsOf(i.kind) :
          <<i.name, i.kind, m>> \in slots => Point("dex", <<i.name, i.kind, m>>, i.value, 1) \in owns
    BY DEF DEXSeries
  <1>3. \A k \in {1, 2}, m \in {1, 2, 3} :
          DEXRest(fine, slots, k, m) # {} => DEXLeft(DEXRest(fine, slots, k, m), k, m) \in lefts
    <2> TAKE k \in {1, 2}, m \in {1, 2, 3}
    <2>1. <<k, m>> \in {1, 2} \X {1, 2, 3} /\ <<k, m>>[1] = k /\ <<k, m>>[2] = m
      OBVIOUS
    <2> QED BY <2>1
  <1>4. \A p \in owns : \E i \in fine : \E m \in MetricsOf(i.kind) :
          <<i.name, i.kind, m>> \in slots /\ p = Point("dex", <<i.name, i.kind, m>>, i.value, 1)
    BY DEF DEXSeries
  <1>5. \A p \in lefts : \E k \in {1, 2}, m \in {1, 2, 3} :
          DEXRest(fine, slots, k, m) # {} /\ p = DEXLeft(DEXRest(fine, slots, k, m), k, m)
    OBVIOUS
  <1> HIDE DEF owns, lefts
  <1>6. DEXPoints(DEXTests(w).points, fine, slots)
    BY <1>1, <1>2, <1>3, <1>4, <1>5 DEF DEXPoints
  <1> QED BY <1>1, <1>6 DEF fine, slots

MetricUp(points, fine, m) ==
  LET measured == {i \in fine : m \in MetricsOf(i.kind)}
      of == {p \in points : p.series[3] = m}
  IN  /\ CountOf(of) = Cardinality(measured)
      /\ ValueOf(of) = Total(measured, [i \in measured |-> i.value])
DEXUp(points, w) ==
  /\ \A m \in {1, 2, 3} : MetricUp(points, Fine(w.items), m)
  /\ Cardinality(points) <= SeriesCap

\* The items of a metric, sorted into their own series and the remainders.
LEMMA DEXMetric ==
  ASSUME NEW fine, IsFiniteSet(fine), \A i \in fine : i.kind \in {1, 2} /\ i.value \in Nat,
         NEW slots, \A k \in slots : k[1] # Other, NEW points, DEXPoints(points, fine, slots),
         \A i, o \in fine : i.name # Other /\ i.name = o.name /\ i.kind = o.kind => i = o,
         NEW m \in {1, 2, 3}
  PROVE  MetricUp(points, fine, m)
  <1> DEFINE S == {i \in fine : m \in MetricsOf(i.kind)}
             of == {p \in points : p.series[3] = m}
             f == [i \in S |-> i.value]
             to == [i \in S |-> IF <<i.name, i.kind, m>> \in slots THEN <<i.name, i.kind, m>> ELSE <<Other, i.kind, m>>]
             Own(p, i) == /\ <<i.name, i.kind, m>> \in slots
                          /\ p = Point("dex", <<i.name, i.kind, m>>, i.value, 1)
             rest(k) == DEXRest(fine, slots, k, m)
             Left(p, k) == rest(k) # {} /\ p = DEXLeft(rest(k), k, m)
  <1>1. S \in SUBSET fine /\ \A i \in S : i.kind \in {1, 2} /\ i.value \in Nat /\ m \in MetricsOf(i.kind)
    OBVIOUS
  <1>2. IsFiniteSet(S) /\ Counts(S, f) /\ \A i \in S : f[i] = i.value
    <2>1. IsFiniteSet(S)
      <3> HIDE DEF S
      <3> QED BY <1>1, FS_Subset
    <2>2. \A i \in S : f[i] = i.value
      OBVIOUS
    <2> HIDE DEF S, f
    <2> QED BY <1>1, <2>1, <2>2 DEF Counts
  <1>3. \A i \in S : to[i] = IF <<i.name, i.kind, m>> \in slots THEN <<i.name, i.kind, m>> ELSE <<Other, i.kind, m>>
    OBVIOUS
  <1>4. \A i \in S : i \in fine /\ m \in MetricsOf(i.kind)
    OBVIOUS
  <1>5. \A i \in fine : m \in MetricsOf(i.kind) => i \in S
    OBVIOUS
  <1>6. \A k \in {1, 2} : rest(k) \in SUBSET S /\ \A i \in S : i \in rest(k) <=> i.kind = k /\ <<i.name, i.kind, m>> \notin slots
    BY DEF DEXRest
  <1>7. ASSUME NEW p \in of PROVE (\E i \in S : Own(p, i)) \/ (\E k \in {1, 2} : Left(p, k))
    <2>1. p \in points /\ p.series[3] = m
      OBVIOUS
    <2> HIDE DEF S, of, to
    <2>2. CASE \E i \in fine : \E n \in MetricsOf(i.kind) :
                 <<i.name, i.kind, n>> \in slots /\ p = Point("dex", <<i.name, i.kind, n>>, i.value, 1)
      <3>0. PICK i \in fine : \E n \in MetricsOf(i.kind) :
              <<i.name, i.kind, n>> \in slots /\ p = Point("dex", <<i.name, i.kind, n>>, i.value, 1)
        BY <2>2
      <3>1. PICK n \in MetricsOf(i.kind) :
              <<i.name, i.kind, n>> \in slots /\ p = Point("dex", <<i.name, i.kind, n>>, i.value, 1)
        BY <3>0
      <3>2. p.series = <<i.name, i.kind, n>>
        BY <3>1 DEF Point
      <3>3. n = m
        BY <2>1, <3>2
      <3> QED BY <1>5, <3>1, <3>3
    <2>3. CASE \E k \in {1, 2}, n \in {1, 2, 3} :
                 DEXRest(fine, slots, k, n) # {} /\ p = DEXLeft(DEXRest(fine, slots, k, n), k, n)
      <3>1. PICK k \in {1, 2}, n \in {1, 2, 3} :
              DEXRest(fine, slots, k, n) # {} /\ p = DEXLeft(DEXRest(fine, slots, k, n), k, n)
        BY <2>3
      <3>2. p.series = <<Other, k, n>>
        BY <3>1 DEF DEXLeft, Point
      <3>3. n = m
        BY <2>1, <3>2
      <3> QED BY <3>1, <3>3
    <2> QED BY <2>1, <2>2, <2>3 DEF DEXPoints
  <1>8. \A i \in S : <<i.name, i.kind, m>> \in slots =>
          Point("dex", <<i.name, i.kind, m>>, i.value, 1) \in of
    <2> TAKE i \in S
    <2> HAVE <<i.name, i.kind, m>> \in slots
    <2>1. Point("dex", <<i.name, i.kind, m>>, i.value, 1) \in points
      BY <1>4 DEF DEXPoints
    <2>2. Point("dex", <<i.name, i.kind, m>>, i.value, 1).series[3] = m
      BY DEF Point
    <2> QED BY <2>1, <2>2
  <1>9. \A k \in {1, 2} : rest(k) # {} => DEXLeft(rest(k), k, m) \in of
    <2> TAKE k \in {1, 2}
    <2> HAVE rest(k) # {}
    <2>1. DEXLeft(rest(k), k, m) \in points
      BY DEF DEXPoints
    <2>2. DEXLeft(rest(k), k, m).series[3] = m
      BY DEF DEXLeft, Point
    <2> QED BY <2>1, <2>2
  <1> HIDE DEF S, of, f, to, rest
  <1>10. ASSUME NEW p \in of, NEW i \in S, Own(p, i)
         PROVE  p.series = <<i.name, i.kind, m>> /\ p.series = to[i] /\ In(S, to, p) = {i} /\ p.value = i.value /\ p.count = 1
    <2>1. p.series = <<i.name, i.kind, m>> /\ p.value = i.value /\ p.count = 1
      BY <1>10 DEF Point
    <2>2. i.name # Other
      BY <1>10
    <2>3. \A o \in S : to[o] = p.series <=> o = i
      <3> TAKE o \in S
      <3>1. ASSUME to[o] = p.series PROVE o.name = i.name /\ o.kind = i.kind
        <4>1. to[o] = <<i.name, i.kind, m>> /\ <<i.name, i.kind, m>>[1] = i.name /\ <<i.name, i.kind, m>>[2] = i.kind
          BY <2>1, <3>1
        <4>2. to[o][1] = i.name /\ to[o][2] = i.kind
          BY <4>1
        <4>3. to[o] = <<o.name, o.kind, m>> \/ to[o] = <<Other, o.kind, m>>
          BY <1>3
        <4> QED BY <2>2, <4>2, <4>3
      <3> QED BY <1>3, <1>4, <1>10, <2>1, <2>2, <3>1
    <2> QED BY <2>1, <2>3 DEF In
  <1>11. ASSUME NEW p \in of, NEW k \in {1, 2}, Left(p, k)
         PROVE  p.series = <<Other, k, m>> /\ In(S, to, p) = rest(k) /\ p.value = DEXSum(rest(k)) /\ p.count = Cardinality(rest(k))
    <2>1. p.series = <<Other, k, m>> /\ p.value = DEXSum(rest(k)) /\ p.count = Cardinality(rest(k))
      BY <1>11 DEF DEXLeft, Point
    <2>2. ASSUME NEW o \in S PROVE to[o] = p.series <=> o \in rest(k)
      <3>1. CASE <<o.name, o.kind, m>> \in slots
        <4>1. to[o] = <<o.name, o.kind, m>> /\ to[o][1] # Other /\ o \notin rest(k)
          BY <1>3, <1>6, <3>1
        <4>2. p.series[1] = Other
          BY <2>1
        <4> QED BY <4>1, <4>2
      <3>2. CASE <<o.name, o.kind, m>> \notin slots
        <4>3. to[o] = <<Other, o.kind, m>>
          BY <1>3, <3>2
        <4>4. o \in rest(k) <=> o.kind = k
          BY <1>6, <3>2
        <4>1. to[o] = <<Other, o.kind, m>> /\ to[o][2] = o.kind /\ (o \in rest(k) <=> o.kind = k)
          BY <4>3, <4>4
        <4>2. p.series[2] = k
          BY <2>1
        <4> QED BY <2>1, <4>1, <4>2
      <3> QED BY <3>1, <3>2
    <2> QED BY <1>6, <2>1, <2>2 DEF In
  <1>12. Sorts(S, of, to)
    <2>1. ASSUME NEW i \in S PROVE \E p \in of : p.series = to[i]
      <3>1. CASE <<i.name, i.kind, m>> \in slots
        BY <1>3, <1>8, <3>1 DEF Point
      <3>2. CASE <<i.name, i.kind, m>> \notin slots
        <4>1. i \in rest(i.kind) /\ i.kind \in {1, 2}
          BY <1>1, <1>6, <3>2
        <4>2. DEXLeft(rest(i.kind), i.kind, m) \in of
          BY <1>9, <4>1
        <4>3. DEXLeft(rest(i.kind), i.kind, m).series = <<Other, i.kind, m>>
          BY DEF DEXLeft, Point
        <4> QED BY <1>3, <3>2, <4>2, <4>3
      <3> QED BY <3>1, <3>2
    <2>2. ASSUME NEW p \in of PROVE \E i \in S : p.series = to[i]
      <3>1. ASSUME NEW i \in S, Own(p, i) PROVE p.series = to[i]
        BY <1>10, <3>1
      <3>2. ASSUME NEW k \in {1, 2}, Left(p, k) PROVE \E i \in S : p.series = to[i]
        <4>1. PICK i \in rest(k) : TRUE
          BY <3>2
        <4>2. i \in S /\ i \in In(S, to, p)
          BY <1>6, <1>11, <3>2, <4>1
        <4> QED BY <4>2 DEF In
      <3> QED BY <1>7, <3>1, <3>2
    <2>3. ASSUME NEW p \in of, NEW q \in of, p.series = q.series PROVE p = q
      <3>1. ASSUME NEW i \in S, NEW j \in S, Own(p, i), Own(q, j) PROVE p = q
        <4>1. to[i] = to[j] /\ In(S, to, p) = {i} /\ In(S, to, q) = {j}
          BY <1>10, <2>3, <3>1
        <4>2. In(S, to, p) = In(S, to, q)
          BY <2>3 DEF In
        <4> QED BY <3>1, <4>1, <4>2
      <3>2. ASSUME NEW i \in S, NEW k \in {1, 2}, Own(p, i), Left(q, k) PROVE FALSE
        <4>1. p.series = <<i.name, i.kind, m>> /\ q.series = <<Other, k, m>> /\ i.name # Other
          BY <1>10, <1>11, <3>2
        <4>2. p.series[1] = i.name /\ q.series[1] = Other
          BY <4>1
        <4> QED BY <2>3, <4>1, <4>2
      <3>3. ASSUME NEW i \in S, NEW k \in {1, 2}, Own(q, i), Left(p, k) PROVE FALSE
        <4>1. q.series = <<i.name, i.kind, m>> /\ p.series = <<Other, k, m>> /\ i.name # Other
          BY <1>10, <1>11, <3>3
        <4>2. q.series[1] = i.name /\ p.series[1] = Other
          BY <4>1
        <4> QED BY <2>3, <4>1, <4>2
      <3>4. ASSUME NEW j \in {1, 2}, NEW k \in {1, 2}, Left(p, j), Left(q, k) PROVE p = q
        <4>1. p.series = <<Other, j, m>> /\ q.series = <<Other, k, m>>
          BY <1>11, <3>4
        <4>3. p.series[2] = j /\ q.series[2] = k
          BY <4>1
        <4>2. j = k
          BY <2>3, <4>3
        <4> QED BY <3>4, <4>2
      <3> QED BY <1>7, <3>1, <3>2, <3>3, <3>4
    <2> QED BY <2>1, <2>2, <2>3 DEF Sorts
  <1>13. \A p \in of : p.count = Cardinality(In(S, to, p)) /\ p.value = Total(In(S, to, p), f)
    <2> TAKE p \in of
    <2>1. ASSUME NEW i \in S, Own(p, i) PROVE p.count = Cardinality(In(S, to, p)) /\ p.value = Total(In(S, to, p), f)
      <3>1. In(S, to, p) = {i} /\ p.count = 1 /\ p.value = f[i] /\ f[i] \in Nat
        BY <1>1, <1>2, <1>10, <2>1
      <3>2. Cardinality({i}) = 1 /\ Total({i}, f) = f[i]
        <4>1. Total({i}, f) = f[i]
          BY <3>1, TotalOne
        <4> QED BY <4>1, FS_Singleton
      <3> QED BY <3>1, <3>2
    <2>2. ASSUME NEW k \in {1, 2}, Left(p, k) PROVE p.count = Cardinality(In(S, to, p)) /\ p.value = Total(In(S, to, p), f)
      <3> DEFINE g == [i \in rest(k) |-> i.value]
      <3>1. In(S, to, p) = rest(k) /\ p.count = Cardinality(rest(k)) /\ p.value = DEXSum(rest(k))
        BY <1>11, <2>2
      <3>2. DEXSum(rest(k)) = Total(rest(k), g)
        BY DEF DEXSum
      <3>3. rest(k) \in SUBSET S /\ IsFiniteSet(rest(k))
        BY <1>2, <1>6, FS_Subset
      <3>4. Counts(rest(k), g) /\ \A i \in rest(k) : g[i] = f[i]
        BY <1>1, <1>2, <3>3 DEF Counts
      <3> HIDE DEF g
      <3>5. Total(rest(k), g) = Total(rest(k), f)
        BY <3>3, <3>4, TotalSame
      <3> QED BY <3>1, <3>2, <3>5
    <2> QED BY <1>7, <2>1, <2>2
  <1>14. CountOf(of) = Cardinality(S)
    BY <1>2, <1>12, <1>13, SortedCounts
  <1>15. ValueOf(of) = Total(S, f)
    BY <1>2, <1>12, <1>13, SortedValues
  <1> QED BY <1>14, <1>15 DEF of, S, f, MetricUp

\* The series that are reserved: the remainder of each metric of each kind.
Reserved == {<<1, 1>>, <<1, 2>>, <<2, 2>>, <<2, 3>>}

LEMMA ReservedFew == IsFiniteSet(Reserved) /\ Cardinality(Reserved) \in Nat /\ Cardinality(Reserved) <= 4
  <1> DEFINE f == [i \in 1 .. 4 |-> IF i = 1 THEN <<1, 1>> ELSE IF i = 2 THEN <<1, 2>> ELSE IF i = 3 THEN <<2, 2>> ELSE <<2, 3>>]
             four == 1 .. 4
  <1>1. Reserved = {f[i] : i \in four}
    <2>1. f[1] = <<1, 1>> /\ f[2] = <<1, 2>> /\ f[3] = <<2, 2>> /\ f[4] = <<2, 3>>
      OBVIOUS
    <2>2. \A i \in four : i = 1 \/ i = 2 \/ i = 3 \/ i = 4
      OBVIOUS
    <2>3. 1 \in four /\ 2 \in four /\ 3 \in four /\ 4 \in four
      OBVIOUS
    <2> HIDE DEF f, four
    <2> QED BY <2>1, <2>2, <2>3 DEF Reserved
  <1>2. IsFiniteSet(four) /\ Cardinality(four) = 4
    <2>1. 1 \in Int /\ 4 \in Int
      OBVIOUS
    <2>2. IsFiniteSet(1 .. 4) /\ Cardinality(1 .. 4) = (IF 1 > 4 THEN 0 ELSE 4 - 1 + 1)
      BY ONLY <2>1, FS_Interval, Zenon
    <2> QED BY <2>2
  <1> HIDE DEF f, four
  <1>3. IsFiniteSet(Reserved) /\ Cardinality(Reserved) <= 4
    BY <1>1, <1>2, FiniteValues
  <1> QED BY <1>3, FS_CardinalityType

LEMMA DEXFew ==
  ASSUME NEW fine, \A i \in fine : i.kind \in {1, 2},
         NEW slots, Holding(slots, 3, SeriesCap - Reserve), SeriesCap \in Nat,
         NEW points, DEXPoints(points, fine, slots),
         \A i, o \in fine : i.name # Other /\ i.name = o.name /\ i.kind = o.kind => i = o
  PROVE  Cardinality(points) <= SeriesCap
  <1> DEFINE own == {p \in points : p.series \in slots}
             left == {p \in points : p.series \notin slots}
             h == [s \in slots |-> CHOOSE p \in own : p.series = s]
             g == [x \in Reserved |-> DEXLeft(DEXRest(fine, slots, x[1], x[2]), x[1], x[2])]
             hs == {h[s] : s \in slots}
             gs == {g[x] : x \in Reserved}
             Own(p, i, m) == <<i.name, i.kind, m>> \in slots /\ p = Point("dex", <<i.name, i.kind, m>>, i.value, 1)
             Left(p, k, m) == DEXRest(fine, slots, k, m) # {} /\ p = DEXLeft(DEXRest(fine, slots, k, m), k, m)
  <1>1. ASSUME NEW p \in points
        PROVE  \/ \E i \in fine : \E m \in MetricsOf(i.kind) : Own(p, i, m)
               \/ \E k \in {1, 2}, m \in {1, 2, 3} : Left(p, k, m)
    BY DEF DEXPoints
  <1>2. ASSUME NEW p, NEW k \in {1, 2}, NEW m \in {1, 2, 3}, Left(p, k, m)
        PROVE  p.series \notin slots /\ <<k, m>> \in Reserved /\ p = g[<<k, m>>]
    <2>1. p.series = <<Other, k, m>>
      BY <1>2 DEF DEXLeft, Point
    <2>2. p.series[1] = Other
      BY <2>1
    <2>3. PICK i \in DEXRest(fine, slots, k, m) : TRUE
      BY <1>2
    <2>4. m \in MetricsOf(k)
      BY <2>3 DEF DEXRest
    <2>5. <<k, m>> \in Reserved
      BY <2>4, FourReserved DEF Reserved
    <2>6. <<k, m>>[1] = k /\ <<k, m>>[2] = m
      OBVIOUS
    <2>7. p = g[<<k, m>>]
      BY <1>2, <2>5, <2>6
    <2> QED BY <2>2, <2>5, <2>7 DEF Holding
  <1>3. ASSUME NEW p, NEW i \in fine, NEW m, Own(p, i, m)
        PROVE  /\ p.series = <<i.name, i.kind, m>> /\ p.series \in slots
               /\ p.series[1] = i.name /\ p.series[2] = i.kind /\ p.series[3] = m /\ i.name # Other
    <2>1. p.series = <<i.name, i.kind, m>>
      BY <1>3 DEF Point
    <2>2. p.series[1] = i.name /\ p.series[2] = i.kind /\ p.series[3] = m
      BY <2>1
    <2> QED BY <1>3, <2>1, <2>2 DEF Holding
  <1>4. ASSUME NEW p \in own, NEW q \in own, p.series = q.series PROVE p = q
    <2>1. PICK i \in fine : \E m \in MetricsOf(i.kind) : Own(p, i, m)
      BY <1>1, <1>2
    <2>2. PICK m \in MetricsOf(i.kind) : Own(p, i, m)
      BY <2>1
    <2>3. PICK j \in fine : \E n \in MetricsOf(j.kind) : Own(q, j, n)
      BY <1>1, <1>2
    <2>4. PICK n \in MetricsOf(j.kind) : Own(q, j, n)
      BY <2>3
    <2>5. i.name = j.name /\ i.kind = j.kind /\ m = n /\ i.name # Other
      BY <1>3, <1>4, <2>2, <2>4
    <2>6. i = j
      BY <2>5
    <2> QED BY <2>2, <2>4, <2>5, <2>6
  <1>5. own \subseteq hs
    <2>1. ASSUME NEW p \in own PROVE p \in hs
      <3>1. p.series \in slots
        OBVIOUS
      <3>2. h[p.series] = CHOOSE q \in own : q.series = p.series
        BY <3>1
      <3>3. h[p.series] = p
        <4> HIDE DEF own, h
        <4> QED BY <1>4, <3>2
      <3> QED BY <3>1, <3>3
    <2> QED BY <2>1
  <1>6. left \subseteq gs
    <2>1. ASSUME NEW p \in left PROVE p \in gs
      <3>1. PICK k \in {1, 2}, m \in {1, 2, 3} : Left(p, k, m)
        BY <1>1, <1>3
      <3>2. <<k, m>> \in Reserved /\ p = g[<<k, m>>]
        BY <1>2, <3>1
      <3> HIDE DEF g
      <3> QED BY <3>2
    <2> QED BY <2>1
  <1>7. points = own \cup left
    OBVIOUS
  <1> HIDE DEF own, left, h, g
  <1>8. IsFiniteSet(slots) /\ Cardinality(slots) \in Nat /\ Cardinality(slots) <= SeriesCap - Reserve
    BY DEF Holding, Keyed
  <1>9. IsFiniteSet(hs) /\ Cardinality(hs) <= Cardinality(slots)
    BY <1>8, FiniteValues
  <1>10. IsFiniteSet(gs) /\ Cardinality(gs) <= Cardinality(Reserved)
    BY ReservedFew, FiniteValues
  <1> HIDE DEF hs, gs
  <1>11. IsFiniteSet(own) /\ Cardinality(own) <= Cardinality(hs) /\ IsFiniteSet(left) /\ Cardinality(left) <= Cardinality(gs)
    BY <1>5, <1>6, <1>9, <1>10, FS_Subset
  <1>12. Cardinality(points) = Cardinality(own) + Cardinality(left) - Cardinality(own \cap left)
    BY <1>7, <1>11, FS_Union
  <1>13. IsFiniteSet(own \cap left)
    BY <1>11, FS_Subset
  <1>14. /\ Cardinality(own) \in Nat /\ Cardinality(left) \in Nat /\ Cardinality(own \cap left) \in Nat
         /\ Cardinality(hs) \in Nat /\ Cardinality(gs) \in Nat
    BY <1>9, <1>10, <1>11, <1>13, FS_CardinalityType
  <1> QED BY <1>8, <1>9, <1>10, <1>11, <1>12, <1>14, ReservedFew, FourReserved

\* A series with a slot is never left to the remainder, and none is named without.
NamedBySlots(points, fine, gauge, slots, Of(_)) ==
  /\ \A i \in fine : \A s \in Of(i) \cap slots : \E p \in points : p.gauge = gauge /\ p.series = s
  /\ \A p \in points : p.gauge = gauge /\ p.series[1] # Other => p.series \in slots
  /\ \A p \in points : p.gauge \in {"dex", "health"} => p.gauge = gauge

\* A poll of DEX tests adds up, within the slots and the reserve.
LEMMA DEXRight ==
  ASSUME NEW w \in PollWorlds, DEXTests(w).ok, SeriesCap \in Nat, SeriesCap >= Reserve,
         Holding(admittedTo, 3, SeriesCap - Reserve)
  PROVE  /\ DEXUp(DEXTests(w).points, w)
         /\ Holding(DEXTests(w).admitted, 3, SeriesCap - Reserve) /\ admittedTo \subseteq DEXTests(w).admitted
         /\ NamedBySlots(DEXTests(w).points, Fine(w.items), "dex", DEXTests(w).admitted, DEXSeries)
  <1> DEFINE fine == DEXFine(w)
             series == UNION {DEXSeries(i) : i \in fine}
             wanted == {k \in series : k[1] # Other}
             slots == Slots(admittedTo, wanted, SeriesCap - Reserve)
             points == DEXTests(w).points
  <1>1. /\ DEXPoints(points, fine, slots) /\ DEXTests(w).admitted = slots
        /\ \A i, o \in fine : i.name # Other /\ i.name = o.name /\ i.kind = o.kind => i = o
    BY DEXPointsAre
  <1>2. fine = Fine(w.items) /\ fine \subseteq w.items
    BY DEF DEXFine, Fine
  <1>3. IsFiniteSet(fine) /\ \A i \in fine : i.kind \in {1, 2} /\ i.value \in Nat /\ i.name \in Nat
    <2> HIDE DEF fine
    <2> QED BY <1>2, CatalogAssumption, FS_Subset
  <1> HIDE DEF fine
  <1>4. Keyed(wanted, 3) /\ \A k \in wanted : k[1] # Other
    <2>1. ASSUME NEW i \in fine PROVE IsFiniteSet(DEXSeries(i))
      <3> DEFINE ms == MetricsOf(i.kind)
                 f == [m \in ms |-> <<i.name, i.kind, m>>]
      <3>1. IsFiniteSet(ms)
        <4>1. ms \subseteq {1, 2} \/ ms \subseteq {2, 3}
          BY DEF MetricsOf
        <4>2. IsFiniteSet({1, 2}) /\ IsFiniteSet({2, 3})
          <5>1. ASSUME NEW a, NEW b PROVE IsFiniteSet({a, b})
            <6>1. IsFiniteSet({a})
              BY FS_Singleton
            <6>2. IsFiniteSet({a} \cup {b})
              BY <6>1, FS_AddElement
            <6>3. {a} \cup {b} = {a, b}
              OBVIOUS
            <6> QED BY <6>2, <6>3
          <5> QED BY ONLY <5>1, Zenon
        <4> HIDE DEF ms
        <4> QED BY <4>1, <4>2, FS_Subset
      <3>2. DEXSeries(i) = {f[m] : m \in ms}
        BY DEF DEXSeries
      <3> HIDE DEF ms, f
      <3> QED BY <3>1, <3>2, FiniteValues
    <2> DEFINE of == [i \in fine |-> DEXSeries(i)]
               all == {of[i] : i \in fine}
    <2>2. IsFiniteSet(all) /\ series = UNION all /\ \A t \in all : IsFiniteSet(t)
      <3>1. \A i \in fine : of[i] = DEXSeries(i)
        OBVIOUS
      <3>2. series = UNION all
        BY <3>1
      <3> HIDE DEF of
      <3>3. IsFiniteSet(all)
        BY <1>3, FiniteValues
      <3> QED BY <2>1, <3>1, <3>2, <3>3
    <2> HIDE DEF all
    <2>3. IsFiniteSet(series)
      <3> HIDE DEF series
      <3> QED BY <2>2, FS_UNION
    <2>4. \A k \in series : k \in [1 .. 3 -> Nat]
      <3>1. \A x, y, z \in Nat : <<x, y, z>> \in [1 .. 3 -> Nat]
        OBVIOUS
      <3>2. ASSUME NEW i \in fine, NEW m \in MetricsOf(i.kind) PROVE <<i.name, i.kind, m>> \in [1 .. 3 -> Nat]
        <4>1. i.name \in Nat /\ i.kind \in Nat /\ m \in Nat
          BY <1>3 DEF MetricsOf
        <4> QED BY <3>1, <4>1
      <3> QED BY <3>2 DEF DEXSeries
    <2> HIDE DEF series
    <2>5. wanted \subseteq series /\ \A k \in wanted : k[1] # Other
      OBVIOUS
    <2> HIDE DEF wanted
    <2> QED BY <2>3, <2>4, <2>5, FS_Subset DEF Keyed
  <1>5. SeriesCap - Reserve \in Nat
    BY FourReserved
  <1>6. Holding(slots, 3, SeriesCap - Reserve) /\ admittedTo \subseteq slots
    <2> HIDE DEF wanted
    <2> QED BY <1>4, <1>5, SlotsHeld
  <1> HIDE DEF slots, wanted, points
  <1>7. \A k \in slots : k[1] # Other
    BY <1>6 DEF Holding
  <1>8. Cardinality(points) <= SeriesCap
    BY <1>1, <1>3, <1>6, DEXFew
  <1>9. \A m \in {1, 2, 3} : MetricUp(points, fine, m)
    BY <1>1, <1>3, <1>7, DEXMetric
  <1>10. DEXUp(points, w)
    BY <1>2, <1>8, <1>9 DEF DEXUp
  <1>11. NamedBySlots(points, fine, "dex", slots, DEXSeries)
    <2>1. ASSUME NEW i \in fine, NEW s \in DEXSeries(i) \cap slots
          PROVE  \E p \in points : p.gauge = "dex" /\ p.series = s
      <3>1. PICK m \in MetricsOf(i.kind) : s = <<i.name, i.kind, m>>
        BY DEF DEXSeries
      <3>2. Point("dex", s, i.value, 1) \in points
        BY <1>1, <3>1 DEF DEXPoints
      <3>3. Point("dex", s, i.value, 1).gauge = "dex" /\ Point("dex", s, i.value, 1).series = s
        BY DEF Point
      <3> QED BY <3>2, <3>3
    <2>2. ASSUME NEW p \in points PROVE p.gauge = "dex" /\ (p.series[1] # Other => p.series \in slots)
      <3>1. CASE \E i \in fine : \E m \in MetricsOf(i.kind) :
                   <<i.name, i.kind, m>> \in slots /\ p = Point("dex", <<i.name, i.kind, m>>, i.value, 1)
        BY <3>1 DEF Point
      <3>2. CASE \E k \in {1, 2}, m \in {1, 2, 3} :
                   DEXRest(fine, slots, k, m) # {} /\ p = DEXLeft(DEXRest(fine, slots, k, m), k, m)
        BY <3>2 DEF DEXLeft, Point
      <3> QED BY <1>1, <3>1, <3>2 DEF DEXPoints
    <2> QED BY <2>1, <2>2 DEF NamedBySlots
  <1> QED BY <1>1, <1>2, <1>6, <1>10, <1>11 DEF points

-----------------------------------------------------------------------------
(* Load balancer pools. *)

RowsOf(w) == {r \in w.rows : w.zones[r.zone] = "ok"}

\* The requests of all pools are there, within the budget.
LEMMA RequestsRight ==
  ASSUME NEW w \in PollWorlds, NEW budget \in Int, budget >= 1, w.items # {}
  PROVE  /\ \A p \in PoolRequests(w, budget) : p.gauge = "requests"
         /\ ValueOf(PoolRequests(w, budget)) = Total(RowsOf(w), [r \in RowsOf(w) |-> r.count])
         /\ Cardinality(PoolRequests(w, budget)) \in Nat /\ Cardinality(PoolRequests(w, budget)) <= budget
  <1> DEFINE rows == RowsOf(w)
             known == {<<i.name>> : i \in w.items}
             named == {<<r.name>> : r \in {r \in rows : r.name # Other /\ <<r.name>> \in known}}
             own == First(named, budget - 1)
             rest == {r \in rows : <<r.name>> \notin own}
             Sum(set) == Total(set, [r \in set |-> r.count])
             Of(n) == {r \in rows : <<r.name>> = n}
             mine == [n \in own |-> Point("requests", n, Sum(Of(n)), Cardinality(Of(n)))]
             remainder == Point("requests", <<Other>>, Sum(rest), Cardinality(rest))
             owns == {mine[n] : n \in own}
             lefts == IF rest = {} THEN {} ELSE {remainder}
             points == owns \cup lefts
             count == [r \in rows |-> r.count]
             to == [r \in rows |-> IF <<r.name>> \in own THEN <<r.name>> ELSE <<Other>>]
  <1>1. PoolRequests(w, budget) = points
    BY DEF PoolRequests, RowsOf
  <1>2. IsFiniteSet(rows) /\ \A r \in rows : r.name \in Nat /\ r.count \in Nat
    <2>1. rows \subseteq w.rows
      BY DEF RowsOf
    <2> HIDE DEF rows
    <2> QED BY <2>1, CatalogAssumption, FS_Subset
  <1> HIDE DEF rows
  <1>3. Counts(rows, count)
    <2>1. \A r \in rows : count[r] = r.count
      OBVIOUS
    <2> HIDE DEF count
    <2> QED BY <1>2, <2>1 DEF Counts
  <1>4. Keyed(named, 1) /\ \A n \in named : n[1] # Other /\ \E r \in rows : n = <<r.name>>
    <2> DEFINE S == {r \in rows : r.name # Other /\ <<r.name>> \in known}
               f == [r \in S |-> r.name]
               T == {f[r] : r \in S}
    <2>1. IsFiniteSet(S)
      BY <1>2, FS_Subset
    <2>2. named = {<<x>> : x \in T}
      <3>1. \A r \in S : f[r] = r.name
        OBVIOUS
      <3> HIDE DEF f, S
      <3> QED BY <3>1 DEF S
    <2>3. \A x \in T : x \in Nat
      BY <1>2
    <2>4. \A n \in named : n[1] # Other /\ \E r \in rows : n = <<r.name>>
      OBVIOUS
    <2> HIDE DEF S, f, named
    <2>5. IsFiniteSet(T)
      BY <2>1, FiniteValues
    <2> HIDE DEF T
    <2>6. Keyed({<<x>> : x \in T}, 1)
      BY <2>3, <2>5, OneKeys
    <2> QED BY <2>2, <2>4, <2>6
  <1> HIDE DEF known, named
  <1>5. own \subseteq named /\ IsFiniteSet(own) /\ Cardinality(own) \in Nat /\ Cardinality(own) <= budget - 1
    <2>1. budget - 1 \in Int /\ budget - 1 >= 0
      OBVIOUS
    <2> QED BY <1>4, <2>1, FirstFew
  <1> HIDE DEF own
  <1>6. \A n \in own : mine[n].gauge = "requests" /\ mine[n].series = n /\ mine[n].value = Sum(Of(n))
    BY DEF Point
  <1>7. remainder.gauge = "requests" /\ remainder.series = <<Other>> /\ remainder.value = Sum(rest)
    BY DEF Point
  <1>8. \A n \in own : n # <<Other>> /\ \E r \in rows : n = <<r.name>>
    <2>1. <<Other>>[1] = Other
      OBVIOUS
    <2> QED BY <1>4, <1>5, <2>1
  <1>9. \A r \in rows : to[r] = IF <<r.name>> \in own THEN <<r.name>> ELSE <<Other>>
    OBVIOUS
  <1>10. \A r \in rows : r \in rest <=> <<r.name>> \notin own
    OBVIOUS
  <1>11. rest \subseteq rows
    OBVIOUS
  <1> HIDE DEF mine, remainder, to, rest
  <1>12. Sorts(rows, points, to)
    <2>1. ASSUME NEW r \in rows PROVE \E p \in points : p.series = to[r]
      <3>1. CASE <<r.name>> \in own
        BY <1>6, <1>9, <3>1
      <3>2. CASE <<r.name>> \notin own
        <4>1. remainder \in points
          BY <1>10, <3>2
        <4> QED BY <1>7, <1>9, <3>2, <4>1
      <3> QED BY <3>1, <3>2
    <2>2. ASSUME NEW p \in points PROVE \E r \in rows : p.series = to[r]
      <3>1. ASSUME NEW n \in own, p = mine[n] PROVE \E r \in rows : p.series = to[r]
        <4>1. PICK r \in rows : n = <<r.name>>
          BY <1>8
        <4> QED BY <1>6, <1>9, <3>1, <4>1
      <3>2. ASSUME rest # {}, p = remainder PROVE \E r \in rows : p.series = to[r]
        <4>1. PICK r \in rest : TRUE
          BY <3>2
        <4> QED BY <1>7, <1>9, <1>10, <1>11, <3>2, <4>1
      <3> QED BY <3>1, <3>2
    <2>3. ASSUME NEW p \in points, NEW q \in points, p.series = q.series PROVE p = q
      <3>1. (\E n \in own : p = mine[n]) \/ p = remainder
        OBVIOUS
      <3>2. (\E n \in own : q = mine[n]) \/ q = remainder
        OBVIOUS
      <3> HIDE DEF points
      <3>3. ASSUME NEW n \in own, NEW o \in own, p = mine[n], q = mine[o] PROVE p = q
        <4>1. p.series = n /\ q.series = o
          BY <1>6, <3>3
        <4>2. n = o
          BY <2>3, <4>1
        <4> QED BY <3>3, <4>2
      <3>4. ASSUME NEW n \in own, NEW x, NEW y, {x, y} = {p, q}, x = mine[n], y = remainder PROVE FALSE
        <4>1. x.series = n /\ y.series = <<Other>>
          BY <1>6, <1>7, <3>4
        <4>2. x.series = y.series
          BY <2>3, <3>4
        <4> QED BY <1>8, <4>1, <4>2
      <3>5. CASE p = remainder
        <4>1. CASE \E o \in own : q = mine[o]
          BY <3>4, <3>5, <4>1
        <4> QED BY <3>2, <3>5, <4>1
      <3>6. CASE \E n \in own : p = mine[n]
        <4>1. CASE q = remainder
          BY <3>4, <3>6, <4>1
        <4>2. CASE \E o \in own : q = mine[o]
          BY <3>3, <3>6, <4>2
        <4> QED BY <3>2, <4>1, <4>2
      <3> QED BY <3>1, <3>5, <3>6
    <2> HIDE DEF points
    <2> QED BY <2>1, <2>2, <2>3 DEF Sorts
  <1>13. \A p \in points : p.value = Total(In(rows, to, p), count)
    <2>1. ASSUME NEW U \in SUBSET rows PROVE Sum(U) = Total(U, count)
      <3> DEFINE g == [r \in U |-> r.count]
      <3>1. IsFiniteSet(U)
        BY <1>2, FS_Subset
      <3>2. Counts(U, g) /\ \A r \in U : g[r] = count[r]
        BY <1>2, <3>1 DEF Counts
      <3> HIDE DEF g, count
      <3>3. Total(U, g) = Total(U, count)
        BY <3>1, <3>2, TotalSame
      <3> QED BY <3>3 DEF g
    <2> HIDE DEF Sum
    <2>2. ASSUME NEW n \in own PROVE mine[n].value = Total(In(rows, to, mine[n]), count)
      <3>1. In(rows, to, mine[n]) = Of(n)
        <4>1. ASSUME NEW r \in rows PROVE to[r] = n <=> <<r.name>> = n
          <5>1. n # <<Other>>
            BY <1>8
          <5> QED BY <1>9, <5>1
        <4>2. In(rows, to, mine[n]) = {r \in rows : to[r] = n}
          BY <1>6 DEF In
        <4> HIDE DEF own
        <4> QED BY <4>1, <4>2
      <3>2. Of(n) \in SUBSET rows
        OBVIOUS
      <3> HIDE DEF Of
      <3> QED BY <1>6, <2>1, <3>1, <3>2
    <2>3. remainder.value = Total(In(rows, to, remainder), count)
      <3>1. In(rows, to, remainder) = rest
        BY <1>7, <1>8, <1>9, <1>10, <1>11 DEF In
      <3> QED BY <1>7, <1>11, <2>1, <3>1
    <2> QED BY <2>2, <2>3
  <1>14. ValueOf(points) = Total(rows, count)
    <2> HIDE DEF points, count
    <2> QED BY <1>2, <1>3, <1>12, <1>13, SortedValues
  <1>15. Cardinality(points) \in Nat /\ Cardinality(points) <= Cardinality(own) + 1
    <2>1. points \subseteq {mine[n] : n \in own} \cup {remainder}
      OBVIOUS
    <2> HIDE DEF points
    <2> QED BY <1>5, <2>1, KeysAndRest
  <1>16. \A p \in points : p.gauge = "requests"
    <2>1. ASSUME NEW p \in points PROVE p.gauge = "requests"
      <3>1. (\E n \in own : p = mine[n]) \/ p = remainder
        OBVIOUS
      <3> HIDE DEF points
      <3> QED BY <1>6, <1>7, <3>1
    <2> QED BY <2>1
  <1>17. Cardinality(points) <= budget
    <2> HIDE DEF points
    <2> QED BY <1>5, <1>15
  <1> HIDE DEF points
  <1> QED BY <1>1, <1>14, <1>15, <1>16, <1>17 DEF count, rows

PoolFine(w) == {i \in {i \in w.items : i.answer # "failed"} : i.answer = "ok"}
PoolRest(fine, slots) == {i \in fine : <<i.name>> \notin slots}
PoolOwn(i) == Point("health", <<i.name>>, i.value, 1)
PoolLeft(rest) == Point("health", <<Other>>, LeastHealth(Values(rest)), Cardinality(rest))
PoolSeries(i) == {<<i.name>>}

HealthPoints(fine, slots) ==
  {PoolOwn(i) : i \in fine \ PoolRest(fine, slots)} \cup
  (IF PoolRest(fine, slots) = {} THEN {} ELSE {PoolLeft(PoolRest(fine, slots))})

LEMMA PoolPointsAre ==
  ASSUME NEW w, Pools(w).ok
  PROVE  LET fine == PoolFine(w)
             slots == Slots(admittedTo, {<<i.name>> : i \in {i \in fine : i.name # Other}}, SeriesCap - 1)
             health == HealthPoints(fine, slots)
         IN  /\ Pools(w).points = health \cup PoolRequests(w, SeriesCap - Cardinality(health))
             /\ Pools(w).admitted = slots
             /\ \A i, o \in w.items : i.name = o.name => i = o
  <1> DEFINE fine == PoolFine(w)
             slots == Slots(admittedTo, {<<i.name>> : i \in {i \in fine : i.name # Other}}, SeriesCap - 1)
             health == HealthPoints(fine, slots)
             points == health \cup PoolRequests(w, SeriesCap - Cardinality(health))
             twice == \/ \E i, o \in w.items : i # o /\ (i.id = o.id \/ i.name = o.name)
                      \/ w.items # {} /\ {i \in w.items : i.answer # "failed"} = {}
                      \/ w.items # {} /\ \E z \in DOMAIN w.zones : w.zones[z] = "fail"
  <1>1. Pools(w) = IF twice THEN NoSnapshot ELSE Snapshot(points, slots)
    BY DEF Pools, PoolFine, HealthPoints, PoolRest, PoolOwn, PoolLeft
  <1>2. ~twice /\ Pools(w) = Snapshot(points, slots)
    <2> HIDE DEF twice, points, slots
    <2> QED BY <1>1 DEF NoSnapshot
  <1>3. Pools(w).points = points /\ Pools(w).admitted = slots
    <2> HIDE DEF twice, points, slots
    <2> QED BY <1>2 DEF Snapshot
  <1>4. \A i, o \in w.items : i.name = o.name => i = o
    BY <1>2
  <1> HIDE DEF twice
  <1> QED BY <1>3, <1>4

HealthUp(health, fine) ==
  /\ CountOf(health) = Cardinality(fine)
  /\ fine # {} => Min({p.value : p \in health}) = Min(Values(fine))
  /\ Cardinality(health) \in Nat /\ Cardinality(health) <= SeriesCap
  /\ \A p \in health : p.gauge = "health"

\* Every pool that answered is counted once, and the worst of them is seen.
LEMMA HealthRight ==
  ASSUME NEW w \in PollWorlds, NEW fine \in SUBSET w.items, \A i, o \in fine : i.name = o.name => i = o,
         NEW slots, Holding(slots, 1, SeriesCap - 1), SeriesCap \in Nat
  PROVE  HealthUp(HealthPoints(fine, slots), fine)
  <1> DEFINE rest == PoolRest(fine, slots)
             remainder == PoolLeft(rest)
             owns == {PoolOwn(i) : i \in fine \ rest}
             lefts == IF rest = {} THEN {} ELSE {remainder}
             points == owns \cup lefts
             to == [i \in fine |-> IF <<i.name>> \in slots THEN <<i.name>> ELSE <<Other>>]
             h == [s \in slots |-> CHOOSE p \in owns : p.series = s]
             least == Min(Values(fine))
  <1>1. HealthPoints(fine, slots) = points
    BY DEF HealthPoints
  <1>2. /\ IsFiniteSet(fine) /\ \A i \in fine : i.name \in Nat /\ i.value \in Nat
    BY CatalogAssumption, FS_Subset
  <1>3. rest \subseteq fine /\ \A i \in fine : i \in rest <=> <<i.name>> \notin slots
    BY DEF PoolRest
  <1>4. \A i \in fine : to[i] = IF <<i.name>> \in slots THEN <<i.name>> ELSE <<Other>>
    OBVIOUS
  <1>5. \A i \in fine : /\ PoolOwn(i).series = <<i.name>> /\ PoolOwn(i).gauge = "health"
                        /\ PoolOwn(i).value = i.value /\ PoolOwn(i).count = 1
    BY DEF PoolOwn, Point
  <1>6. /\ remainder.series = <<Other>> /\ remainder.gauge = "health"
        /\ remainder.value = Min(Values(rest)) /\ remainder.count = Cardinality(rest)
    BY DEF PoolLeft, Point, LeastHealth
  <1>7. \A s \in slots : s # <<Other>>
    <2>1. <<Other>>[1] = Other
      OBVIOUS
    <2> QED BY <2>1 DEF Holding
  <1>8. \A i, o \in fine : <<i.name>> = <<o.name>> => i = o
    <2>1. ASSUME NEW x, NEW y, <<x>> = <<y>> PROVE x = y
      BY <2>1
    <2> QED BY <2>1
  <1> HIDE DEF rest, remainder, to, h, least
  <1>9. ASSUME NEW p \in points
        PROVE  (\E i \in fine : <<i.name>> \in slots /\ p = PoolOwn(i)) \/ (rest # {} /\ p = remainder)
    BY <1>3
  <1>10. /\ \A i \in fine : <<i.name>> \in slots => PoolOwn(i) \in owns
         /\ rest # {} => remainder \in points
    BY <1>3
  <1>11. owns \subseteq points
    OBVIOUS
  <1>12. \A p \in owns : \E i \in fine : <<i.name>> \in slots /\ p = PoolOwn(i)
    BY <1>3
  <1>13. points \subseteq owns \cup {remainder}
    OBVIOUS
  <1> HIDE DEF owns, points
  <1>14. ASSUME NEW p \in owns, NEW q \in owns, p.series = q.series PROVE p = q
    <2>1. PICK i \in fine : p = PoolOwn(i)
      BY <1>12
    <2>2. PICK o \in fine : q = PoolOwn(o)
      BY <1>12
    <2>3. i = o
      BY <1>5, <1>8, <1>14, <2>1, <2>2
    <2> QED BY <2>1, <2>2, <2>3
  <1>15. Sorts(fine, points, to)
    <2>1. ASSUME NEW i \in fine PROVE \E p \in points : p.series = to[i]
      <3>1. CASE <<i.name>> \in slots
        BY <1>4, <1>5, <1>10, <1>11, <3>1
      <3>2. CASE <<i.name>> \notin slots
        <4>1. remainder \in points
          BY <1>3, <1>10, <3>2
        <4> QED BY <1>4, <1>6, <3>2, <4>1
      <3> QED BY <3>1, <3>2
    <2>2. ASSUME NEW p \in points PROVE \E i \in fine : p.series = to[i]
      <3>1. CASE \E i \in fine : <<i.name>> \in slots /\ p = PoolOwn(i)
        BY <1>4, <1>5, <3>1
      <3>2. CASE rest # {} /\ p = remainder
        <4>1. PICK i \in rest : TRUE
          BY <3>2
        <4> QED BY <1>3, <1>4, <1>6, <3>2, <4>1
      <3> QED BY <1>9, <3>1, <3>2
    <2>3. ASSUME NEW p \in points, NEW q \in points, p.series = q.series PROVE p = q
      <3>1. \A x \in points : x.series \in slots => x \in owns
        <4> TAKE x \in points
        <4>1. x = remainder => x.series \notin slots
          BY <1>6, <1>7
        <4> QED BY <1>9, <1>10, <4>1
      <3>2. \A x \in points : x.series \notin slots => x = remainder
        BY <1>5, <1>9
      <3>3. CASE p.series \in slots
        BY <1>14, <2>3, <3>1, <3>3
      <3>4. CASE p.series \notin slots
        BY <2>3, <3>2, <3>4
      <3> QED BY <3>3, <3>4
    <2> QED BY <2>1, <2>2, <2>3 DEF Sorts
  <1>16. \A p \in points : p.count = Cardinality(In(fine, to, p))
    <2>1. ASSUME NEW i \in fine, <<i.name>> \in slots
          PROVE  PoolOwn(i).count = Cardinality(In(fine, to, PoolOwn(i)))
      <3>1. In(fine, to, PoolOwn(i)) = {i}
        <4>1. ASSUME NEW o \in fine PROVE to[o] = PoolOwn(i).series <=> o = i
          BY <1>4, <1>5, <1>7, <1>8, <2>1
        <4> QED BY <4>1 DEF In
      <3>2. Cardinality({i}) = 1
        BY FS_Singleton
      <3> QED BY <1>5, <3>1, <3>2
    <2>2. remainder.count = Cardinality(In(fine, to, remainder))
      <3>1. In(fine, to, remainder) = rest
        <4>1. ASSUME NEW o \in fine PROVE to[o] = remainder.series <=> o \in rest
          BY <1>3, <1>4, <1>6, <1>7
        <4> QED BY <1>3, <4>1 DEF In
      <3> QED BY <1>6, <3>1
    <2> QED BY <1>9, <2>1, <2>2
  <1>17. CountOf(points) = Cardinality(fine)
    BY <1>2, <1>15, <1>16, SortedCounts
  <1>18. ASSUME fine # {} PROVE Min({p.value : p \in points}) = least
    <2> DEFINE values == {p.value : p \in points}
    <2>1. /\ Values(fine) \in SUBSET Nat /\ IsFiniteSet(Values(fine)) /\ Values(fine) # {}
          /\ \A i \in fine : i.value \in Values(fine)
      BY <1>18, ValuesOf
    <2>2. least \in Values(fine) /\ \A x \in Values(fine) : least <= x
      BY <2>1, Extremes DEF least
    <2>3. ASSUME rest # {}
          PROVE  /\ Min(Values(rest)) \in Values(fine)
                 /\ \A i \in rest : Min(Values(rest)) <= i.value
      <3>1. rest \in SUBSET w.items
        BY <1>3
      <3>2. /\ Values(rest) \in SUBSET Nat /\ IsFiniteSet(Values(rest)) /\ Values(rest) # {}
            /\ \A i \in rest : i.value \in Values(rest)
        BY <2>3, <3>1, ValuesOf
      <3>3. Values(rest) \subseteq Values(fine)
        BY <1>3 DEF Values
      <3>4. Min(Values(rest)) \in Values(rest) /\ \A x \in Values(rest) : Min(Values(rest)) <= x
        BY <3>2, Extremes
      <3> QED BY <3>2, <3>3, <3>4
    <2>4. \A p \in points : p.value \in Values(fine)
      BY <1>5, <1>6, <1>9, <2>1, <2>3
    <2>5. PICK i \in fine : i.value = least
      BY <2>2 DEF Values
    <2>6. \E p \in points : p.value = least
      <3>1. CASE <<i.name>> \in slots
        BY <1>5, <1>10, <1>11, <2>5, <3>1
      <3>2. CASE <<i.name>> \notin slots
        <4>1. i \in rest
          BY <1>3, <3>2
        <4>2. Min(Values(rest)) <= least /\ least <= Min(Values(rest))
          BY <2>2, <2>3, <2>5, <4>1
        <4>3. Min(Values(rest)) \in Nat /\ least \in Nat
          BY <2>1, <2>2, <2>3, <4>1
        <4>4. Min(Values(rest)) = least
          BY <4>2, <4>3
        <4> QED BY <1>6, <1>10, <4>1, <4>4
      <3> QED BY <3>1, <3>2
    <2>7. values \subseteq Values(fine) /\ least \in values
      BY <2>4, <2>6
    <2> HIDE DEF values
    <2>8. values \in SUBSET Nat /\ IsFiniteSet(values) /\ values # {}
      BY <2>1, <2>7, FS_Subset
    <2>9. Min(values) \in values /\ \A x \in values : Min(values) <= x
      BY <2>8, Extremes
    <2>10. Min(values) <= least /\ least <= Min(values)
      BY <2>2, <2>7, <2>9
    <2>11. Min(values) \in Nat /\ least \in Nat
      BY <2>8, <2>7, <2>9
    <2>12. Min(values) = least
      BY <2>10, <2>11
    <2> QED BY <2>12 DEF values
  <1>19. Cardinality(points) \in Nat /\ Cardinality(points) <= SeriesCap
    <2> DEFINE named == {h[s] : s \in slots}
    <2>1. owns \subseteq named
      <3>1. ASSUME NEW p \in owns PROVE p \in named
        <4>1. p.series \in slots
          BY <1>5, <1>12
        <4>2. h[p.series] = CHOOSE q \in owns : q.series = p.series
          BY <4>1 DEF h
        <4>3. h[p.series] = p
          BY <1>14, <4>2
        <4> QED BY <4>1, <4>3
      <3> QED BY <3>1
    <2>2. points \subseteq {h[s] : s \in slots} \cup {remainder}
      BY <1>13, <2>1
    <2>3. IsFiniteSet(slots) /\ Cardinality(slots) \in Nat /\ Cardinality(slots) <= SeriesCap - 1
      BY DEF Holding, Keyed
    <2>4. Cardinality(points) \in Nat /\ Cardinality(points) <= Cardinality(slots) + 1
      <3>1. IsFiniteSet(slots)
        BY <2>3
      <3> HIDE DEF named
      <3> QED BY ONLY <2>2, <3>1, KeysAndRest, Zenon
    <2> QED BY <2>3, <2>4
  <1>20. \A p \in points : p.gauge = "health"
    BY <1>5, <1>6, <1>9
  <1> QED BY <1>1, <1>17, <1>18, <1>19, <1>20 DEF HealthUp, least

PoolsUp(points, w) ==
  /\ CountOf(Gauged(points, "health")) = Cardinality(Fine(w.items))
  /\ Fine(w.items) # {} => Min({p.value : p \in Gauged(points, "health")}) = Min(Values(Fine(w.items)))
  /\ w.items # {} /\ Cardinality(Gauged(points, "health")) < SeriesCap =>
       ValueOf(Gauged(points, "requests")) = Total(RowsOf(w), [r \in RowsOf(w) |-> r.count])
  /\ Cardinality(Gauged(points, "health")) + Cardinality(Gauged(points, "requests")) <= SeriesCap

\* A poll of pools adds up, its requests within what its health leaves.
LEMMA PoolsRight ==
  ASSUME NEW w \in PollWorlds, Pools(w).ok, SeriesCap \in Nat \ {0}, Holding(admittedTo, 1, SeriesCap - 1)
  PROVE  /\ PoolsUp(Pools(w).points, w)
         /\ Holding(Pools(w).admitted, 1, SeriesCap - 1) /\ admittedTo \subseteq Pools(w).admitted
         /\ NamedBySlots(Pools(w).points, Fine(w.items), "health", Pools(w).admitted, PoolSeries)
  <1> DEFINE fine == PoolFine(w)
             named == {i \in fine : i.name # Other}
             wanted == {<<i.name>> : i \in named}
             slots == Slots(admittedTo, wanted, SeriesCap - 1)
             health == HealthPoints(fine, slots)
             budget == SeriesCap - Cardinality(health)
             requests == PoolRequests(w, budget)
             points == Pools(w).points
  <1>1. /\ points = health \cup requests /\ Pools(w).admitted = slots
        /\ \A i, o \in w.items : i.name = o.name => i = o
    BY PoolPointsAre
  <1>2. fine = Fine(w.items) /\ fine \subseteq w.items
    BY DEF PoolFine, Fine
  <1> HIDE DEF fine
  <1>3. IsFiniteSet(fine) /\ \A i \in fine : i.name \in Nat
    BY <1>2, CatalogAssumption, FS_Subset
  <1>4. Keyed(wanted, 1) /\ \A n \in wanted : n[1] # Other
    <2> DEFINE f == [i \in named |-> i.name]
               T == {f[i] : i \in named}
    <2>1. IsFiniteSet(named)
      BY <1>3, FS_Subset
    <2>2. wanted = {<<x>> : x \in T}
      <3>1. \A i \in named : f[i] = i.name
        OBVIOUS
      <3> HIDE DEF f, named
      <3> QED BY <3>1
    <2>3. \A x \in T : x \in Nat
      BY <1>3
    <2>4. \A n \in wanted : n[1] # Other
      OBVIOUS
    <2> HIDE DEF f, named, wanted
    <2>5. IsFiniteSet(T)
      BY <2>1, FiniteValues
    <2> HIDE DEF T
    <2>6. Keyed({<<x>> : x \in T}, 1)
      BY <2>3, <2>5, OneKeys
    <2> QED BY <2>2, <2>4, <2>6
  <1> HIDE DEF named, wanted
  <1>5. Holding(slots, 1, SeriesCap - 1) /\ admittedTo \subseteq slots
    <2>1. SeriesCap - 1 \in Nat
      OBVIOUS
    <2> QED BY <1>4, <2>1, SlotsHeld
  <1> HIDE DEF slots
  <1>6. HealthUp(health, fine)
    <2>1. fine \in SUBSET w.items /\ \A i, o \in fine : i.name = o.name => i = o
      BY <1>1, <1>2
    <2> HIDE DEF health
    <2> QED BY <1>5, <2>1, HealthRight DEF health
  <1>7. \A p \in health : p.gauge = "health"
    BY <1>6 DEF HealthUp
  <1>8. NamedBySlots(health, fine, "health", slots, PoolSeries)
    <2>1. ASSUME NEW i \in fine, NEW s \in PoolSeries(i) \cap slots
          PROVE  \E p \in health : p.gauge = "health" /\ p.series = s
      <3>1. s = <<i.name>> /\ <<i.name>> \in slots
        BY DEF PoolSeries
      <3>2. PoolOwn(i) \in health
        BY <3>1 DEF HealthPoints, PoolRest
      <3>3. PoolOwn(i).gauge = "health" /\ PoolOwn(i).series = <<i.name>>
        BY DEF PoolOwn, Point
      <3> QED BY <3>1, <3>2, <3>3
    <2>2. ASSUME NEW p \in health, p.series[1] # Other PROVE p.series \in slots
      <3>1. CASE \E i \in fine \ PoolRest(fine, slots) : p = PoolOwn(i)
        BY <3>1 DEF PoolRest, PoolOwn, Point
      <3>2. CASE p = PoolLeft(PoolRest(fine, slots))
        BY <2>2, <3>2 DEF PoolLeft, Point
      <3> QED BY <3>1, <3>2 DEF HealthPoints
    <2> HIDE DEF health
    <2> QED BY <1>7, <2>1, <2>2 DEF NamedBySlots
  <1> HIDE DEF health
  <1>9. /\ Cardinality(health) \in Nat /\ Cardinality(health) <= SeriesCap
        /\ CountOf(health) = Cardinality(fine)
        /\ fine # {} => Min({p.value : p \in health}) = Min(Values(fine))
    BY <1>6 DEF HealthUp
  <1>10. budget \in Int /\ (budget >= 1 <=> Cardinality(health) < SeriesCap)
    BY <1>9
  <1> HIDE DEF budget
  <1>11. /\ \A p \in requests : p.gauge = "requests"
         /\ w.items # {} /\ budget >= 1 => ValueOf(requests) = Total(RowsOf(w), [r \in RowsOf(w) |-> r.count])
         /\ Cardinality(requests) \in Nat /\ Cardinality(requests) <= budget
    <2>1. CASE w.items # {} /\ budget >= 1
      BY <1>10, <2>1, RequestsRight
    <2>2. CASE w.items = {} \/ budget < 1
      <3>1. requests = {}
        BY <2>2 DEF PoolRequests
      <3>2. Cardinality(requests) = 0
        BY <3>1, FS_EmptySet
      <3>3. budget >= 0
        BY <1>9 DEF budget
      <3>4. ~(w.items # {} /\ budget >= 1)
        BY <1>10, <2>2
      <3> HIDE DEF requests
      <3>5. \A p \in requests : p.gauge = "requests"
        BY <3>1
      <3> QED BY <1>10, <3>2, <3>3, <3>4, <3>5
    <2> QED BY <1>10, <2>1, <2>2
  <1> HIDE DEF requests
  <1>12. Gauged(points, "health") = health /\ Gauged(points, "requests") = requests
    <2>1. "health" # "requests"
      OBVIOUS
    <2> HIDE DEF points
    <2> QED BY <1>1, <1>7, <1>11, <2>1 DEF Gauged
  <1>13. Cardinality(health) + Cardinality(requests) <= SeriesCap
    BY <1>9, <1>11 DEF budget
  <1>14. NamedBySlots(points, fine, "health", slots, PoolSeries)
    <2> HIDE DEF points
    <2>1. \A p \in points : p.gauge \in {"dex", "health"} => p \in health
      BY <1>1, <1>11
    <2>2. health \subseteq points
      BY <1>1
    <2>3. \A p \in points : p.gauge \in {"dex", "health"} => p.gauge = "health"
      BY <1>7, <2>1
    <2>4. \A p \in points : p.gauge = "health" => p \in health
      BY <2>1
    <2> QED BY <1>8, <2>2, <2>3, <2>4 DEF NamedBySlots
  <1> HIDE DEF points
  <1>15. PoolsUp(points, w)
    BY <1>2, <1>9, <1>10, <1>11, <1>12, <1>13 DEF PoolsUp
  <1> QED BY <1>1, <1>2, <1>5, <1>14, <1>15 DEF points

-----------------------------------------------------------------------------
(* Publications. *)

\* What a snapshot of each collector must satisfy, and the slots it leaves.
UpOf(kind, points, w) ==
  /\ kind = "certs.packs" => CertsUp(points, w)
  /\ kind = "warp.fleet" => DevicesUp(points, w)
  /\ kind = "statuspage.components" => ComponentsUp(points, w)
  /\ kind = "dex.tests" => DEXUp(points, w)
  /\ kind = "lb.health" => PoolsUp(points, w)
SlotsOf(kind, slots) ==
  /\ kind = "dex.tests" => Holding(slots, 3, SeriesCap - Reserve)
  /\ kind = "lb.health" => Holding(slots, 1, SeriesCap - 1)
ShownAs(kind, points, w, slots) ==
  /\ kind = "dex.tests" => NamedBySlots(points, Fine(w.items), "dex", slots, DEXSeries)
  /\ kind = "lb.health" => NamedBySlots(points, Fine(w.items), "health", slots, PoolSeries)

\* The inductive invariant: what is shown adds up, the slots are held within
\* their limit, every name ever shown has one, and no fine item with a slot is
\* left to a remainder.
PollsInv ==
  /\ polled \in PollKinds
  /\ SlotsOf(polled, admittedTo)
  /\ polled \in {"dex.tests", "lb.health"} => everNamed \subseteq admittedTo
  /\ ShownAs(polled, shown, shownOf, admittedTo)
  /\ UpOf(polled, shown, shownOf)

\* A snapshot taken with the slots of the invariant keeps to it.
LEMMA SnapshotRight ==
  ASSUME NEW w \in PollWorlds, PollsInv, SnapshotOf(w).ok
  PROVE  LET s == SnapshotOf(w)
         IN  /\ UpOf(polled, s.points, w) /\ SlotsOf(polled, s.admitted)
             /\ ShownAs(polled, s.points, w, s.admitted)
             /\ polled \in {"dex.tests", "lb.health"} => admittedTo \subseteq s.admitted
  <1> DEFINE s == SnapshotOf(w)
  <1>1. CASE polled = "certs.packs"
    <2>1. s = CertPacks(w)
      BY <1>1 DEF SnapshotOf
    <2>2. CertsUp(s.points, w)
      BY <2>1, CertsRight
    <2> QED BY <1>1, <2>2 DEF UpOf, SlotsOf, ShownAs
  <1>2. CASE polled = "warp.fleet"
    <2>1. s = Devices(w)
      BY <1>2 DEF SnapshotOf
    <2>2. DevicesUp(s.points, w)
      BY <2>1, DevicesRight
    <2> QED BY <1>2, <2>2 DEF UpOf, SlotsOf, ShownAs
  <1>3. CASE polled = "statuspage.components"
    <2>1. s = Components(w)
      BY <1>3 DEF SnapshotOf
    <2>2. ComponentsUp(s.points, w)
      BY <2>1, ComponentsRight
    <2> QED BY <1>3, <2>2 DEF UpOf, SlotsOf, ShownAs
  <1>4. CASE polled = "dex.tests"
    <2>1. s = DEXTests(w)
      BY <1>4 DEF SnapshotOf
    <2>2. SeriesCap \in Nat /\ SeriesCap >= Reserve /\ Holding(admittedTo, 3, SeriesCap - Reserve)
      BY <1>4, PollAssumption DEF PollsInv, SlotsOf
    <2>3. /\ DEXUp(s.points, w) /\ Holding(s.admitted, 3, SeriesCap - Reserve) /\ admittedTo \subseteq s.admitted
          /\ NamedBySlots(s.points, Fine(w.items), "dex", s.admitted, DEXSeries)
      BY <2>1, <2>2, DEXRight
    <2> QED BY <1>4, <2>3 DEF UpOf, SlotsOf, ShownAs
  <1>5. CASE polled = "lb.health"
    <2>1. s = Pools(w)
      BY <1>5 DEF SnapshotOf
    <2>2. SeriesCap \in Nat \ {0} /\ Holding(admittedTo, 1, SeriesCap - 1)
      BY <1>5, PollAssumption DEF PollsInv, SlotsOf
    <2>3. /\ PoolsUp(s.points, w) /\ Holding(s.admitted, 1, SeriesCap - 1) /\ admittedTo \subseteq s.admitted
          /\ NamedBySlots(s.points, Fine(w.items), "health", s.admitted, PoolSeries)
      BY <2>1, <2>2, PoolsRight
    <2> QED BY <1>5, <2>3 DEF UpOf, SlotsOf, ShownAs
  <1> QED BY <1>1, <1>2, <1>3, <1>4, <1>5, PollAssumption DEF PollsInv

\* Before a first snapshot there is nothing to add up.
LEMMA NothingShown ==
  ASSUME NEW w, w.items = {}, w.rows = {}, NEW kind \in PollKinds
  PROVE  UpOf(kind, {}, w) /\ SlotsOf(kind, {}) /\ ShownAs(kind, {}, w, {})
  <1>1. CountOf({}) = 0 /\ ValueOf({}) = 0 /\ Cardinality({}) = 0 /\ IsFiniteSet({})
    BY TotalEmpty, FS_EmptySet DEF CountOf, ValueOf
  <1>2. Fine(w.items) = {} /\ \A gauge : Gauged({}, gauge) = {}
    BY DEF Fine, Gauged
  <1>3. SeriesCap \in Nat \ {0} /\ (kind = "dex.tests" => SeriesCap >= Reserve)
    BY PollAssumption
  <1>4. CertsUp({}, w)
    <2> DEFINE packs == {i \in w.items : w.zones[i.zone] # "none"}
    <2>1. packs = {} /\ Fine(packs) = {}
      BY DEF Fine
    <2> HIDE DEF packs
    <2> QED BY <1>1, <1>2, <2>1 DEF CertsUp, packs
  <1>5. DevicesUp({}, w)
    <2> DEFINE ids == {i.id : i \in w.items}
    <2>1. ids = {}
      OBVIOUS
    <2>2. Cardinality(ids) = 0
      BY <1>1, <2>1
    <2> QED BY <1>1, <1>3, <2>2 DEF DevicesUp
  <1>6. ComponentsUp({}, w)
    BY <1>1, <1>3 DEF ComponentsUp
  <1>7. DEXUp({}, w)
    <2>1. ASSUME NEW m \in {1, 2, 3} PROVE MetricUp({}, {}, m)
      <3> DEFINE measured == {i \in {} : m \in MetricsOf(i.kind)}
                 of == {p \in {} : p.series[3] = m}
                 f == [i \in measured |-> i.value]
      <3>1. measured = {} /\ of = {}
        OBVIOUS
      <3>2. Total(measured, f) = 0 /\ Cardinality(measured) = 0
        <4> HIDE DEF measured, f
        <4> QED BY <1>1, <3>1, TotalEmpty
      <3> HIDE DEF measured, of, f
      <3>3. CountOf(of) = Cardinality(measured) /\ ValueOf(of) = Total(measured, f)
        BY <1>1, <3>1, <3>2
      <3> QED BY <3>3 DEF MetricUp, measured, of, f
    <2> QED BY <1>1, <1>2, <1>3, <2>1 DEF DEXUp
  <1>8. PoolsUp({}, w)
    BY <1>1, <1>2, <1>3 DEF PoolsUp
  <1>9. Keyed({}, 3) /\ Keyed({}, 1)
    BY <1>1 DEF Keyed
  <1>10. SlotsOf(kind, {})
    BY <1>1, <1>3, <1>9, FourReserved DEF SlotsOf, Holding
  <1>11. ShownAs(kind, {}, w, {})
    BY DEF ShownAs, NamedBySlots
  <1> QED BY <1>4, <1>5, <1>6, <1>7, <1>8, <1>10, <1>11 DEF UpOf

LEMMA PollsInvInit == PollsInit => PollsInv
  <1> SUFFICES ASSUME PollsInit PROVE PollsInv
    OBVIOUS
  <1> DEFINE w == [items |-> {}, zones |-> << >>, rows |-> {}]
  <1>1. polled \in PollKinds /\ admittedTo = {} /\ shown = {} /\ shownOf = w /\ everNamed = {}
    BY DEF PollsInit, PollsStart
  <1>2. w.items = {} /\ w.rows = {}
    OBVIOUS
  <1> HIDE DEF w
  <1>3. UpOf(polled, {}, w) /\ SlotsOf(polled, {}) /\ ShownAs(polled, {}, w, {})
    BY <1>1, <1>2, NothingShown
  <1> QED BY <1>1, <1>3 DEF PollsInv

LEMMA PollsInvStep == PollsInv /\ [PollsNext]_polling => PollsInv'
  <1> SUFFICES ASSUME PollsInv, [PollsNext]_polling PROVE PollsInv'
    OBVIOUS
  <1>1. ASSUME NEW w \in PollWorlds, Publication(w) PROVE PollsInv'
    <2> DEFINE s == SnapshotOf(w)
               fresh == {p.series : p \in {p \in s.points : p.gauge \in {"dex", "health"} /\ p.series[1] # Other}}
    <2>1. CASE UNCHANGED <<admittedTo, shown, shownOf, everNamed>>
      BY <1>1, <2>1 DEF Publication, PollsInv
    <2>2. CASE /\ s.ok /\ admittedTo' = s.admitted /\ shown' = s.points /\ shownOf' = w
               /\ everNamed' = everNamed \cup fresh
      <3>1. polled' = polled /\ polled \in PollKinds
        BY <1>1 DEF Publication, PollsInv
      <3>2. /\ UpOf(polled, s.points, w) /\ SlotsOf(polled, s.admitted) /\ ShownAs(polled, s.points, w, s.admitted)
            /\ polled \in {"dex.tests", "lb.health"} => admittedTo \subseteq s.admitted
        BY <2>2, SnapshotRight
      <3> HIDE DEF s
      <3>3. ASSUME polled \in {"dex.tests", "lb.health"} PROVE everNamed' \subseteq s.admitted
        <4>1. fresh \subseteq s.admitted
          BY <3>2, <3>3 DEF ShownAs, NamedBySlots
        <4>2. everNamed \subseteq s.admitted
          BY <3>2, <3>3 DEF PollsInv
        <4> HIDE DEF fresh
        <4> QED BY <2>2, <4>1, <4>2
      <3> HIDE DEF fresh
      <3> QED BY <2>2, <3>1, <3>2, <3>3 DEF PollsInv
    <2>3. (UNCHANGED <<admittedTo, shown, shownOf, everNamed>>) \/
            /\ s.ok /\ admittedTo' = s.admitted /\ shown' = s.points /\ shownOf' = w
            /\ everNamed' = everNamed \cup fresh
      BY <1>1 DEF Publication
    <2> QED BY <2>1, <2>2, <2>3
  <1>2. ASSUME RestartPolls PROVE PollsInv'
    <2> DEFINE w == [items |-> {}, zones |-> << >>, rows |-> {}]
    <2>1. polled' = polled /\ admittedTo' = {} /\ shown' = {} /\ shownOf' = w /\ everNamed' = {}
      BY <1>2 DEF RestartPolls
    <2>2. w.items = {} /\ w.rows = {} /\ polled \in PollKinds
      BY DEF PollsInv
    <2> HIDE DEF w
    <2>3. UpOf(polled, {}, w) /\ SlotsOf(polled, {}) /\ ShownAs(polled, {}, w, {})
      BY <2>2, NothingShown
    <2> QED BY <2>1, <2>2, <2>3 DEF PollsInv
  <1>3. CASE UNCHANGED polling
    BY <1>3 DEF polling, PollsInv
  <1> QED BY <1>1, <1>2, <1>3 DEF PollsNext

LEMMA PollsInvAddUp == PollsInv => PointsAddUp /\ NamesKept
  <1> SUFFICES ASSUME PollsInv PROVE PointsAddUp /\ NamesKept
    OBVIOUS
  <1>1. /\ Shown("pack") = Gauged(shown, "pack") /\ Shown("expiry") = Gauged(shown, "expiry")
        /\ Shown("health") = Gauged(shown, "health") /\ Shown("requests") = Gauged(shown, "requests")
    BY DEF Shown, Gauged
  <1>2. CASE polled = "certs.packs"
    <2>1. CertsUp(shown, shownOf)
      BY <1>2 DEF PollsInv, UpOf
    <2> QED BY <1>1, <1>2, <2>1 DEF PointsAddUp, NamesKept, CertsUp
  <1>3. CASE polled = "warp.fleet"
    <2>1. DevicesUp(shown, shownOf)
      BY <1>3 DEF PollsInv, UpOf
    <2> QED BY <1>3, <2>1 DEF PointsAddUp, NamesKept, DevicesUp
  <1>4. CASE polled = "statuspage.components"
    <2>1. ComponentsUp(shown, shownOf)
      BY <1>4 DEF PollsInv, UpOf
    <2> QED BY <1>4, <2>1 DEF PointsAddUp, NamesKept, ComponentsUp
  <1>5. polled \in {"dex.tests", "lb.health"} /\ Cardinality(admittedTo) < SeriesCap => Cardinality(everNamed) < SeriesCap
    <2> SUFFICES ASSUME polled \in {"dex.tests", "lb.health"}, Cardinality(admittedTo) < SeriesCap
                 PROVE  Cardinality(everNamed) < SeriesCap
      OBVIOUS
    <2>1. IsFiniteSet(admittedTo) /\ everNamed \subseteq admittedTo
      BY DEF PollsInv, SlotsOf, Holding, Keyed
    <2>2. IsFiniteSet(everNamed) /\ Cardinality(everNamed) <= Cardinality(admittedTo)
      BY <2>1, FS_Subset
    <2>3. Cardinality(everNamed) \in Nat /\ Cardinality(admittedTo) \in Nat
      BY <2>1, <2>2, FS_CardinalityType
    <2> QED BY <2>2, <2>3, PollAssumption
  <1>6. CASE polled = "dex.tests"
    <2>1. DEXUp(shown, shownOf) /\ NamedBySlots(shown, Fine(shownOf.items), "dex", admittedTo, DEXSeries)
      BY <1>6 DEF PollsInv, UpOf, ShownAs
    <2>2. Cardinality(admittedTo) <= SeriesCap - Reserve /\ Cardinality(admittedTo) \in Nat
      BY <1>6 DEF PollsInv, SlotsOf, Holding
    <2>3. Cardinality(everNamed) < SeriesCap
      BY <1>5, <1>6, <2>2, FourReserved, PollAssumption
    <2>4. \A i : SeriesOfItem(i) = DEXSeries(i)
      BY <1>6 DEF SeriesOfItem, DEXSeries
    <2>5. NamesKept
      BY <1>6, <2>1, <2>3, <2>4 DEF NamesKept, NamedBySlots, PollsInv
    <2>6. PointsAddUp
      BY <1>6, <2>1 DEF PointsAddUp, DEXUp, MetricUp
    <2> QED BY <2>5, <2>6
  <1>7. CASE polled = "lb.health"
    <2>1. PoolsUp(shown, shownOf) /\ NamedBySlots(shown, Fine(shownOf.items), "health", admittedTo, PoolSeries)
      BY <1>7 DEF PollsInv, UpOf, ShownAs
    <2>2. Cardinality(admittedTo) <= SeriesCap - 1 /\ Cardinality(admittedTo) \in Nat
      BY <1>7 DEF PollsInv, SlotsOf, Holding
    <2>3. Cardinality(everNamed) < SeriesCap
      BY <1>5, <1>7, <2>2, PollAssumption
    <2>4. \A i : SeriesOfItem(i) = PoolSeries(i)
      BY <1>7 DEF SeriesOfItem, PoolSeries
    <2>5. NamesKept
      BY <1>7, <2>1, <2>3, <2>4 DEF NamesKept, NamedBySlots, PollsInv
    <2>6. PointsAddUp
      BY <1>1, <1>7, <2>1 DEF PointsAddUp, PoolsUp, RowsOf
    <2> QED BY <2>5, <2>6
  <1> QED BY <1>2, <1>3, <1>4, <1>6, <1>7, PollAssumption DEF PollsInv

\* Whatever the catalogs, the caps and the failures, the points of a snapshot
\* account for everything its poll measured, keep to the limit of series, and
\* never lose a name to a remainder while the process lives (fleet.Collect,
\* componentCollector.Collect, testsCollector.Collect, healthCollector.Collect).
THEOREM PollsAlwaysAddUp == PollsSpec => []PollsAddUp
  <1>1. PollsInv => PollsAddUp
    BY PollsInvAddUp DEF PollsAddUp
  <1> QED BY <1>1, PollsInvInit, PollsInvStep, PTL DEF PollsSpec

-----------------------------------------------------------------------------
(* The filter of gauge snapshots: its loops. *)

\* What the start and every step keep in a set stays in it: numbers up to a
\* bound, since the least one outside would follow one inside.
LEMMA CountUp ==
  ASSUME NEW N \in Nat, NEW Good, 0 \in Good, \A n \in 0 .. N : n < N /\ n \in Good => n + 1 \in Good
  PROVE  \A n \in 0 .. N : n \in Good
  <1> DEFINE Bad == {n \in 0 .. N : n \notin Good}
  <1> SUFFICES ASSUME Bad # {} PROVE FALSE
    OBVIOUS
  <1>1. Bad \in SUBSET Nat
    OBVIOUS
  <1>2. PICK n \in Bad : \A m \in Bad : n <= m
    <2> HIDE DEF Bad
    <2> QED BY <1>1, LeastNumber
  <1>3. n \in 0 .. N /\ n \notin Good /\ n # 0
    BY <1>2
  <1>4. n - 1 \in 0 .. N /\ n - 1 < N /\ n - 1 + 1 = n /\ ~(n <= n - 1)
    BY <1>3
  <1>5. n - 1 \notin Bad
    <2> HIDE DEF Bad
    <2> QED BY <1>2, <1>4
  <1>6. n - 1 \in Good
    BY <1>4, <1>5
  <1>7. n - 1 + 1 \in Good
    BY <1>4, <1>6
  <1> QED BY <1>3, <1>4, <1>7

Stepping(step, N, X) == \A n \in 1 .. N : \A x \in X : step[n][x] \in X
IsRun(f, a, step, N, X) == f \in [0 .. N -> X] /\ f[0] = a /\ \A n \in 1 .. N : f[n] = step[n][f[n - 1]]

\* A loop has a run.
LEMMA Iterated ==
  ASSUME NEW N \in Nat, NEW X, NEW a \in X, NEW step, Stepping(step, N, X)
  PROVE  \E f : IsRun(f, a, step, N, X)
  <1> DEFINE Run(k, f) == f \in [0 .. k -> X] /\ f[0] = a /\ \A n \in 1 .. k : f[n] = step[n][f[n - 1]]
             Good == {k \in 0 .. N : \E f : Run(k, f)}
  <1>1. 0 \in Good
    <2> DEFINE f == [n \in 0 .. 0 |-> a]
    <2>1. Run(0, f)
      OBVIOUS
    <2> HIDE DEF Run, f
    <2> QED BY <2>1
  <1>2. ASSUME NEW k \in 0 .. N, k < N, k \in Good PROVE k + 1 \in Good
    <2>1. PICK f : Run(k, f)
      <3> HIDE DEF Run
      <3> QED BY <1>2
    <2> DEFINE x == step[k + 1][f[k]]
               g == [n \in 0 .. (k + 1) |-> IF n = k + 1 THEN x ELSE f[n]]
    <2>2. k + 1 \in 1 .. N /\ k \in 0 .. k /\ f[k] \in X
      BY <1>2, <2>1
    <2>3. x \in X
      BY <2>2 DEF Stepping
    <2>4. \A n \in 0 .. (k + 1) : g[n] = IF n = k + 1 THEN x ELSE f[n]
      OBVIOUS
    <2>5. g \in [0 .. (k + 1) -> X]
      <3>1. ASSUME NEW n \in 0 .. (k + 1) PROVE (IF n = k + 1 THEN x ELSE f[n]) \in X
        <4>1. n # k + 1 => n \in 0 .. k
          OBVIOUS
        <4> HIDE DEF x
        <4> QED BY <2>1, <2>3, <4>1
      <3> HIDE DEF x
      <3> QED BY <3>1
    <2> HIDE DEF g
    <2>6. g[0] = a
      BY <2>1, <2>4
    <2>7. ASSUME NEW n \in 1 .. (k + 1) PROVE g[n] = step[n][g[n - 1]]
      <3>1. CASE n = k + 1
        <4>1. n - 1 = k /\ k # k + 1 /\ k \in 0 .. (k + 1) /\ n \in 0 .. (k + 1)
          BY <3>1
        <4>2. g[k] = f[k]
          BY <2>4, <4>1
        <4> QED BY <2>4, <3>1, <4>1, <4>2
      <3>2. CASE n # k + 1
        <4>1. n \in 1 .. k /\ n \in 0 .. (k + 1) /\ n - 1 \in 0 .. (k + 1) /\ n - 1 # k + 1
          BY <3>2
        <4>2. g[n] = f[n] /\ g[n - 1] = f[n - 1]
          BY <2>4, <3>2, <4>1
        <4> QED BY <2>1, <4>1, <4>2
      <3> QED BY <3>1, <3>2
    <2>8. Run(k + 1, g) /\ k + 1 \in 0 .. N
      BY <2>2, <2>5, <2>6, <2>7
    <2> HIDE DEF Run
    <2> QED BY <2>8
  <1> HIDE DEF Good
  <1>3. N \in Good
    <2>1. \A n \in 0 .. N : n < N /\ n \in Good => n + 1 \in Good
      BY <1>2
    <2> QED BY <1>1, <2>1, CountUp
  <1> QED BY <1>3 DEF Good, IsRun

\* The run of a filter: Attrs goes through the attributes of a bag.
LEMMA AttrsRun ==
  ASSUME NEW A, NEW bag \in Seq(A)
  PROVE  \E out : /\ Attrs(bag) = out[Len(bag)] /\ out[0] = << >>
                  /\ \A n \in 1 .. Len(bag) : out[n] = WithAttr(out[n - 1], bag[n], Suppress(bag))
                  /\ \A n \in 0 .. Len(bag) : out[n] \in Seq(A)
  <1> DEFINE N == Len(bag)
             X == Seq(A)
             round(x, n) == WithAttr(x, bag[n], Suppress(bag))
             loop(f) == [n \in 0 .. N |-> IF n = 0 THEN << >> ELSE round(f[n - 1], n)]
             out == CHOOSE f : f = loop(f)
             step == [n \in 1 .. N |-> [x \in X |-> round(x, n)]]
  <1>1. Attrs(bag) = out[N]
    BY DEF Attrs
  <1>2. N \in Nat /\ << >> \in X /\ \A n \in 1 .. N : bag[n] \in A
    OBVIOUS
  <1>3. \A n \in 1 .. N : \A x \in X : round(x, n) \in X
    BY <1>2 DEF WithAttr
  <1>4. \A n \in 1 .. N : \A x \in X : step[n][x] = round(x, n)
    OBVIOUS
  <1> HIDE DEF round, step, N, X
  <1>5. Stepping(step, N, X)
    BY <1>3, <1>4 DEF Stepping
  <1>6. PICK f : IsRun(f, << >>, step, N, X)
    BY <1>2, <1>5, Iterated
  <1>7. f = loop(f)
    <2>1. ASSUME NEW n \in 0 .. N PROVE f[n] = IF n = 0 THEN << >> ELSE round(f[n - 1], n)
      <3>1. CASE n = 0
        BY <1>6, <3>1 DEF IsRun
      <3>2. CASE n # 0
        <4>1. n \in 1 .. N /\ n - 1 \in 0 .. N
          BY <1>2, <3>2
        <4> QED BY <1>4, <1>6, <3>2, <4>1 DEF IsRun
      <3> QED BY <3>1, <3>2
    <2>2. f = [n \in 0 .. N |-> f[n]]
      BY <1>6 DEF IsRun
    <2> QED BY <2>1, <2>2
  <1>8. out = loop(out)
    <2> HIDE DEF loop
    <2> QED BY <1>7
  <1> HIDE DEF out
  <1>9. out[0] = << >> /\ \A n \in 1 .. N : out[n] = round(out[n - 1], n)
    <2>1. \A n \in 0 .. N : out[n] = IF n = 0 THEN << >> ELSE round(out[n - 1], n)
      BY <1>8
    <2>2. 0 \in 0 .. N /\ \A n \in 1 .. N : n \in 0 .. N /\ n # 0
      BY <1>2
    <2> QED BY <2>1, <2>2
  <1>10. \A n \in 0 .. N : out[n] \in X
    <2> DEFINE Good == {n \in 0 .. N : out[n] \in X}
    <2>1. 0 \in Good
      BY <1>2, <1>9
    <2>2. ASSUME NEW n \in 0 .. N, n < N, n \in Good PROVE n + 1 \in Good
      <3>1. n + 1 \in 1 .. N /\ n + 1 \in 0 .. N /\ n + 1 - 1 = n
        BY <1>2, <2>2
      <3>2. out[n + 1] = round(out[n], n + 1)
        BY <1>9, <3>1
      <3> QED BY <1>3, <2>2, <3>1, <3>2
    <2> HIDE DEF Good
    <2>3. \A n \in 0 .. N : n \in Good
      BY <1>2, <2>1, <2>2, CountUp
    <2> QED BY <2>3 DEF Good
  <1> QED BY <1>1, <1>9, <1>10 DEF N, X, round

Through(p) == [value |-> p.value, bag |-> Attrs(p.bag)]

\* And FirstOfEach through the points of a gauge.
LEMMA PointsRun ==
  ASSUME NEW input, Len(input) \in Nat, NEW O, \A n \in 1 .. Len(input) : Through(input[n]) \in O
  PROVE  \E out : /\ FirstOfEach(input) = out[Len(input)] /\ out[0] = << >>
                  /\ \A n \in 1 .. Len(input) : out[n] = WithPoint(out[n - 1], input[n])
                  /\ \A n \in 0 .. Len(input) : out[n] \in Seq(O)
  <1> DEFINE N == Len(input)
             X == Seq(O)
             round(x, n) == WithPoint(x, input[n])
             loop(f) == [n \in 0 .. N |-> IF n = 0 THEN << >> ELSE round(f[n - 1], n)]
             out == CHOOSE f : f = loop(f)
             step == [n \in 1 .. N |-> [x \in X |-> round(x, n)]]
  <1>1. FirstOfEach(input) = out[N]
    BY DEF FirstOfEach
  <1>2. N \in Nat /\ << >> \in X
    OBVIOUS
  <1>3. \A n \in 1 .. N : \A x \in X : round(x, n) \in X
    BY DEF WithPoint, Through
  <1>4. \A n \in 1 .. N : \A x \in X : step[n][x] = round(x, n)
    OBVIOUS
  <1> HIDE DEF round, step, N, X
  <1>5. Stepping(step, N, X)
    BY <1>3, <1>4 DEF Stepping
  <1>6. PICK f : IsRun(f, << >>, step, N, X)
    BY <1>2, <1>5, Iterated
  <1>7. f = loop(f)
    <2>1. ASSUME NEW n \in 0 .. N PROVE f[n] = IF n = 0 THEN << >> ELSE round(f[n - 1], n)
      <3>1. CASE n = 0
        BY <1>6, <3>1 DEF IsRun
      <3>2. CASE n # 0
        <4>1. n \in 1 .. N /\ n - 1 \in 0 .. N
          BY <1>2, <3>2
        <4> QED BY <1>4, <1>6, <3>2, <4>1 DEF IsRun
      <3> QED BY <3>1, <3>2
    <2>2. f = [n \in 0 .. N |-> f[n]]
      BY <1>6 DEF IsRun
    <2> QED BY <2>1, <2>2
  <1>8. out = loop(out)
    <2> HIDE DEF loop
    <2> QED BY <1>7
  <1> HIDE DEF out
  <1>9. out[0] = << >> /\ \A n \in 1 .. N : out[n] = round(out[n - 1], n)
    <2>1. \A n \in 0 .. N : out[n] = IF n = 0 THEN << >> ELSE round(out[n - 1], n)
      BY <1>8
    <2>2. 0 \in 0 .. N /\ \A n \in 1 .. N : n \in 0 .. N /\ n # 0
      BY <1>2
    <2> QED BY <2>1, <2>2
  <1>10. \A n \in 0 .. N : out[n] \in X
    <2> DEFINE Good == {n \in 0 .. N : out[n] \in X}
    <2>1. 0 \in Good
      BY <1>2, <1>9
    <2>2. ASSUME NEW n \in 0 .. N, n < N, n \in Good PROVE n + 1 \in Good
      <3>1. n + 1 \in 1 .. N /\ n + 1 \in 0 .. N /\ n + 1 - 1 = n
        BY <1>2, <2>2
      <3>2. out[n + 1] = round(out[n], n + 1)
        BY <1>9, <3>1
      <3> QED BY <1>3, <2>2, <3>1, <3>2
    <2> HIDE DEF Good
    <2>3. \A n \in 0 .. N : n \in Good
      BY <1>2, <2>1, <2>2, CountUp
    <2> QED BY <2>3 DEF Good
  <1> QED BY <1>1, <1>9, <1>10 DEF N, X, round

-----------------------------------------------------------------------------
(* The last value of each key. *)

\* Of the first n attributes of a bag, a is the last of its key.
Latest(bag, n, a) == \E i \in 1 .. n : bag[i] = a /\ \A j \in 1 .. n : j > i => bag[j][1] # a[1]

\* The next attribute is the last of its key and replaces the one before.
LEMMA LatestGrows ==
  ASSUME NEW s, NEW t, NEW n \in Nat, NEW a, \A i \in 1 .. n : s[i] = t[i]
  PROVE  Latest(t, n + 1, a) <=> (a = t[n + 1] \/ (a[1] # t[n + 1][1] /\ Latest(s, n, a)))
  <1>1. ASSUME Latest(t, n + 1, a) PROVE a = t[n + 1] \/ (a[1] # t[n + 1][1] /\ Latest(s, n, a))
    <2>1. PICK i \in 1 .. (n + 1) : t[i] = a /\ \A j \in 1 .. (n + 1) : j > i => t[j][1] # a[1]
      BY <1>1 DEF Latest
    <2>2. CASE i = n + 1
      BY <2>1, <2>2
    <2>3. CASE i # n + 1
      <3>1. i \in 1 .. n /\ n + 1 \in 1 .. (n + 1) /\ n + 1 > i
        BY <2>3
      <3>2. s[i] = a /\ a[1] # t[n + 1][1]
        BY <2>1, <3>1
      <3>3. \A j \in 1 .. n : j > i => s[j][1] # a[1]
        BY <2>1
      <3> QED BY <3>1, <3>2, <3>3 DEF Latest
    <2> QED BY <2>2, <2>3
  <1>2. ASSUME a = t[n + 1] PROVE Latest(t, n + 1, a)
    <2>1. n + 1 \in 1 .. (n + 1) /\ \A j \in 1 .. (n + 1) : ~(j > n + 1)
      OBVIOUS
    <2> QED BY <1>2, <2>1 DEF Latest
  <1>3. ASSUME a[1] # t[n + 1][1], Latest(s, n, a) PROVE Latest(t, n + 1, a)
    <2>1. PICK i \in 1 .. n : s[i] = a /\ \A j \in 1 .. n : j > i => s[j][1] # a[1]
      BY <1>3 DEF Latest
    <2>2. i \in 1 .. (n + 1) /\ t[i] = a
      BY <2>1
    <2>3. ASSUME NEW j \in 1 .. (n + 1), j > i PROVE t[j][1] # a[1]
      <3>1. CASE j = n + 1
        BY <1>3, <3>1
      <3>2. CASE j # n + 1
        <4>1. j \in 1 .. n
          BY <3>2
        <4>2. s[j] = t[j] /\ s[j][1] # a[1]
          BY <2>1, <2>3, <4>1
        <4> QED BY <4>2
      <3> QED BY <3>1, <3>2
    <2> QED BY <2>2, <2>3 DEF Latest
  <1> QED BY <1>1, <1>2, <1>3

PairsOf(bag) == {<<k, SetOf(bag)[k]>> : k \in DOMAIN SetOf(bag)}

\* The set of a bag has the last attribute of each key.
LEMMA PairsAre ==
  ASSUME NEW A, NEW bag \in Seq(A), \A i \in 1 .. Len(bag) : bag[i] = <<bag[i][1], bag[i][2]>>
  PROVE  \A a : a \in PairsOf(bag) <=> Latest(bag, Len(bag), a)
  <1> DEFINE N == Len(bag)
             LastOf(i, k) == bag[i][1] = k /\ \A j \in 1 .. N : j > i => bag[j][1] # k
             at(k) == CHOOSE i \in 1 .. N : LastOf(i, k)
             keys == {bag[i][1] : i \in 1 .. N}
  <1>1. DOMAIN bag = 1 .. N /\ N \in Nat
    OBVIOUS
  <1>2. DOMAIN SetOf(bag) = keys /\ \A k \in keys : SetOf(bag)[k] = bag[at(k)][2]
    BY <1>1 DEF SetOf
  <1>3. ASSUME NEW k \in keys PROVE \E i \in 1 .. N : LastOf(i, k)
    <2> DEFINE T == {N - i : i \in {i \in 1 .. N : bag[i][1] = k}}
    <2>1. T \in SUBSET Nat /\ T # {}
      BY <1>1
    <2>2. PICK x \in T : \A y \in T : x <= y
      <3> HIDE DEF T
      <3> QED BY <2>1, LeastNumber
    <2>3. PICK i \in 1 .. N : x = N - i /\ bag[i][1] = k
      BY <2>2
    <2>4. ASSUME NEW j \in 1 .. N, j > i PROVE bag[j][1] # k
      <3>1. N - j < N - i
        BY <1>1, <2>4
      <3>2. N - j \notin T
        <4>1. ~(N - i <= N - j)
          BY <1>1, <3>1
        <4> HIDE DEF T
        <4> QED BY <2>2, <2>3, <4>1
      <3> QED BY <3>2
    <2> QED BY <2>3, <2>4
  <1>4. ASSUME NEW k \in keys PROVE at(k) \in 1 .. N /\ LastOf(at(k), k)
    <2>1. \E i \in 1 .. N : LastOf(i, k)
      BY <1>3
    <2> HIDE DEF LastOf
    <2> QED BY <2>1
  <1>5. ASSUME NEW a, a \in PairsOf(bag) PROVE Latest(bag, N, a)
    <2>1. PICK k \in keys : a = <<k, SetOf(bag)[k]>>
      BY <1>2, <1>5 DEF PairsOf
    <2>2. SetOf(bag)[k] = bag[at(k)][2] /\ at(k) \in 1 .. N /\ LastOf(at(k), k)
      BY <1>2, <1>4
    <2> HIDE DEF at
    <2>3. a = bag[at(k)] /\ a[1] = k
      BY <2>1, <2>2
    <2> QED BY <2>2, <2>3 DEF Latest
  <1>6. ASSUME NEW a, Latest(bag, N, a) PROVE a \in PairsOf(bag)
    <2>1. PICK i \in 1 .. N : bag[i] = a /\ \A j \in 1 .. N : j > i => bag[j][1] # a[1]
      BY <1>6 DEF Latest
    <2> DEFINE k == a[1]
    <2>2. k \in keys /\ LastOf(i, k)
      BY <2>1
    <2>3. at(k) \in 1 .. N /\ LastOf(at(k), k)
      BY <1>4, <2>2
    <2>4. SetOf(bag)[k] = bag[at(k)][2]
      BY <1>2, <2>2
    <2> HIDE DEF at
    <2>5. at(k) = i
      BY <1>1, <2>1, <2>2, <2>3
    <2>6. a = <<k, SetOf(bag)[k]>>
      BY <2>1, <2>4, <2>5
    <2> QED BY <1>2, <2>2, <2>6 DEF PairsOf
  <1> QED BY <1>5, <1>6

Paired(bag) == \A i \in 1 .. Len(bag) : bag[i] = <<bag[i][1], bag[i][2]>>
Drops(bag, k) == DropAttribute(k, Suppress(bag))

\* A filtered bag keeps what is not denied, and of each key that stays the last.
LEMMA AttrsExact ==
  ASSUME NEW A, NEW bag \in Seq(A), Paired(bag)
  PROVE  /\ Attrs(bag) \in Seq(A) /\ Paired(Attrs(bag))
         /\ ToSet(Attrs(bag)) = {a \in ToSet(bag) : ~Drops(bag, a[1])}
         /\ \A a : a \in PairsOf(Attrs(bag)) <=> a \in PairsOf(bag) /\ ~Drops(bag, a[1])
  <1> DEFINE N == Len(bag)
             Drop(k) == Drops(bag, k)
  <1>1. PICK out : /\ Attrs(bag) = out[N] /\ out[0] = << >>
                   /\ \A n \in 1 .. N : out[n] = WithAttr(out[n - 1], bag[n], Suppress(bag))
                   /\ \A n \in 0 .. N : out[n] \in Seq(A)
    BY AttrsRun
  <1>2. N \in Nat /\ DOMAIN bag = 1 .. N
    OBVIOUS
  <1> DEFINE Some(n) == {bag[i] : i \in {i \in 1 .. n : ~Drop(bag[i][1])}}
             Holds(n) == /\ ToSet(out[n]) = Some(n)
                         /\ \A a : Latest(out[n], Len(out[n]), a) <=> Latest(bag, n, a) /\ ~Drop(a[1])
             Good == {n \in 0 .. N : Holds(n)}
  <1> HIDE DEF Drop
  <1>3. 0 \in Good
    <2>1. Some(0) = {} /\ ToSet(<< >>) = {}
      BY DEF ToSet
    <2>2. \A a : ~Latest(<< >>, Len(<< >>), a) /\ ~Latest(bag, 0, a)
      BY DEF Latest
    <2>3. 0 \in 0 .. N
      BY <1>2
    <2>4. Holds(0)
      <3> HIDE DEF Some
      <3> QED BY <1>1, <2>1, <2>2
    <2> QED BY <2>3, <2>4
  <1>4. ASSUME NEW n \in 0 .. N, n < N, n \in Good PROVE n + 1 \in Good
    <2> DEFINE m == n + 1
               x == bag[m]
               o == out[n]
               p == out[m]
    <2>1. m \in 1 .. N /\ m \in 0 .. N /\ m - 1 = n /\ n \in Nat
      BY <1>2, <1>4
    <2>2. p = WithAttr(o, x, Suppress(bag)) /\ o \in Seq(A)
      BY <1>1, <2>1
    <2>3. ToSet(o) = Some(n) /\ \A a : Latest(o, Len(o), a) <=> Latest(bag, n, a) /\ ~Drop(a[1])
      BY <1>4
    <2>4. \A a : Latest(bag, m, a) <=> (a = x \/ (a[1] # x[1] /\ Latest(bag, n, a)))
      BY <2>1, LatestGrows
    <2>5. \A i \in 1 .. m : i \in 1 .. n \/ i = m
      BY <2>1
    <2>6. 1 .. n \subseteq 1 .. m /\ m \in 1 .. m
      BY <2>1
    <2>7. CASE Drop(x[1])
      <3>1. p = o
        BY <2>2, <2>7 DEF WithAttr, Drop, Drops
      <3>2. Some(m) = Some(n)
        BY <2>5, <2>6, <2>7
      <3>3. ASSUME NEW a PROVE Latest(bag, m, a) /\ ~Drop(a[1]) <=> Latest(bag, n, a) /\ ~Drop(a[1])
        BY <2>4, <2>7
      <3>4. Holds(m)
        <4> HIDE DEF Some, m
        <4> QED BY <2>3, <3>1, <3>2, <3>3
      <3> HIDE DEF Holds
      <3> QED BY <2>1, <3>4
    <2>8. CASE ~Drop(x[1])
      <3>1. p = Append(o, x)
        BY <2>2, <2>8 DEF WithAttr, Drop, Drops
      <3>2. Some(m) = Some(n) \cup {x}
        <4>1. Some(m) \subseteq Some(n) \cup {x}
          BY <2>5
        <4>2. Some(n) \subseteq Some(m)
          BY <2>6
        <4>3. x \in Some(m)
          BY <2>6, <2>8
        <4> HIDE DEF Some
        <4> QED BY <4>1, <4>2, <4>3
      <3>3. x \in A
        BY <2>1
      <3>4. /\ Len(o) \in Nat /\ Len(p) = Len(o) + 1 /\ p[Len(o) + 1] = x
            /\ \A i \in 1 .. Len(o) : o[i] = p[i]
            /\ DOMAIN o = 1 .. Len(o) /\ DOMAIN p = 1 .. (Len(o) + 1)
        <4> HIDE DEF o, p, x
        <4> QED BY <2>2, <3>1, <3>3
      <3> HIDE DEF Some, m, x, o, p
      <3>5. ToSet(p) = ToSet(o) \cup {x}
        <4>1. \A i \in 1 .. (Len(o) + 1) : i \in 1 .. Len(o) \/ i = Len(o) + 1
          BY <3>4
        <4>2. 1 .. Len(o) \subseteq 1 .. (Len(o) + 1) /\ Len(o) + 1 \in 1 .. (Len(o) + 1)
          BY <3>4
        <4> QED BY <3>4, <4>1, <4>2 DEF ToSet
      <3>6. \A a : Latest(p, Len(p), a) <=> (a = x \/ (a[1] # x[1] /\ Latest(o, Len(o), a)))
        <4>1. \A a : Latest(p, Len(o) + 1, a) <=> (a = p[Len(o) + 1] \/ (a[1] # p[Len(o) + 1][1] /\ Latest(o, Len(o), a)))
          BY <3>4, LatestGrows
        <4> QED BY <3>4, <4>1
      <3>7. ASSUME NEW a PROVE Latest(p, Len(p), a) <=> Latest(bag, m, a) /\ ~Drop(a[1])
        BY <2>3, <2>4, <2>8, <3>6
      <3>8. ToSet(p) = Some(m)
        BY <2>3, <3>2, <3>5
      <3>9. Holds(m)
        BY <3>7, <3>8 DEF p
      <3> HIDE DEF Holds
      <3> QED BY <2>1, <3>9 DEF m
    <2> QED BY <2>7, <2>8
  <1> HIDE DEF Good
  <1>5. N \in Good
    <2>1. \A n \in 0 .. N : n \in Good
      BY <1>2, <1>3, <1>4, CountUp
    <2> QED BY <1>2, <2>1
  <1>6. Holds(N)
    <2> HIDE DEF Holds
    <2> QED BY <1>5 DEF Good
  <1>7. Some(N) = {a \in ToSet(bag) : ~Drop(a[1])}
    BY <1>2 DEF ToSet
  <1> HIDE DEF Some
  <1>8. ToSet(Attrs(bag)) = {a \in ToSet(bag) : ~Drop(a[1])} /\ Attrs(bag) \in Seq(A)
    BY <1>1, <1>2, <1>6, <1>7
  <1>9. Paired(Attrs(bag))
    <2>1. ASSUME NEW i \in 1 .. Len(Attrs(bag)) PROVE Attrs(bag)[i] = <<Attrs(bag)[i][1], Attrs(bag)[i][2]>>
      <3>1. Attrs(bag)[i] \in ToSet(Attrs(bag))
        BY <1>8 DEF ToSet
      <3>2. Attrs(bag)[i] \in ToSet(bag)
        BY <1>8, <3>1
      <3>3. PICK j \in 1 .. N : Attrs(bag)[i] = bag[j]
        BY <1>2, <3>2 DEF ToSet
      <3>4. bag[j] = <<bag[j][1], bag[j][2]>>
        BY DEF Paired
      <3> QED BY <3>3, <3>4
    <2> QED BY <2>1 DEF Paired
  <1>10. ASSUME NEW a PROVE a \in PairsOf(Attrs(bag)) <=> a \in PairsOf(bag) /\ ~Drops(bag, a[1])
    <2>1. a \in PairsOf(bag) <=> Latest(bag, N, a)
      BY PairsAre DEF Paired
    <2>2. a \in PairsOf(Attrs(bag)) <=> Latest(Attrs(bag), Len(Attrs(bag)), a)
      BY <1>8, <1>9, PairsAre DEF Paired
    <2> QED BY <1>1, <1>6, <2>1, <2>2 DEF Drop
  <1> QED BY <1>8, <1>9, <1>10 DEF Drop

\* Bags with the same pairs are the same set.
LEMMA SetsOfPairs ==
  ASSUME NEW b, NEW c
  PROVE  SetOf(b) = SetOf(c) <=> PairsOf(b) = PairsOf(c)
  <1>1. SetOf(b) = SetOf(c) => PairsOf(b) = PairsOf(c)
    BY DEF PairsOf
  <1>2. ASSUME PairsOf(b) = PairsOf(c) PROVE SetOf(b) = SetOf(c)
    <2> DEFINE f == SetOf(b)
               g == SetOf(c)
    <2>1. f = [k \in DOMAIN f |-> f[k]] /\ g = [k \in DOMAIN g |-> g[k]]
      BY DEF SetOf
    <2>2. {<<k, f[k]>> : k \in DOMAIN f} = {<<k, g[k]>> : k \in DOMAIN g}
      BY <1>2 DEF PairsOf
    <2> HIDE DEF f, g
    <2>3. ASSUME NEW k \in DOMAIN f PROVE k \in DOMAIN g /\ g[k] = f[k]
      <3>1. PICK l \in DOMAIN g : <<k, f[k]>> = <<l, g[l]>>
        BY <2>2
      <3>2. k = l /\ f[k] = g[l]
        BY <3>1
      <3> QED BY <3>2
    <2>4. ASSUME NEW k \in DOMAIN g PROVE k \in DOMAIN f
      <3>1. PICK l \in DOMAIN f : <<k, g[k]>> = <<l, f[l]>>
        BY <2>2
      <3>2. k = l
        BY <3>1
      <3> QED BY <3>2
    <2>5. f = g
      BY <2>1, <2>3, <2>4
    <2> QED BY <2>5 DEF f, g
  <1> QED BY <1>1, <1>2

-----------------------------------------------------------------------------
(* The points of a gauge. *)

SeriesKey(p) == SetOf(Attrs(p.bag))
\* No point before has its series.
Leads(input, m) == \A l \in 1 .. (m - 1) : SeriesKey(input[l]) # SeriesKey(input[m])

\* The reduction keeps the first point of each series, in their order.
LEMMA FirstsExact ==
  ASSUME NEW input, Len(input) \in Nat,
         \A m \in 1 .. Len(input) : input[m].value \in Nat,
         \A l, m \in 1 .. Len(input) : l < m => input[l].value > input[m].value
  PROVE  LET o == FirstOfEach(input)
         IN  /\ o \in Seq({Through(input[m]) : m \in 1 .. Len(input)})
             /\ \A i \in 1 .. Len(o) : \E m \in 1 .. Len(input) : Leads(input, m) /\ o[i] = Through(input[m])
             /\ \A m \in 1 .. Len(input) : Leads(input, m) => \E i \in 1 .. Len(o) : o[i] = Through(input[m])
             /\ \A i, j \in 1 .. Len(o) : i < j => o[i].value > o[j].value
  <1> DEFINE N == Len(input)
             O == {Through(input[m]) : m \in 1 .. N}
  <1>1. PICK out : /\ FirstOfEach(input) = out[N] /\ out[0] = << >>
                   /\ \A n \in 1 .. N : out[n] = WithPoint(out[n - 1], input[n])
                   /\ \A n \in 0 .. N : out[n] \in Seq(O)
    <2>1. \A n \in 1 .. N : Through(input[n]) \in O
      OBVIOUS
    <2> HIDE DEF O
    <2> QED BY <2>1, PointsRun
  <1> DEFINE From(n) == \A i \in 1 .. Len(out[n]) : \E m \in 1 .. n : Leads(input, m) /\ out[n][i] = Through(input[m])
             Seen(n) == \A m \in 1 .. n : \E i \in 1 .. Len(out[n]) : SetOf(out[n][i].bag) = SeriesKey(input[m])
             Kept(n) == \A m \in 1 .. n : Leads(input, m) => \E i \in 1 .. Len(out[n]) : out[n][i] = Through(input[m])
             Sorted(n) == \A i, j \in 1 .. Len(out[n]) : i < j => out[n][i].value > out[n][j].value
             Good == {n \in 0 .. N : From(n) /\ Seen(n) /\ Kept(n) /\ Sorted(n)}
  <1>2. 0 \in Good
    <2>1. Len(out[0]) = 0 /\ 0 \in 0 .. N
      BY <1>1
    <2> QED BY <2>1
  <1>3. \A p : Through(p).value = p.value /\ Through(p).bag = Attrs(p.bag) /\ SetOf(Through(p).bag) = SeriesKey(p)
    BY DEF Through, SeriesKey
  <1>4. ASSUME NEW n \in 0 .. N, n < N, n \in Good PROVE n + 1 \in Good
    <2> DEFINE m == n + 1
               x == input[m]
               o == out[n]
               p == out[m]
               K == Len(o)
               found == \E i \in 1 .. K : SetOf(o[i].bag) = SeriesKey(x)
    <2>1. m \in 1 .. N /\ m \in 0 .. N /\ m - 1 = n /\ n \in Nat /\ m = n + 1
      BY <1>4
    <2>2. o \in Seq(O) /\ K \in Nat /\ DOMAIN o = 1 .. K
      <3>1. o \in Seq(O)
        BY <1>1
      <3> HIDE DEF o, O
      <3> QED BY <3>1
    <2>3. p = IF found THEN o ELSE Append(o, Through(x))
      <3>1. p = WithPoint(o, x)
        BY <1>1, <2>1
      <3> HIDE DEF p, o, x
      <3> QED BY <2>2, <3>1 DEF WithPoint, Through, SeriesKey
    <2>4. From(n) /\ Seen(n) /\ Kept(n) /\ Sorted(n)
      BY <1>4
    <2>5. \A l \in 1 .. m : l \in 1 .. n \/ l = m
      BY <2>1
    <2>6. \A l \in 1 .. n : l \in 1 .. m /\ l \in 1 .. N /\ l < m
      BY <2>1
    <2>7. CASE found
      <3>1. p = o
        BY <2>3, <2>7
      <3>2. PICK i \in 1 .. K : SetOf(o[i].bag) = SeriesKey(x)
        BY <2>7
      <3>3. PICK l \in 1 .. n : o[i] = Through(input[l])
        BY <2>4
      <3>4. l \in 1 .. (m - 1) /\ SeriesKey(input[l]) = SeriesKey(input[m])
        BY <1>3, <2>1, <3>2, <3>3
      <3>5. ~Leads(input, m)
        BY <3>4 DEF Leads
      <3> HIDE DEF m, p
      <3>6. From(m)
        BY <2>4, <2>6, <3>1 DEF p
      <3>7. Seen(m)
        BY <2>4, <2>5, <3>1, <3>2 DEF p, x
      <3>8. Kept(m)
        BY <2>4, <2>5, <3>1, <3>5 DEF p
      <3>9. Sorted(m)
        BY <2>4, <3>1 DEF p
      <3> HIDE DEF From, Seen, Kept, Sorted
      <3> QED BY <2>1, <3>6, <3>7, <3>8, <3>9
    <2>8. CASE ~found
      <3>1. p = Append(o, Through(x))
        BY <2>3, <2>8
      <3>2. Through(x) \in O
        BY <2>1
      <3>3. /\ Len(p) = K + 1 /\ p[K + 1] = Through(x) /\ K + 1 \in 1 .. (K + 1)
            /\ \A i \in 1 .. K : p[i] = o[i] /\ i \in 1 .. (K + 1)
            /\ \A i \in 1 .. (K + 1) : i \in 1 .. K \/ i = K + 1
        <4> HIDE DEF o, p, x, O
        <4> QED BY <2>2, <3>1, <3>2
      <3>4. Leads(input, m)
        <4>1. ASSUME NEW l \in 1 .. (m - 1) PROVE SeriesKey(input[l]) # SeriesKey(input[m])
          <5>1. PICK i \in 1 .. K : SetOf(o[i].bag) = SeriesKey(input[l])
            BY <2>1, <2>4
          <5> QED BY <2>8, <5>1
        <4> QED BY <4>1 DEF Leads
      <3>5. \A i \in 1 .. K : \E l \in 1 .. n : Leads(input, l) /\ o[i] = Through(input[l])
        BY <2>4
      <3>6. \A l \in 1 .. n : \E i \in 1 .. K : SetOf(o[i].bag) = SeriesKey(input[l])
        BY <2>4
      <3>7. \A l \in 1 .. n : Leads(input, l) => \E i \in 1 .. K : o[i] = Through(input[l])
        BY <2>4
      <3>8. \A i, j \in 1 .. K : i < j => o[i].value > o[j].value
        BY <2>4
      <3>9. \A i \in 1 .. K : o[i].value > x.value
        <4> TAKE i \in 1 .. K
        <4>1. PICK l \in 1 .. n : o[i] = Through(input[l])
          BY <3>5
        <4>2. input[l].value > input[m].value
          BY <2>1, <2>6
        <4> QED BY <1>3, <4>1, <4>2
      <3>10. Through(x).value = x.value /\ SetOf(Through(x).bag) = SeriesKey(x) /\ x = input[m] /\ p = out[m]
        BY <1>3
      <3> HIDE DEF m, x, o, p, K
      <3>11. From(m)
        <4>1. ASSUME NEW i \in 1 .. Len(p) PROVE \E l \in 1 .. m : Leads(input, l) /\ p[i] = Through(input[l])
          <5>1. CASE i \in 1 .. K
            BY <2>6, <3>3, <3>5, <5>1
          <5>2. CASE i = K + 1
            <6>1. m \in 1 .. m
              BY <2>1
            <6> QED BY <3>3, <3>4, <3>10, <5>2, <6>1
          <5> QED BY <3>3, <5>1, <5>2
        <4> QED BY <3>10, <4>1
      <3>12. Seen(m)
        <4>1. ASSUME NEW l \in 1 .. m PROVE \E i \in 1 .. Len(p) : SetOf(p[i].bag) = SeriesKey(input[l])
          <5>1. CASE l \in 1 .. n
            BY <3>3, <3>6, <5>1
          <5>2. CASE l = m
            BY <3>3, <3>10, <5>2
          <5> QED BY <2>5, <5>1, <5>2
        <4> QED BY <3>10, <4>1
      <3>13. Kept(m)
        <4>1. ASSUME NEW l \in 1 .. m, Leads(input, l) PROVE \E i \in 1 .. Len(p) : p[i] = Through(input[l])
          <5>1. CASE l \in 1 .. n
            BY <3>3, <3>7, <4>1, <5>1
          <5>2. CASE l = m
            BY <3>3, <3>10, <5>2
          <5> QED BY <2>5, <5>1, <5>2
        <4> QED BY <3>10, <4>1
      <3>14. Sorted(m)
        <4>1. ASSUME NEW i \in 1 .. Len(p), NEW j \in 1 .. Len(p), i < j PROVE p[i].value > p[j].value
          <5>1. i \in 1 .. K /\ p[i] = o[i]
            BY <2>2, <3>3, <4>1
          <5>2. CASE j \in 1 .. K
            BY <3>3, <3>8, <4>1, <5>1, <5>2
          <5>3. CASE j = K + 1
            BY <3>3, <3>9, <3>10, <5>1, <5>3
          <5> QED BY <3>3, <5>2, <5>3
        <4> QED BY <3>10, <4>1
      <3> HIDE DEF From, Seen, Kept, Sorted
      <3> QED BY <2>1, <3>11, <3>12, <3>13, <3>14
    <2> QED BY <2>7, <2>8
  <1> HIDE DEF Good
  <1>5. N \in Good
    <2>1. \A n \in 0 .. N : n \in Good
      BY <1>2, <1>4, CountUp
    <2> QED BY <2>1
  <1>6. From(N) /\ Kept(N) /\ Sorted(N)
    <2> HIDE DEF From, Seen, Kept, Sorted
    <2> QED BY <1>5 DEF Good
  <1>7. N \in 0 .. N
    OBVIOUS
  <1> QED BY <1>1, <1>6, <1>7

\* A reversed list has the items at the mirrored places.
LEMMA Reversed ==
  ASSUME NEW S, NEW s \in Seq(S)
  PROVE  /\ Reverse(s) \in Seq(S) /\ Len(Reverse(s)) = Len(s)
         /\ \A i \in 1 .. Len(s) : Reverse(s)[i] = s[Len(s) - i + 1]
  <1> DEFINE N == Len(s)
  <1>1. N \in Nat /\ \A i \in 1 .. N : s[i] \in S /\ N - i + 1 \in 1 .. N
    OBVIOUS
  <1>2. Reverse(s) = [i \in 1 .. N |-> s[N - i + 1]]
    BY DEF Reverse
  <1> HIDE DEF N
  <1>3. Reverse(s) \in [1 .. N -> S]
    BY <1>1, <1>2
  <1>4. Reverse(s) \in Seq(S) /\ Len(Reverse(s)) = N
    BY <1>1, <1>3
  <1> QED BY <1>2, <1>4 DEF N

HiddenIn(d, bag) == d.attributes \cup
  IF Inferred \in d.attributes /\ <<Inferred, Marked>> \in ToSet(bag) THEN Identity ELSE {}
SeriesIn(d, bag) == {a \in PairsOf(bag) : a[1] \notin HiddenIn(d, bag)}

\* The loop drops what the policy hides.
LEMMA HiddenDrops ==
  ASSUME NEW A, NEW bag \in Seq(A), NEW k
  PROVE  k \in HiddenIn(denied, bag) <=> Drops(bag, k)
  <1>1. Suppress(bag) <=> (Inferred \in denied.attributes /\ <<Inferred, Marked>> \in ToSet(bag))
    BY DEF Suppress, ToSet
  <1>2. CASE Suppress(bag)
    BY <1>1, <1>2 DEF HiddenIn, Drops, DropAttribute
  <1>3. CASE ~Suppress(bag)
    BY <1>1, <1>3 DEF HiddenIn, Drops, DropAttribute
  <1> QED BY <1>2, <1>3

\* Two points become one series exactly if their bags do.
LEMMA SameSeries ==
  ASSUME NEW A, NEW B, NEW b \in Seq(A), NEW c \in Seq(B), Paired(b), Paired(c)
  PROVE  SetOf(Attrs(b)) = SetOf(Attrs(c)) <=> SeriesIn(denied, b) = SeriesIn(denied, c)
  <1>1. SetOf(Attrs(b)) = SetOf(Attrs(c)) <=> PairsOf(Attrs(b)) = PairsOf(Attrs(c))
    BY SetsOfPairs
  <1>2. \A a : a \in PairsOf(Attrs(b)) <=> a \in SeriesIn(denied, b)
    BY AttrsExact, HiddenDrops DEF SeriesIn
  <1>3. \A a : a \in PairsOf(Attrs(c)) <=> a \in SeriesIn(denied, c)
    BY AttrsExact, HiddenDrops DEF SeriesIn
  <1>4. PairsOf(Attrs(b)) = SeriesIn(denied, b) /\ PairsOf(Attrs(c)) = SeriesIn(denied, c)
    BY <1>2, <1>3
  <1> QED BY <1>1, <1>4

\* What the filter owes of one gauge.
KeptIn(d, inp) == {i \in DOMAIN inp : \A j \in DOMAIN inp : j > i => SeriesIn(d, inp[j].bag) # SeriesIn(d, inp[i].bag)}
GaugeExact(d, inp, out) ==
  /\ {out[i].value : i \in DOMAIN out} = KeptIn(d, inp)
  /\ \A i, j \in DOMAIN out : i < j => out[i].value < out[j].value
  /\ \A i \in DOMAIN out : ToSet(out[i].bag) =
       {a \in ToSet(inp[out[i].value].bag) : a[1] \notin HiddenIn(d, inp[out[i].value].bag)}

\* Read backwards, the first point of each series is the last that was
\* published: those stay, in the order they had.
LEMMA LastWinsExact ==
  ASSUME NEW N \in Nat, NEW inp, DOMAIN inp = 1 .. N, inp = [i \in 1 .. N |-> inp[i]],
         \A i \in 1 .. N : inp[i].value = i /\ Paired(inp[i].bag) /\ \E A : inp[i].bag \in Seq(A)
  PROVE  GaugeExact(denied, inp, LastWins(inp))
  <1> DEFINE S == {inp[i] : i \in 1 .. N}
             r == Reverse(inp)
             o == FirstOfEach(r)
             out == LastWins(inp)
             K == Len(o)
             O == {Through(r[m]) : m \in 1 .. N}
             Mirror(i) == N - i + 1
  <1>1. inp \in Seq(S) /\ Len(inp) = N
    <2>1. inp \in [1 .. N -> S]
      OBVIOUS
    <2> HIDE DEF S
    <2> QED BY <2>1
  <1>2. Len(r) = N /\ \A i \in 1 .. N : r[i] = inp[Mirror(i)]
    <2> HIDE DEF S
    <2> QED BY <1>1, Reversed
  <1>3. \A i \in 1 .. N : Mirror(i) \in 1 .. N /\ Mirror(Mirror(i)) = i /\ Mirror(i) \in Nat
    OBVIOUS
  <1>4. \A i, j \in 1 .. N : i < j => Mirror(i) > Mirror(j)
    OBVIOUS
  <1>5. \A i, j \in 1 .. N : Mirror(i) < j => Mirror(j) < i
    OBVIOUS
  <1>6. \A i \in 1 .. N : \A l \in 1 .. (i - 1) : l \in 1 .. N /\ l < i
    OBVIOUS
  <1>7. \A i, j \in 1 .. N : i < j => i \in 1 .. (j - 1)
    OBVIOUS
  <1> HIDE DEF Mirror, r, S
  <1>8. \A i \in 1 .. N : r[i].value = Mirror(i)
    BY <1>2, <1>3
  <1>9. /\ o \in Seq(O)
        /\ \A i \in 1 .. K : \E m \in 1 .. N : Leads(r, m) /\ o[i] = Through(r[m])
        /\ \A m \in 1 .. N : Leads(r, m) => \E i \in 1 .. K : o[i] = Through(r[m])
        /\ \A i, j \in 1 .. K : i < j => o[i].value > o[j].value
    <2>1. Len(r) \in Nat /\ \A m \in 1 .. Len(r) : r[m].value \in Nat
      BY <1>2, <1>3, <1>8
    <2>2. \A l, m \in 1 .. Len(r) : l < m => r[l].value > r[m].value
      BY <1>2, <1>4, <1>8
    <2> QED BY <1>2, <2>1, <2>2, FirstsExact
  <1>10. K \in Nat /\ out = Reverse(o)
    <2>1. out = Reverse(o)
      BY DEF LastWins, r
    <2> HIDE DEF o, O
    <2> QED BY <1>9, <2>1
  <1> HIDE DEF o, O
  <1>11. Len(out) = K /\ DOMAIN out = 1 .. K /\ \A i \in 1 .. K : out[i] = o[K - i + 1]
    <2>1. Reverse(o) \in Seq(O) /\ Len(Reverse(o)) = Len(o) /\ \A i \in 1 .. Len(o) : Reverse(o)[i] = o[Len(o) - i + 1]
      BY <1>9, Reversed
    <2> HIDE DEF out
    <2> QED BY <1>10, <2>1
  <1> HIDE DEF out, K
  <1>12. \A i \in 1 .. K : K - i + 1 \in 1 .. K /\ out[K - i + 1] = o[i]
    <2> TAKE i \in 1 .. K
    <2>1. K - i + 1 \in 1 .. K /\ K - (K - i + 1) + 1 = i
      BY <1>10
    <2> QED BY <1>11, <2>1
  <1>13. \A i, j \in 1 .. N : SetOf(Attrs(inp[i].bag)) = SetOf(Attrs(inp[j].bag)) <=> SeriesIn(denied, inp[i].bag) = SeriesIn(denied, inp[j].bag)
    <2> TAKE i, j \in 1 .. N
    <2>1. PICK A : inp[i].bag \in Seq(A)
      OBVIOUS
    <2>2. PICK B : inp[j].bag \in Seq(B)
      OBVIOUS
    <2> QED BY <2>1, <2>2, SameSeries
  <1>14. \A m \in 1 .. N : Leads(r, m) <=> Mirror(m) \in KeptIn(denied, inp)
    <2> TAKE m \in 1 .. N
    <2> DEFINE i == Mirror(m)
    <2>1. i \in 1 .. N /\ r[m] = inp[i]
      BY <1>2, <1>3
    <2>2. ASSUME Leads(r, m), NEW j \in 1 .. N, j > i PROVE SeriesIn(denied, inp[j].bag) # SeriesIn(denied, inp[i].bag)
      <3> DEFINE l == Mirror(j)
      <3>1. l \in 1 .. N /\ r[l] = inp[j]
        BY <1>2, <1>3
      <3>4. l < m
        BY <1>5, <2>2
      <3>2. l \in 1 .. (m - 1)
        BY <1>7, <3>1, <3>4
      <3>3. SeriesKey(r[l]) # SeriesKey(r[m])
        BY <2>2, <3>2 DEF Leads
      <3> HIDE DEF l, i
      <3> QED BY <1>13, <2>1, <3>1, <3>3 DEF SeriesKey
    <2>3. ASSUME \A j \in 1 .. N : j > i => SeriesIn(denied, inp[j].bag) # SeriesIn(denied, inp[i].bag), NEW l \in 1 .. (m - 1)
          PROVE  SeriesKey(r[l]) # SeriesKey(r[m])
      <3> DEFINE j == Mirror(l)
      <3>1. l \in 1 .. N /\ l < m
        BY <1>6
      <3>4. j > i
        BY <1>4, <3>1
      <3>2. j \in 1 .. N /\ r[l] = inp[j] /\ j > i
        BY <1>2, <1>3, <3>1, <3>4
      <3> HIDE DEF i, j
      <3>3. SeriesIn(denied, inp[j].bag) # SeriesIn(denied, inp[i].bag)
        BY <2>3, <3>2
      <3> QED BY <1>13, <2>1, <3>2, <3>3 DEF SeriesKey
    <2> HIDE DEF i
    <2> QED BY <2>1, <2>2, <2>3 DEF Leads, KeptIn, i
  <1>15. \A i \in 1 .. K : \E m \in 1 .. N : Leads(r, m) /\ o[i].value = Mirror(m) /\ o[i].bag = Attrs(inp[Mirror(m)].bag)
    <2> TAKE i \in 1 .. K
    <2>1. PICK m \in 1 .. N : Leads(r, m) /\ o[i] = Through(r[m])
      BY <1>9
    <2>2. o[i].value = r[m].value /\ o[i].bag = Attrs(r[m].bag)
      BY <2>1 DEF Through
    <2> QED BY <1>2, <1>8, <2>1, <2>2
  <1>16. {out[i].value : i \in DOMAIN out} = KeptIn(denied, inp)
    <2>1. ASSUME NEW i \in 1 .. K PROVE out[i].value \in KeptIn(denied, inp)
      BY <1>11, <1>12, <1>14, <1>15
    <2>2. ASSUME NEW k \in KeptIn(denied, inp) PROVE \E i \in 1 .. K : out[i].value = k
      <3>1. k \in 1 .. N
        BY DEF KeptIn
      <3>2. Mirror(k) \in 1 .. N /\ Mirror(Mirror(k)) = k
        BY <1>3, <3>1
      <3>3. PICK i \in 1 .. K : o[i] = Through(r[Mirror(k)])
        BY <1>9, <1>14, <3>2
      <3>4. o[i].value = k
        BY <1>8, <3>2, <3>3 DEF Through
      <3> QED BY <1>12, <3>4
    <2> QED BY <1>11, <2>1, <2>2, SMTT(30)
  <1>17. \A i, j \in DOMAIN out : i < j => out[i].value < out[j].value
    <2>1. ASSUME NEW i \in 1 .. K, NEW j \in 1 .. K, i < j PROVE out[i].value < out[j].value
      <3>1. K - i + 1 \in 1 .. K /\ K - j + 1 \in 1 .. K /\ K - j + 1 < K - i + 1
        BY <1>10, <2>1
      <3>2. o[K - j + 1].value > o[K - i + 1].value
        BY <1>9, <3>1
      <3> QED BY <1>11, <3>2
    <2> QED BY <1>11, <2>1
  <1>18. \A i \in DOMAIN out : ToSet(out[i].bag) =
           {a \in ToSet(inp[out[i].value].bag) : a[1] \notin HiddenIn(denied, inp[out[i].value].bag)}
    <2>1. ASSUME NEW i \in 1 .. K
          PROVE  ToSet(out[i].bag) = {a \in ToSet(inp[out[i].value].bag) : a[1] \notin HiddenIn(denied, inp[out[i].value].bag)}
      <3>7. K - i + 1 \in 1 .. K /\ out[i] = o[K - i + 1]
        BY <1>11, <1>12
      <3>1. PICK m \in 1 .. N : out[i].value = Mirror(m) /\ out[i].bag = Attrs(inp[Mirror(m)].bag)
        BY <1>15, <3>7
      <3> DEFINE b == inp[Mirror(m)].bag
      <3>2. Paired(b) /\ \E A : b \in Seq(A)
        BY <1>3
      <3> HIDE DEF b
      <3>3. PICK A : b \in Seq(A)
        BY <3>2
      <3>4. ToSet(Attrs(b)) = {a \in ToSet(b) : ~Drops(b, a[1])}
        BY <3>2, <3>3, AttrsExact
      <3>5. \A a : a[1] \in HiddenIn(denied, b) <=> Drops(b, a[1])
        BY <3>3, HiddenDrops
      <3>6. ToSet(Attrs(b)) = {a \in ToSet(b) : a[1] \notin HiddenIn(denied, b)}
        BY <3>4, <3>5
      <3> QED BY <3>1, <3>6 DEF b
    <2> QED BY <1>11, <2>1
  <1> QED BY <1>16, <1>17, <1>18 DEF GaugeExact, out

\* What FilterExact says.
FilteredExact(pub, pas, d) ==
  /\ DOMAIN pas = GaugeNames \ d.metrics
  /\ \A n \in DOMAIN pas : GaugeExact(d, pub[n], pas[n])

\* The filter only ever passes on what is exact.
LEMMA ExactStep == FilterExact /\ [FilterNext]_filter => FilterExact'
  <1> SUFFICES ASSUME FilterExact, [FilterNext]_filter PROVE FilterExact'
    OBVIOUS
  <1>1. FilterExact' <=> (published' # << >> => FilteredExact(published', passed', denied'))
    BY DEF FilterExact, FilteredExact, GaugeExact, KeptIn, SeriesIn, HiddenIn, PairsOf
  <1>2. CASE UNCHANGED filter
    BY <1>2, SMTT(30) DEF filter, FilterExact
  <1>3. CASE PublishBatch
    <2>1. PICK points \in [GaugeNames -> PointLists] :
            published' = [n \in GaugeNames |-> [i \in DOMAIN points[n] |-> [value |-> i, bag |-> points[n][i]]]]
      BY <1>3 DEF PublishBatch
    <2>2. passed' = [n \in DOMAIN published' \ denied.metrics |-> LastWins(published'[n])] /\ denied' = denied
      BY <1>3 DEF PublishBatch, Filtered
    <2>3. DOMAIN published' = GaugeNames
      BY <2>1
    <2>4. ASSUME NEW n \in GaugeNames PROVE GaugeExact(denied, published'[n], LastWins(published'[n]))
      <3> DEFINE inp == [i \in DOMAIN points[n] |-> [value |-> i, bag |-> points[n][i]]]
      <3>1. published'[n] = inp
        BY <2>1
      <3>2. PICK N \in 0 .. MaxPoints : points[n] \in [1 .. N -> Bags]
        BY DEF PointLists
      <3>3. N \in Nat /\ DOMAIN points[n] = 1 .. N /\ \A i \in 1 .. N : points[n][i] \in Bags
        BY <3>2, PolicyAssumption
      <3>4. DOMAIN inp = 1 .. N /\ inp = [i \in 1 .. N |-> inp[i]]
        BY <3>3
      <3>5. \A i \in 1 .. N : inp[i].value = i /\ inp[i].bag = points[n][i]
        BY <3>3
      <3> HIDE DEF inp
      <3>6. ASSUME NEW bag \in Bags PROVE Paired(bag) /\ \E A : bag \in Seq(A)
        <4>1. bag \in Seq({bag[i] : i \in DOMAIN bag}) /\ \A i \in DOMAIN bag : bag[i] = <<bag[i][1], bag[i][2]>>
          BY PolicyAssumption
        <4>2. PICK A : bag \in Seq(A)
          BY <4>1
        <4>3. DOMAIN bag = 1 .. Len(bag)
          BY <4>2
        <4> QED BY <4>1, <4>2, <4>3 DEF Paired
      <3>7. \A i \in 1 .. N : inp[i].value = i /\ Paired(inp[i].bag) /\ \E A : inp[i].bag \in Seq(A)
        BY <3>3, <3>5, <3>6
      <3>8. GaugeExact(denied, inp, LastWins(inp))
        BY <3>3, <3>4, <3>7, LastWinsExact
      <3> QED BY <3>1, <3>8
    <2>5. DOMAIN passed' = GaugeNames \ denied.metrics
      BY <2>2, <2>3
    <2>6. \A n \in DOMAIN passed' : n \in GaugeNames /\ passed'[n] = LastWins(published'[n])
      BY <2>2, <2>3
    <2>7. FilteredExact(published', passed', denied)
      BY <2>4, <2>5, <2>6 DEF FilteredExact
    <2> QED BY <1>1, <2>2, <2>7
  <1> QED BY <1>2, <1>3 DEF FilterNext

\* Whatever the operator denies and a collector publishes, the emitter behind
\* the filter gets every gauge that is not denied and no other; of each gauge
\* the last point of every series that the denied attributes leave, in the
\* order they came; and of each point all attributes but the denied ones and,
\* where the denied mark stood, the identity (denyPolicy.attrs, denyPolicy.points,
\* denyPolicy.snapshots of telemetry/filter.go).
THEOREM FilterAlwaysExact == FilterSpec => []FilterExact
  <1>1. FilterInit => FilterExact
    BY DEF FilterInit, FilterStarts, FilterExact
  <1> QED BY <1>1, ExactStep, PTL DEF FilterSpec

=============================================================================
