------------------------------ MODULE Listings ------------------------------
(***************************************************************************)
(* Listings over REST (internal/cfapi/client.go, Pages and Cursors) while  *)
(* the list changes between two pages: the client follows page numbers     *)
(* until a short page, or cursors until there is none.                     *)
(***************************************************************************)
EXTENDS Ranks, Sequences, Functions

CONSTANTS
  Items,       \* what may be listed: numbers, the API lists them in order
  PerPage,     \* the page size asked for
  ServerPages, \* the page sizes the API may keep to
  PageCap,     \* requests of one listing: ten thousand in the code
  Edits        \* changes of the list that are modelled

ASSUME ListingAssumption ==
  /\ Items \subseteq Nat \ {0}
  /\ PerPage \in Nat \ {0} /\ ServerPages \subseteq 1 .. PerPage /\ PageCap \in Nat \ {0}

VARIABLES
  listed,  \* what the API lists at the moment
  edits,   \* changes so far
  server,  \* the API's page size, and whether it repeats cursors
  steady,  \* what has been listed ever since the call began
  ever,    \* what has been listed at some time during the call
  shrunk,  \* something has left the list during the call
  listing  \* the call: how it pages, the next page or cursor, the rows and those that came twice, cursors seen
lists == <<listed, edits, server, steady, ever, shrunk, listing>>

Asking == listing.at = "ask"
Outcome(kind, rows, twice, asked) ==
  [at |-> kind, how |-> listing.how, rows |-> rows, twice |-> twice, asked |-> asked]
Error(kind) == Outcome(kind, listing.rows, listing.twice, listing.asked)

-----------------------------------------------------------------------------
(* Pages. *)

\* What the API answers for a page, and the page size it reports.
PageRows(page) == Ranked(listed, (page - 1) * server.size + 1, page * server.size)

\* A page shorter than the size in force is the last one.
AskedSize(page, reported) == Cardinality(page) < PerPage  \* wrong on purpose
Short(page, reported) == Cardinality(page) < (IF reported > 0 THEN reported ELSE PerPage)

AskPage ==
  LET page == PageRows(listing.page)
      rows == listing.rows \cup page
      twice == listing.twice \cup (listing.rows \cap page)
      asked == Append(listing.asked, listing.page)
  IN  /\ Asking /\ listing.how = "pages"
      /\ \E reported \in {server.size} \cup (IF server.size = PerPage THEN {0} ELSE {}) :
           listing' =
             IF Short(page, reported) THEN Outcome("rows", rows, twice, asked)
             ELSE IF listing.page = PageCap THEN Error("limit")
             ELSE [listing EXCEPT !.page = @ + 1, !.rows = rows, !.twice = twice, !.asked = asked]
      /\ UNCHANGED <<listed, edits, server, steady, ever, shrunk>>

-----------------------------------------------------------------------------
(* Cursors.  A cursor names the last item of its page; an API at fault may   *)
(* give one again.                                                           *)

After(cursor) == {i \in listed : i > cursor}
CursorPage(cursor) == Ranked(After(cursor), 1, server.size)
Proper(cursor) ==
  IF Cardinality(After(cursor)) > server.size
  THEN CHOOSE i \in After(cursor) : Rank(i, After(cursor)) = server.size
  ELSE 0
NextCursors(cursor) == {Proper(cursor)} \cup IF server.repeats THEN listing.seen ELSE {}

NeverSeen(cursor) == FALSE  \* wrong on purpose
Repeated(cursor) == cursor \in listing.seen

AskCursor ==
  LET page == CursorPage(listing.cursor)
      rows == listing.rows \cup page
      twice == listing.twice \cup (listing.rows \cap page)
      asked == Append(listing.asked, listing.cursor)
  IN  /\ Asking /\ listing.how = "cursors"
      /\ \E cursor \in NextCursors(listing.cursor) :
           listing' =
             IF cursor = 0 THEN Outcome("rows", rows, twice, asked)
             ELSE IF Repeated(cursor) THEN Error("repeated")
             ELSE IF Len(asked) = PageCap THEN Error("limit")
             ELSE [listing EXCEPT !.cursor = cursor, !.seen = @ \cup {cursor}, !.rows = rows, !.twice = twice, !.asked = asked]
      /\ UNCHANGED <<listed, edits, server, steady, ever, shrunk>>

-----------------------------------------------------------------------------
\* A request fails, or its answer is not a page.
ListingFailed ==
  /\ Asking
  /\ listing' = Error("failed")
  /\ UNCHANGED <<listed, edits, server, steady, ever, shrunk>>

Appear ==
  /\ edits < Edits /\ Asking
  /\ \E i \in Items \ listed : listed' = listed \cup {i}
  /\ ever' = ever \cup listed' /\ edits' = edits + 1
  /\ UNCHANGED <<server, steady, shrunk, listing>>
Disappear ==
  /\ edits < Edits /\ Asking
  /\ \E i \in listed : listed' = listed \ {i} /\ steady' = steady \ {i}
  /\ shrunk' = TRUE /\ edits' = edits + 1
  /\ UNCHANGED <<server, ever, listing>>

Call(how) ==
  [at |-> "ask", how |-> how, page |-> 1, cursor |-> 0, seen |-> {}, rows |-> {}, twice |-> {},
   asked |-> << >>]
ListsStart(items, api, how) ==
  /\ listed = items /\ steady = items /\ ever = items
  /\ edits = 0 /\ shrunk = FALSE
  /\ server = api /\ listing = Call(how)
ListsInit ==
  \E items \in {s \in SUBSET Items : IsFiniteSet(s)}, api \in [size : ServerPages, repeats : BOOLEAN], how \in {"pages", "cursors"} :
    ListsStart(items, api, how)

ListsNext == AskPage \/ AskCursor \/ ListingFailed \/ Appear \/ Disappear

ListsSpec == ListsInit /\ [][ListsNext]_lists

-----------------------------------------------------------------------------
\* A listing that succeeds holds nothing that was never listed, and everything
\* that was listed all the time, whatever the API's own page size, if no row left
\* the list (page numbers shift) or no cursor came back; without a change it
\* holds nothing twice (Pages, Cursors).
ListingComplete ==
  listing.at = "rows" =>
    LET sound == IF listing.how = "pages" THEN ~shrunk ELSE ~server.repeats
    IN  /\ listing.rows \subseteq ever
        /\ sound => steady \subseteq listing.rows
        /\ sound /\ edits = 0 => listing.twice = {}

\* No page and no cursor is asked for twice, and no more pages than the cap, so a
\* listing ends although the API repeats its cursors (Pages, Cursors).
AskedOnce == IsInjective(listing.asked) /\ Len(listing.asked) <= PageCap

\* A listing ends, and holds what was there all the time (Pages, Cursors).
ListingSound == ListingComplete /\ AskedOnce
=============================================================================
