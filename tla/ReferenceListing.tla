-------------------------- MODULE ReferenceListing --------------------------
(***************************************************************************)
(* GET /references (handlers/references.go, GetReferences): the handler    *)
(* counts the matching rows, reads one page of them and reads the tags in  *)
(* use, in three statements without a transaction, while other requests    *)
(* create, delete and restore rows between them.  A reader walks through   *)
(* the pages, as the pagination buttons of the dashboard do.               *)
(*                                                                         *)
(* "walk", "sinceCount" and "sincePage" are history variables.             *)
(***************************************************************************)
EXTENDS ReferenceList, Integers

CONSTANTS
    Params,     \* requests that a reader may send
    Clocks,     \* created_at of every reference, in its order; ties included
    MaxLimit,   \* maxReferenceLimit
    Word,       \* how many values an int has
    Absent,     \* a parameter that is not sent, or blank
    Blank,      \* a blank piece of a tags parameter
    MaxWrites   \* bound on the commits of other requests

\* Limit is defaultReferenceLimit.  The number 0 stands for every text that
\* is not a positive integer.  No table has as many rows as an int counts.
ASSUME ListingAssumption ==
    /\ Clocks \subseteq [Refs -> Nat] /\ Absent \notin Nat
    /\ Params \subseteq [page : Nat \cup {Absent}, limit : Nat \cup {Absent},
                         search : Searches, tags : SUBSET SUBSET (Tags \cup {Blank})]
    /\ MaxLimit \in Nat \ {0} /\ Limit <= MaxLimit /\ Blank \notin Tags
    /\ Word \in Nat /\ 2 * MaxLimit < Word /\ Cardinality(Refs) < Word \div 2
    /\ MaxWrites \in Nat

VARIABLES
    DB,          \* whether the handler has a database
    active,      \* rows that are not deleted
    at,          \* created_at
    stage,       \* the statement that comes next, or "idle" or the status
    query,       \* page, limit, search and tags as the handler holds them
    answer,      \* totalCount, totalPages, items and availableTags so far
    sinceCount,  \* what other requests did since the count
    sincePage,   \* and since the page
    walk,        \* what the reader has been shown since it asked for page 1
    writes

list == <<stage, query, answer>>
rows == <<active, at, writes>>
vars == <<DB, rows, list, sinceCount, sincePage, walk>>

Statements == {"count", "page", "tags"}
Changes == SUBSET {"entered", "left"}

NoAnswer == [totalCount |-> 0, totalPages |-> 0, items |-> {}, availableTags |-> {}]

NewWalk == [on |-> FALSE, asked |-> 1, seen |-> {}, twice |-> {}, there |-> {},
            changes |-> {}, torn |-> FALSE]

Init ==
    /\ DB \in BOOLEAN /\ active \in SUBSET Refs /\ at \in Clocks
    /\ stage = "idle" /\ answer = NoAnswer
    /\ query = [page |-> 1, limit |-> Limit, search |-> NoSearch, tags |-> {}]
    /\ sinceCount = {} /\ sincePage = {} /\ walk = NewWalk /\ writes = 0
-----------------------------------------------------------------------------
(* What the handler computes. *)

\* Two's complement of as many bits as Word has.
Wrapped(n) == ((n + Word \div 2) % Word) - Word \div 2

parsePositiveInt(value, fallback) == IF value = Absent THEN fallback ELSE value

IsPositiveInt(n) == n > 0 /\ n < Word \div 2

\* Every parameter is split at its commas; blank pieces and repetitions go.
normalizeReferenceTags(raw) == (UNION raw) \ {Blank}

\* Faulty variant: no upper bound.
Uncapped(limit) == limit

Capped(limit) == IF limit > MaxLimit THEN MaxLimit ELSE limit

Parsed(p) == [page   |-> parsePositiveInt(p.page, 1),
              limit  |-> Capped(parsePositiveInt(p.limit, Limit)),
              search |-> p.search,
              tags   |-> normalizeReferenceTags(p.tags)]

\* Faulty variant: rounded down.
FullPages(count, limit) == count \div limit

Pages(count, limit) == IF count > 0 THEN (count + limit - 1) \div limit ELSE 0

\* Faulty variant: the rows of a page are counted with the default limit.
DefaultOffset(page, limit) == Wrapped((page - 1) * Limit)

Offset(page, limit) == Wrapped((page - 1) * limit)

\* Faulty variant: it becomes the last one, but the offset does not.
LastInRange(q, pages) ==
    IF pages > 0 /\ q.page > pages THEN [q EXCEPT !.page = pages] ELSE q

\* A page beyond the last one becomes the first.
InRange(q, pages) ==
    IF pages > 0 /\ q.page > pages THEN [q EXCEPT !.page = 1] ELSE q

\* Faulty variant: the search alone.
MatchesSearch(q) == Matching(active, q.search, {})

Matches(q) == Matching(active, q.search, q.tags)

\* Faulty variant: no ORDER BY.
InAnyOrder(set) == {o \in [set -> 1 .. Cardinality(set)] : \A a, b \in set : a # b => o[a] # o[b]}

\* ORDER BY created_at DESC: the database orders rows of one moment as it likes.
NewestFirst(set) ==
    {o \in [set -> 1 .. Cardinality(set)] :
        \A a, b \in set : a # b => (o[a] # o[b] /\ (at[a] < at[b] => o[a] < o[b]))}

\* LIMIT and OFFSET; an offset that is not positive is left out of the SQL.
Slice(set, order, offset, limit) ==
    {r \in set : /\ Rank(r, set, order) >= offset
                 /\ Rank(r, set, order) < limit + (IF offset > 0 THEN offset ELSE 0)}
-----------------------------------------------------------------------------
(* The handler.  The reader has one request under way. *)

Idle == stage \notin Statements

Refused(p) == \/ ~IsPositiveInt(parsePositiveInt(p.page, 1))
              \/ ~IsPositiveInt(parsePositiveInt(p.limit, Limit))

\* The request arrives; a wrong number is answered 400 and a missing database
\* 503 before anything is read.
Received(p) ==
    /\ query' = (IF Refused(p) THEN query ELSE Parsed(p))
    /\ stage' = (IF Refused(p) THEN "400" ELSE IF DB THEN "count" ELSE "503")
    /\ answer' = NoAnswer /\ sinceCount' = {} /\ sincePage' = {}
    /\ UNCHANGED <<DB, rows>>

\* The reader asks for something new; a walk starts at the first page.
Request(p) ==
    /\ Idle /\ Received(p)
    /\ walk' = [NewWalk EXCEPT !.on = parsePositiveInt(p.page, 1) = 1, !.there = active]

\* It goes on to the next page, with the query and the pages it was answered.
NextPage ==
    /\ stage = "200" /\ walk.on /\ query.page < answer.totalPages
    /\ Received([page |-> query.page + 1, limit |-> query.limit,
                 search |-> query.search, tags |-> {{t} : t \in query.tags}])
    /\ UNCHANGED walk

Count ==
    /\ stage = "count"
    /\ LET count == Cardinality(Matches(query))
       IN answer' = [answer EXCEPT !.totalCount = count,
                                   !.totalPages = Pages(count, query.limit)]
    /\ stage' = "page" /\ sinceCount' = {}
    /\ UNCHANGED <<DB, rows, query, sincePage, walk>>

\* The offset is computed from the page asked for, before that is corrected.
ReadPage ==
    /\ stage = "page"
    /\ query' = InRange(query, answer.totalPages)
    /\ LET offset == IF query' = query THEN Offset(query.page, query.limit) ELSE 0
       IN \E order \in NewestFirst(Matches(query)) :
            answer' = [answer EXCEPT !.items = Slice(Matches(query), order, offset, query.limit)]
    /\ stage' = "tags" /\ sincePage' = {}
    /\ walk' = [walk EXCEPT !.on = @ /\ query' = query,
                            !.asked = query.page,
                            !.seen = @ \cup answer'.items,
                            !.twice = @ \cup (walk.seen \cap answer'.items),
                            !.torn = @ \/ sinceCount # {}]
    /\ UNCHANGED <<DB, rows, sinceCount>>

ReadTags ==
    /\ stage = "tags"
    /\ answer' = [answer EXCEPT !.availableTags = AvailableTags(active)]
    /\ stage' = "200"
    /\ UNCHANGED <<DB, rows, query, sinceCount, sincePage, walk>>

\* Any of the statements fails.
Fail == /\ stage \in Statements /\ stage' = "500"
        /\ UNCHANGED <<DB, rows, query, answer, sinceCount, sincePage, walk>>
-----------------------------------------------------------------------------
(* Commits of other requests. *)

Written(change) ==
    /\ DB /\ writes < MaxWrites /\ writes' = writes + 1
    /\ sinceCount' = sinceCount \cup {change}
    /\ sincePage' = sincePage \cup {change}
    /\ UNCHANGED <<DB, at, list>>

\* A create or a restore: the row keeps the created_at it was given before the
\* commit, so it need not be the newest.
Enter(r) == /\ r \notin active /\ active' = active \cup {r}
            /\ Written("entered")
            /\ walk' = [walk EXCEPT !.changes = @ \cup {"entered"}]

Leave(r) == /\ r \in active /\ active' = active \ {r}
            /\ Written("left")
            /\ walk' = [walk EXCEPT !.changes = @ \cup {"left"}, !.there = @ \ {r}]

Next ==
    \/ \E p \in Params : Request(p)
    \/ NextPage \/ Count \/ ReadPage \/ ReadTags \/ Fail
    \/ \E r \in Refs : Enter(r) \/ Leave(r)

Spec == Init /\ [][Next]_vars
-----------------------------------------------------------------------------
(* Properties. *)

\* Every variable keeps its type, and a request that is carried out has a
\* page and a limit in range whatever was sent.
TypeOK ==
    /\ DB \in BOOLEAN /\ active \subseteq Refs /\ at \in Clocks
    /\ stage \in Statements \cup {"idle", "200", "400", "500", "503"}
    /\ query.page \in Nat \ {0} /\ query.limit \in 1 .. MaxLimit
    /\ query.search \in Searches /\ query.tags \subseteq Tags
    /\ answer.totalCount \in Nat /\ answer.totalPages \in Nat
    /\ answer.items \subseteq Refs /\ answer.availableTags \subseteq Tags
    /\ sinceCount \in Changes /\ sincePage \in Changes
    /\ walk.on \in BOOLEAN /\ walk.asked \in Nat \ {0} /\ walk.seen \subseteq Refs /\ walk.twice \subseteq walk.seen
    /\ walk.there \subseteq active /\ walk.changes \in Changes
    /\ writes \in 0 .. MaxWrites

\* Rows that no other row was created at the same moment as.
Distinct == {r \in Refs : \A x \in Refs : x # r => at[x] # at[r]}

\* An answer that nobody wrote during is what one look at the table gives: the
\* number of matching rows, the least number of pages that holds them, the page
\* asked for if it is one of those, and exactly the rows that as many rows precede as belong to the
\* pages before it, however large the page asked for (the offset of a huge one
\* overflows).
QuietAnswersAreSnapshots ==
    (stage = "200" /\ sinceCount = {}) =>
        LET found == Matches(query)
            before(r) == Cardinality({x \in found : at[x] > at[r]})
        IN /\ answer.totalCount = Cardinality(found)
           /\ answer.totalPages * query.limit >= answer.totalCount
           /\ answer.totalCount > 0 =>
                /\ (answer.totalPages - 1) * query.limit < answer.totalCount
                /\ query.page <= answer.totalPages
                /\ walk.asked <= answer.totalPages => query.page = walk.asked
           /\ \A r \in found \cap Distinct :
                r \in answer.items <=> /\ before(r) >= (query.page - 1) * query.limit
                                       /\ before(r) < query.page * query.limit
           /\ answer.availableTags = UNION {TagsOf[r] : r \in active}

\* An answer whose parts disagree has a cause: a page is empty although the
\* count is not only if a row left after the count, shows more rows than were
\* counted only if one entered, and shows a tag that is not offered only if a
\* row left after the page; it never has more rows than the limit or one that
\* lacks a tag asked for.
TornAnswersHaveACause ==
    stage = "200" =>
        /\ Cardinality(answer.items) <= query.limit
        /\ \A r \in answer.items : query.tags \subseteq TagsOf[r] /\ r \in Hits[query.search]
        /\ (answer.items = {} /\ answer.totalCount > 0) => "left" \in sinceCount
        /\ Cardinality(answer.items) > answer.totalCount => "entered" \in sinceCount
        /\ \/ UNION {TagsOf[r] : r \in answer.items} \subseteq answer.availableTags
           \/ "left" \in sincePage

WalkEnded == stage = "200" /\ walk.on /\ query.page >= answer.totalPages

\* Whoever reads all pages is shown every row that was there all the while,
\* though rows enter between the pages; only a row that left, a write between
\* the count and the page of one answer, or rows of one moment hide another.
WalkMissesNothing ==
    (WalkEnded /\ "left" \notin walk.changes /\ ~walk.torn) =>
        Matching(walk.there, query.search, query.tags) \cap Distinct \subseteq walk.seen

\* And no row is shown twice unless one entered.
WalkRepeatsNothing ==
    (walk.on /\ "entered" \notin walk.changes) => walk.twice \cap Distinct = {}
=============================================================================
