---------------------------- MODULE ListAnswers ----------------------------
(***************************************************************************)
(* What GET /references promises a reader, without statements, integers of *)
(* a machine and parameters to parse.  Rows come and go while an answer is *)
(* on its way; the answer has three parts, the count with the number of    *)
(* pages, the rows of a page and the tags in use, and each part is true of *)
(* one moment between the request and the answer, in this order.           *)
(***************************************************************************)
EXTENDS ReferenceList, Sequences, Integers

CONSTANTS
    Queries,   \* records of a page, a limit, a search and tags
    Tables,    \* what the table may hold at first
    Clocks,    \* created_at of every reference
    Nothing

VARIABLES
    table,     \* the rows there are
    at,        \* created_at
    phase,     \* "none", "asked" or "answered"
    asked,     \* page, limit, search and tags; or Nothing
    views,     \* the tables there have been since the list was asked for
    response   \* the answer, or Nothing

listing == <<table, at, phase, asked, views, response>>

Init ==
    /\ table \in Tables /\ at \in Clocks
    /\ phase = "none" /\ asked = Nothing /\ views = <<>> /\ response = Nothing

Ask ==
    /\ phase # "asked" /\ phase' = "asked"
    /\ asked' \in Queries /\ views' = <<table>> /\ response' = Nothing
    /\ UNCHANGED <<table, at>>

\* A row enters or leaves.
Write(r) ==
    /\ table' \in {table \cup {r}, table \ {r}}
    /\ views' = IF phase = "asked" THEN Append(views, table') ELSE views
    /\ UNCHANGED <<at, phase, asked, response>>

\* pages is the least number that holds as many rows.
Holds(pages, limit, count) ==
    IF count = 0 THEN pages = 0
    ELSE (pages - 1) * limit < count /\ count <= pages * limit

\* Some order, newest first, in which those are the rows of the page.
IsPage(items, found, page, limit) ==
    \E order \in [found -> 1 .. Cardinality(found)] :
        /\ \A a, b \in found : a # b => (order[a] # order[b] /\ (at[a] < at[b] => order[a] < order[b]))
        /\ items = {r \in found : /\ Rank(r, found, order) >= (page - 1) * limit
                                  /\ Rank(r, found, order) < page * limit}

\* The page asked for is answered, or the first if it is not one of those
\* counted.  If none were counted, whatever rows entered since may be shown.
IsAnswer(a, q, counted, shown, inUse) ==
    /\ a.totalCount = Cardinality(counted)
    /\ a.totalPages \in Nat /\ Holds(a.totalPages, q.limit, a.totalCount)
    /\ a.page = (IF counted # {} /\ q.page > a.totalPages THEN 1 ELSE q.page)
    /\ IF counted # {} THEN IsPage(a.items, shown, a.page, q.limit)
                       ELSE a.items \subseteq shown
    /\ Cardinality(a.items) <= q.limit
    /\ a.availableTags = AvailableTags(inUse)

Answer ==
    /\ phase = "asked" /\ phase' = "answered"
    /\ \E i, j, k \in DOMAIN views :
        /\ i <= j /\ j <= k
        /\ IsAnswer(response', asked, Matching(views[i], asked.search, asked.tags),
                    Matching(views[j], asked.search, asked.tags), views[k])
    /\ views' = <<>>
    /\ UNCHANGED <<table, at, asked>>

\* It is refused, or fails.
GiveUp ==
    /\ phase' = "none" /\ asked' = Nothing /\ views' = <<>> /\ response' = Nothing
    /\ UNCHANGED <<table, at>>

Next ==
    \/ Ask
    \/ \E r \in Refs : Write(r)
    \/ Answer \/ GiveUp

Spec == Init /\ [][Next]_listing
=============================================================================
