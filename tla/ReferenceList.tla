--------------------------- MODULE ReferenceList ---------------------------
(***************************************************************************)
(* Pages of a filtered list, as GET /references (handlers/references.go)   *)
(* and the demo layer (lib/portfolioReferences.ts) both compute them: which *)
(* rows match, how many pages they fill, which page answers a request.     *)
(***************************************************************************)
EXTENDS Naturals, FiniteSets

CONSTANTS
    Refs,      \* references, numbered in the order they were saved
    Searches,  \* search words, trimmed
    NoSearch,  \* the empty one
    Tags,      \* tags a reference may carry
    Hits,      \* Hits[s]: the references whose title, description or url has s
    TagsOf,    \* TagsOf[r]: the tags of r
    Limit      \* references on a page

ASSUME ListAssumption ==
    /\ Refs \subseteq Nat /\ IsFiniteSet(Refs)
    /\ NoSearch \in Searches
    /\ Hits \in [Searches -> SUBSET Refs] /\ Hits[NoSearch] = Refs
    /\ TagsOf \in [Refs -> SUBSET Tags]
    /\ Limit \in Nat \ {0}

\* Rows of "active" that have the search word and every tag asked for.
Matching(active, search, tags) ==
    {r \in active : r \in Hits[search] /\ tags \subseteq TagsOf[r]}

\* Faulty variant: a full last page is followed by an empty one.
OneMorePage(count) == count \div Limit + 1

TotalPages(count) == (count + Limit - 1) \div Limit

\* A page beyond the last one is answered with the first.
AnsweredPage(page, count) ==
    IF TotalPages(count) > 0 /\ page > TotalPages(count) THEN 1 ELSE page

\* How many rows come before r when "at" says which is newer.
Rank(r, rows, at) == Cardinality({x \in rows : at[x] > at[r]})

\* The rows of a page, newest first.
PageOf(rows, at, page) == {r \in rows : Rank(r, rows, at) \div Limit = page - 1}

AvailableTags(active) == UNION {TagsOf[r] : r \in active}
=============================================================================
